--------------------------- MODULE HierarchyProofs ---------------------------
(***************************************************************************)
(* Proofs about the hierarchy.  The inductive invariant is Tree: the five  *)
(* links of the nodes mirror each other, and no set of nodes is closed     *)
(* under one link (parent, next or previous sibling), which says without   *)
(* counting that a walk along that link ends.  Tree takes the node that    *)
(* hangs in no list, because a move takes a node out of one list before it *)
(* puts it into another; between handlers that node is NULL, there is none.*)
(* On the tree stand the counts and captures of dormancy, the calls of a   *)
(* despawn cascade, the walk in depth-first order, the marks and matrices  *)
(* of the transforms, the tree order with its cached indices and, last,    *)
(* the refinement of Forest: the links determine the list of every parent. *)
(***************************************************************************)
EXTENDS Hierarchy, SublistProofs

Ends == Entity \cup {NULL}

NodeType ==
  [parent : Ends, first_child : Ends, last_child : Ends, prev_sibling : Ends, next_sibling : Ends,
   dormant_depth : Int, deactivated : BOOLEAN, saved : [Component -> RowState],
   transform_dirty : BOOLEAN, transform_dirty_below : BOOLEAN]

Nodes == [Ends -> NodeType]

\* The links of a node, and the fields that are no links, in two node tables.
SameLinks(n, m, d) ==
  /\ m[d].parent = n[d].parent
  /\ m[d].first_child = n[d].first_child /\ m[d].last_child = n[d].last_child
  /\ m[d].prev_sibling = n[d].prev_sibling /\ m[d].next_sibling = n[d].next_sibling
SameCover(n, m, d) ==
  /\ m[d].dormant_depth = n[d].dormant_depth /\ m[d].deactivated = n[d].deactivated
  /\ m[d].saved = n[d].saved
SameMarks(n, m, d) ==
  /\ m[d].transform_dirty = n[d].transform_dirty
  /\ m[d].transform_dirty_below = n[d].transform_dirty_below

\* Links stay among the adopted; whoever is not adopted has none.
Inside(n, A) ==
  /\ A \subseteq Entity
  /\ \A d \in Ends : /\ n[d].parent \in A \cup {NULL}
                     /\ n[d].first_child \in A \cup {NULL} /\ n[d].last_child \in A \cup {NULL}
                     /\ n[d].prev_sibling \in A \cup {NULL} /\ n[d].next_sibling \in A \cup {NULL}
  /\ \A d \in Ends \ A : n[d].parent = NULL /\ n[d].prev_sibling = NULL /\ n[d].next_sibling = NULL
  /\ \A d \in Entity \ A : n[d].first_child = NULL /\ n[d].last_child = NULL

\* Every adopted node but f is in the list of its parent, by both its sides.
Listed(n, A, f) ==
  \A e \in A \ {f} :
    /\ n[e].next_sibling = NULL => n[n[e].parent].last_child = e
    /\ n[e].next_sibling # NULL =>
         /\ n[e].next_sibling # f /\ n[n[e].next_sibling].prev_sibling = e
         /\ n[n[e].next_sibling].parent = n[e].parent
    /\ n[e].prev_sibling = NULL => n[n[e].parent].first_child = e
    /\ n[e].prev_sibling # NULL =>
         /\ n[e].prev_sibling # f /\ n[n[e].prev_sibling].next_sibling = e
         /\ n[n[e].prev_sibling].parent = n[e].parent

\* The ends of every list.
Headed(n, f) ==
  \A p \in Ends :
    /\ (n[p].first_child = NULL) <=> (n[p].last_child = NULL)
    /\ n[p].first_child # NULL =>
         /\ n[p].first_child # f /\ n[n[p].first_child].parent = p
         /\ n[n[p].first_child].prev_sibling = NULL
    /\ n[p].last_child # NULL =>
         /\ n[p].last_child # f /\ n[n[p].last_child].parent = p
         /\ n[n[p].last_child].next_sibling = NULL

Afloat(n, f) ==
  n[f].parent = NULL /\ n[f].prev_sibling = NULL /\ n[f].next_sibling = NULL

\* No walk along a link runs forever.
UpEnds(n, A) == \A S \in SUBSET A : (\A e \in S : n[e].parent \in S) => S = {}
BackEnds(n, A) == \A S \in SUBSET A : (\A e \in S : n[e].prev_sibling \in S) => S = {}
OnEnds(n, A) == \A S \in SUBSET A : (\A e \in S : n[e].next_sibling \in S) => S = {}

Tree(n, A, f) ==
  /\ n \in Nodes /\ f \in A \cup {NULL}
  /\ Inside(n, A) /\ Listed(n, A, f) /\ Headed(n, f) /\ Afloat(n, f)
  /\ UpEnds(n, A) /\ BackEnds(n, A) /\ OnEnds(n, A)

-----------------------------------------------------------------------------
\* Setting the links of one node.
SameRecord(r, s) ==
  /\ s.dormant_depth = r.dormant_depth /\ s.deactivated = r.deactivated /\ s.saved = r.saved
  /\ s.transform_dirty = r.transform_dirty /\ s.transform_dirty_below = r.transform_dirty_below

Placed(r, a, b, c) == [r EXCEPT !.parent = a, !.prev_sibling = b, !.next_sibling = c]

\* The ends of a parent's list.
LEMMA SetHeads ==
  ASSUME NEW r \in NodeType, NEW a \in Ends
  PROVE  LET s == [r EXCEPT !.first_child = a]
             t == [r EXCEPT !.last_child = a]
         IN  /\ s \in NodeType /\ SameRecord(r, s)
             /\ s.parent = r.parent /\ s.prev_sibling = r.prev_sibling /\ s.next_sibling = r.next_sibling
             /\ s.first_child = a /\ s.last_child = r.last_child
             /\ t \in NodeType /\ SameRecord(r, t)
             /\ t.parent = r.parent /\ t.prev_sibling = r.prev_sibling /\ t.next_sibling = r.next_sibling
             /\ t.first_child = r.first_child /\ t.last_child = a
  BY DEF NodeType, SameRecord

\* The sides of a sibling.
LEMMA SetSides ==
  ASSUME NEW r \in NodeType, NEW a \in Ends
  PROVE  LET s == [r EXCEPT !.prev_sibling = a]
             t == [r EXCEPT !.next_sibling = a]
         IN  /\ s \in NodeType /\ SameRecord(r, s)
             /\ s.parent = r.parent /\ s.prev_sibling = a /\ s.next_sibling = r.next_sibling
             /\ s.first_child = r.first_child /\ s.last_child = r.last_child
             /\ t \in NodeType /\ SameRecord(r, t)
             /\ t.parent = r.parent /\ t.prev_sibling = r.prev_sibling /\ t.next_sibling = a
             /\ t.first_child = r.first_child /\ t.last_child = r.last_child
  BY DEF NodeType, SameRecord

\* Same fields of a node, seen through the table.
LEMMA SameFields ==
  ASSUME NEW n, NEW m, NEW d
  PROVE  SameRecord(n[d], m[d]) <=> SameCover(n, m, d) /\ SameMarks(n, m, d)
  BY DEF SameRecord, SameCover, SameMarks

LinkedLast(n, m, e, p) ==
  LET l == n[p].last_child
  IN  /\ m \in Nodes
      /\ \A d \in Ends :
           /\ m[d].parent = IF d = e THEN p ELSE n[d].parent
           /\ m[d].prev_sibling = IF d = e THEN l ELSE n[d].prev_sibling
           /\ m[d].next_sibling = IF d = e THEN NULL ELSE IF l # NULL /\ d = l THEN e ELSE n[d].next_sibling
           /\ m[d].first_child = IF l = NULL /\ d = p THEN e ELSE n[d].first_child
           /\ m[d].last_child = IF d = p THEN e ELSE n[d].last_child
           /\ SameCover(n, m, d) /\ SameMarks(n, m, d)

\* What linking a node last does to every field of every node.
LEMMA LinkFields ==
  ASSUME NEW n \in Nodes, NEW e \in Entity, NEW p \in Ends, e # p, n[p].last_child # e
  PROVE  LinkedLast(n, link_last(n, e, p), e, p)
<1> DEFINE l == n[p].last_child
           own == Placed(n[e], p, l, NULL)
           over == [n[p] EXCEPT !.last_child = e]
           linked == [n EXCEPT ![e].parent = p, ![e].prev_sibling = l,
                               ![e].next_sibling = NULL, ![p].last_child = e]
           m == link_last(n, e, p)
<1>0. NULL \notin Entity /\ e \in Ends /\ NULL \in Ends
  BY HierarchyAssumption DEF Ends
<1>1. n[e] \in NodeType /\ n[p] \in NodeType /\ l \in Ends
  <2>1. n[e] \in NodeType /\ n[p] \in NodeType
    BY <1>0 DEF Nodes
  <2>. QED BY <2>1 DEF NodeType
<1>2. /\ own \in NodeType /\ SameRecord(n[e], own)
      /\ own.parent = p /\ own.prev_sibling = l /\ own.next_sibling = NULL
      /\ own.first_child = n[e].first_child /\ own.last_child = n[e].last_child
  <2>. PICK r \in NodeType : r = n[e]
    BY <1>1
  <2>. PICK b \in Ends : b = l
    BY <1>1
  <2>1. /\ Placed(r, p, b, NULL) \in NodeType /\ SameRecord(r, Placed(r, p, b, NULL))
        /\ Placed(r, p, b, NULL).parent = p /\ Placed(r, p, b, NULL).prev_sibling = b
        /\ Placed(r, p, b, NULL).next_sibling = NULL
        /\ Placed(r, p, b, NULL).first_child = r.first_child
        /\ Placed(r, p, b, NULL).last_child = r.last_child
    BY <1>0 DEF Placed, NodeType, SameRecord
  <2>. QED BY <2>1
<1>3. /\ over \in NodeType /\ SameRecord(n[p], over)
      /\ over.parent = n[p].parent /\ over.prev_sibling = n[p].prev_sibling
      /\ over.next_sibling = n[p].next_sibling
      /\ over.first_child = n[p].first_child /\ over.last_child = e
  BY <1>0, <1>1, SetHeads
<1>4. linked = [d \in Ends |-> IF d = e THEN own ELSE IF d = p THEN over ELSE n[d]]
  <2>1. DOMAIN n = Ends /\ n = [d \in Ends |-> n[d]]
    BY DEF Nodes
  <2>2. linked = [[n EXCEPT ![e] = own] EXCEPT ![p] = [@ EXCEPT !.last_child = e]]
    BY <1>0, <2>1 DEF Placed
  <2>3. [n EXCEPT ![e] = own][p] = n[p]
    BY <1>0, <2>1
  <2>. QED BY <1>0, <2>1, <2>2, <2>3
<1>5. m = IF l # NULL THEN [linked EXCEPT ![l].next_sibling = e]
                      ELSE [linked EXCEPT ![p].first_child = e]
  BY DEF link_last
<1>. HIDE DEF own, over, linked, m
<1>6. linked \in Nodes /\ \A d \in Ends : linked[d] = IF d = e THEN own ELSE IF d = p THEN over ELSE n[d]
  BY <1>2, <1>3, <1>4 DEF Nodes
<1>7. \A d \in Ends : linked[d] \in NodeType
  BY <1>6 DEF Nodes
<1>8. CASE l # NULL
  <2> DEFINE side == [linked[l] EXCEPT !.next_sibling = e]
  <2>1. /\ side \in NodeType /\ SameRecord(linked[l], side)
        /\ side.parent = linked[l].parent /\ side.prev_sibling = linked[l].prev_sibling
        /\ side.next_sibling = e
        /\ side.first_child = linked[l].first_child /\ side.last_child = linked[l].last_child
    <3>. PICK r \in NodeType : r = linked[l]
      BY <1>1, <1>7
    <3>. QED BY <1>0, SetSides
  <2>2. m = [linked EXCEPT ![l] = side]
    BY <1>5, <1>8
  <2>. HIDE DEF side
  <2>3. m \in Nodes /\ \A d \in Ends : m[d] = IF d = l THEN side ELSE linked[d]
    BY <1>1, <1>6, <2>1, <2>2 DEF Nodes
  <2>4. ASSUME NEW d \in Ends
        PROVE  /\ m[d].parent = IF d = e THEN p ELSE n[d].parent
               /\ m[d].prev_sibling = IF d = e THEN l ELSE n[d].prev_sibling
               /\ m[d].next_sibling = IF d = e THEN NULL ELSE IF d = l THEN e ELSE n[d].next_sibling
               /\ m[d].first_child = n[d].first_child
               /\ m[d].last_child = IF d = p THEN e ELSE n[d].last_child
               /\ SameRecord(n[d], m[d])
    BY <1>1, <1>2, <1>3, <1>6, <2>1, <2>3 DEF SameRecord
  <2>. QED BY <1>8, <2>3, <2>4, SameFields DEF m, LinkedLast
<1>9. CASE l = NULL
  <2> DEFINE head == [linked[p] EXCEPT !.first_child = e]
  <2>1. /\ head \in NodeType /\ SameRecord(linked[p], head)
        /\ head.parent = linked[p].parent /\ head.prev_sibling = linked[p].prev_sibling
        /\ head.next_sibling = linked[p].next_sibling
        /\ head.first_child = e /\ head.last_child = linked[p].last_child
    <3>. PICK r \in NodeType : r = linked[p]
      BY <1>7
    <3>. QED BY <1>0, SetHeads
  <2>2. m = [linked EXCEPT ![p] = head]
    BY <1>5, <1>9
  <2>. HIDE DEF head
  <2>3. m \in Nodes /\ \A d \in Ends : m[d] = IF d = p THEN head ELSE linked[d]
    BY <1>1, <1>6, <2>1, <2>2 DEF Nodes
  <2>4. ASSUME NEW d \in Ends
        PROVE  /\ m[d].parent = IF d = e THEN p ELSE n[d].parent
               /\ m[d].prev_sibling = IF d = e THEN l ELSE n[d].prev_sibling
               /\ m[d].next_sibling = IF d = e THEN NULL ELSE n[d].next_sibling
               /\ m[d].first_child = IF d = p THEN e ELSE n[d].first_child
               /\ m[d].last_child = IF d = p THEN e ELSE n[d].last_child
               /\ SameRecord(n[d], m[d])
    BY <1>1, <1>2, <1>3, <1>6, <2>1, <2>3 DEF SameRecord
  <2>. QED BY <1>9, <2>3, <2>4, SameFields DEF m, LinkedLast
<1>. QED BY <1>8, <1>9

-----------------------------------------------------------------------------
\* One link of one node set in a table of nodes.
PutFirst(n, x, a) == [n EXCEPT ![x].first_child = a]
FirstIsPut(n, m, x, a) ==
  /\ m \in Nodes
  /\ \A d \in Ends :
        /\ m[d].parent = n[d].parent
        /\ m[d].first_child = IF d = x THEN a ELSE n[d].first_child
        /\ m[d].last_child = n[d].last_child
        /\ m[d].prev_sibling = n[d].prev_sibling
        /\ m[d].next_sibling = n[d].next_sibling
        /\ SameCover(n, m, d) /\ SameMarks(n, m, d)

\* Only the first_child of x changes.
LEMMA PutFirstFields ==
  ASSUME NEW n \in Nodes, NEW x \in Ends, NEW a \in Ends
  PROVE  FirstIsPut(n, PutFirst(n, x, a), x, a)
<1> DEFINE m == PutFirst(n, x, a)
           set == [n[x] EXCEPT !.first_child = a]
<1>1. n[x] \in NodeType
  BY DEF Nodes
<1>2. /\ set \in NodeType /\ SameRecord(n[x], set)
      /\ set.parent = n[x].parent
      /\ set.first_child = a
      /\ set.last_child = n[x].last_child
      /\ set.prev_sibling = n[x].prev_sibling
      /\ set.next_sibling = n[x].next_sibling
  BY <1>1, SetHeads
<1>3. m = [n EXCEPT ![x] = set]
  BY DEF PutFirst
<1>. HIDE DEF set, m
<1>4. m \in Nodes /\ \A d \in Ends : m[d] = IF d = x THEN set ELSE n[d]
  BY <1>2, <1>3 DEF Nodes
<1>5. ASSUME NEW d \in Ends
      PROVE  /\ SameRecord(n[d], m[d])
             /\ m[d].parent = n[d].parent
             /\ m[d].first_child = IF d = x THEN a ELSE n[d].first_child
             /\ m[d].last_child = n[d].last_child
             /\ m[d].prev_sibling = n[d].prev_sibling
             /\ m[d].next_sibling = n[d].next_sibling
  BY <1>2, <1>4 DEF SameRecord
<1>. QED BY <1>4, <1>5, SameFields DEF m, FirstIsPut

PutLast(n, x, a) == [n EXCEPT ![x].last_child = a]
LastIsPut(n, m, x, a) ==
  /\ m \in Nodes
  /\ \A d \in Ends :
        /\ m[d].parent = n[d].parent
        /\ m[d].first_child = n[d].first_child
        /\ m[d].last_child = IF d = x THEN a ELSE n[d].last_child
        /\ m[d].prev_sibling = n[d].prev_sibling
        /\ m[d].next_sibling = n[d].next_sibling
        /\ SameCover(n, m, d) /\ SameMarks(n, m, d)

\* Only the last_child of x changes.
LEMMA PutLastFields ==
  ASSUME NEW n \in Nodes, NEW x \in Ends, NEW a \in Ends
  PROVE  LastIsPut(n, PutLast(n, x, a), x, a)
<1> DEFINE m == PutLast(n, x, a)
           set == [n[x] EXCEPT !.last_child = a]
<1>1. n[x] \in NodeType
  BY DEF Nodes
<1>2. /\ set \in NodeType /\ SameRecord(n[x], set)
      /\ set.parent = n[x].parent
      /\ set.first_child = n[x].first_child
      /\ set.last_child = a
      /\ set.prev_sibling = n[x].prev_sibling
      /\ set.next_sibling = n[x].next_sibling
  BY <1>1, SetHeads
<1>3. m = [n EXCEPT ![x] = set]
  BY DEF PutLast
<1>. HIDE DEF set, m
<1>4. m \in Nodes /\ \A d \in Ends : m[d] = IF d = x THEN set ELSE n[d]
  BY <1>2, <1>3 DEF Nodes
<1>5. ASSUME NEW d \in Ends
      PROVE  /\ SameRecord(n[d], m[d])
             /\ m[d].parent = n[d].parent
             /\ m[d].first_child = n[d].first_child
             /\ m[d].last_child = IF d = x THEN a ELSE n[d].last_child
             /\ m[d].prev_sibling = n[d].prev_sibling
             /\ m[d].next_sibling = n[d].next_sibling
  BY <1>2, <1>4 DEF SameRecord
<1>. QED BY <1>4, <1>5, SameFields DEF m, LastIsPut

PutPrev(n, x, a) == [n EXCEPT ![x].prev_sibling = a]
PrevIsPut(n, m, x, a) ==
  /\ m \in Nodes
  /\ \A d \in Ends :
        /\ m[d].parent = n[d].parent
        /\ m[d].first_child = n[d].first_child
        /\ m[d].last_child = n[d].last_child
        /\ m[d].prev_sibling = IF d = x THEN a ELSE n[d].prev_sibling
        /\ m[d].next_sibling = n[d].next_sibling
        /\ SameCover(n, m, d) /\ SameMarks(n, m, d)

\* Only the prev_sibling of x changes.
LEMMA PutPrevFields ==
  ASSUME NEW n \in Nodes, NEW x \in Ends, NEW a \in Ends
  PROVE  PrevIsPut(n, PutPrev(n, x, a), x, a)
<1> DEFINE m == PutPrev(n, x, a)
           set == [n[x] EXCEPT !.prev_sibling = a]
<1>1. n[x] \in NodeType
  BY DEF Nodes
<1>2. /\ set \in NodeType /\ SameRecord(n[x], set)
      /\ set.parent = n[x].parent
      /\ set.first_child = n[x].first_child
      /\ set.last_child = n[x].last_child
      /\ set.prev_sibling = a
      /\ set.next_sibling = n[x].next_sibling
  BY <1>1, SetSides
<1>3. m = [n EXCEPT ![x] = set]
  BY DEF PutPrev
<1>. HIDE DEF set, m
<1>4. m \in Nodes /\ \A d \in Ends : m[d] = IF d = x THEN set ELSE n[d]
  BY <1>2, <1>3 DEF Nodes
<1>5. ASSUME NEW d \in Ends
      PROVE  /\ SameRecord(n[d], m[d])
             /\ m[d].parent = n[d].parent
             /\ m[d].first_child = n[d].first_child
             /\ m[d].last_child = n[d].last_child
             /\ m[d].prev_sibling = IF d = x THEN a ELSE n[d].prev_sibling
             /\ m[d].next_sibling = n[d].next_sibling
  BY <1>2, <1>4 DEF SameRecord
<1>. QED BY <1>4, <1>5, SameFields DEF m, PrevIsPut

PutNext(n, x, a) == [n EXCEPT ![x].next_sibling = a]
NextIsPut(n, m, x, a) ==
  /\ m \in Nodes
  /\ \A d \in Ends :
        /\ m[d].parent = n[d].parent
        /\ m[d].first_child = n[d].first_child
        /\ m[d].last_child = n[d].last_child
        /\ m[d].prev_sibling = n[d].prev_sibling
        /\ m[d].next_sibling = IF d = x THEN a ELSE n[d].next_sibling
        /\ SameCover(n, m, d) /\ SameMarks(n, m, d)

\* Only the next_sibling of x changes.
LEMMA PutNextFields ==
  ASSUME NEW n \in Nodes, NEW x \in Ends, NEW a \in Ends
  PROVE  NextIsPut(n, PutNext(n, x, a), x, a)
<1> DEFINE m == PutNext(n, x, a)
           set == [n[x] EXCEPT !.next_sibling = a]
<1>1. n[x] \in NodeType
  BY DEF Nodes
<1>2. /\ set \in NodeType /\ SameRecord(n[x], set)
      /\ set.parent = n[x].parent
      /\ set.first_child = n[x].first_child
      /\ set.last_child = n[x].last_child
      /\ set.prev_sibling = n[x].prev_sibling
      /\ set.next_sibling = a
  BY <1>1, SetSides
<1>3. m = [n EXCEPT ![x] = set]
  BY DEF PutNext
<1>. HIDE DEF set, m
<1>4. m \in Nodes /\ \A d \in Ends : m[d] = IF d = x THEN set ELSE n[d]
  BY <1>2, <1>3 DEF Nodes
<1>5. ASSUME NEW d \in Ends
      PROVE  /\ SameRecord(n[d], m[d])
             /\ m[d].parent = n[d].parent
             /\ m[d].first_child = n[d].first_child
             /\ m[d].last_child = n[d].last_child
             /\ m[d].prev_sibling = n[d].prev_sibling
             /\ m[d].next_sibling = IF d = x THEN a ELSE n[d].next_sibling
  BY <1>2, <1>4 DEF SameRecord
<1>. QED BY <1>4, <1>5, SameFields DEF m, NextIsPut

-----------------------------------------------------------------------------
Unlinked(n, m, e) ==
  LET p == n[e].parent  prev == n[e].prev_sibling  next == n[e].next_sibling
  IN  /\ m \in Nodes
      /\ \A d \in Ends :
           /\ m[d].parent = IF d = e THEN NULL ELSE n[d].parent
           /\ m[d].prev_sibling =
                IF d = e THEN NULL ELSE IF next # NULL /\ d = next THEN prev ELSE n[d].prev_sibling
           /\ m[d].next_sibling =
                IF d = e THEN NULL ELSE IF prev # NULL /\ d = prev THEN next ELSE n[d].next_sibling
           /\ m[d].first_child = IF prev = NULL /\ d = p THEN next ELSE n[d].first_child
           /\ m[d].last_child = IF next = NULL /\ d = p THEN prev ELSE n[d].last_child
           /\ SameCover(n, m, d) /\ SameMarks(n, m, d)

\* What taking a node out of its list does to every field of every node.
LEMMA UnlinkFields ==
  ASSUME NEW n \in Nodes, NEW e \in Entity,
         n[e].parent # e, n[e].prev_sibling # e, n[e].next_sibling # e,
         n[e].prev_sibling # NULL => n[e].prev_sibling # n[e].next_sibling
  PROVE  Unlinked(n, unlink(n, e), e)
<1> DEFINE p == n[e].parent
           prev == n[e].prev_sibling
           next == n[e].next_sibling
           forward == IF prev # NULL THEN PutNext(n, prev, next) ELSE PutFirst(n, p, next)
           back == IF next # NULL THEN PutPrev(forward, next, prev) ELSE PutLast(forward, p, prev)
           m == unlink(n, e)
<1>0. NULL \notin Entity /\ e \in Ends /\ NULL \in Ends
  BY HierarchyAssumption DEF Ends
<1>1. p \in Ends /\ prev \in Ends /\ next \in Ends
  <2>1. n[e] \in NodeType
    BY <1>0 DEF Nodes
  <2>. QED BY <2>1 DEF NodeType
<1>2. m = [back EXCEPT ![e].parent = NULL, ![e].prev_sibling = NULL, ![e].next_sibling = NULL]
  BY DEF unlink, PutNext, PutFirst, PutPrev, PutLast
<1>. HIDE DEF m, back
<1>3. /\ forward \in Nodes
      /\ \A d \in Ends :
           /\ forward[d].parent = n[d].parent /\ forward[d].prev_sibling = n[d].prev_sibling
           /\ forward[d].next_sibling = IF prev # NULL /\ d = prev THEN next ELSE n[d].next_sibling
           /\ forward[d].first_child = IF prev = NULL /\ d = p THEN next ELSE n[d].first_child
           /\ forward[d].last_child = n[d].last_child
           /\ SameCover(n, forward, d) /\ SameMarks(n, forward, d)
  <2>1. CASE prev # NULL
    <3>1. forward = PutNext(n, prev, next)
      BY <2>1
    <3>. HIDE DEF forward, prev, next, p
    <3>2. NextIsPut(n, forward, prev, next)
      BY <1>1, <3>1, PutNextFields
    <3>. QED BY <2>1, <3>2 DEF NextIsPut
  <2>2. CASE prev = NULL
    <3>1. forward = PutFirst(n, p, next)
      BY <2>2
    <3>. HIDE DEF forward, prev, next, p
    <3>2. FirstIsPut(n, forward, p, next)
      BY <1>1, <3>1, PutFirstFields
    <3>. QED BY <2>2, <3>2 DEF FirstIsPut
  <2>. QED BY <2>1, <2>2
<1>. HIDE DEF forward
<1>4. /\ back \in Nodes
      /\ \A d \in Ends :
           /\ back[d].parent = n[d].parent
           /\ back[d].prev_sibling = IF next # NULL /\ d = next THEN prev ELSE n[d].prev_sibling
           /\ back[d].next_sibling = IF prev # NULL /\ d = prev THEN next ELSE n[d].next_sibling
           /\ back[d].first_child = IF prev = NULL /\ d = p THEN next ELSE n[d].first_child
           /\ back[d].last_child = IF next = NULL /\ d = p THEN prev ELSE n[d].last_child
           /\ SameCover(n, back, d) /\ SameMarks(n, back, d)
  <2>1. CASE next # NULL
    <3>1. back = PutPrev(forward, next, prev)
      BY <2>1 DEF back
    <3>. HIDE DEF prev, next, p
    <3>2. PrevIsPut(forward, back, next, prev)
      BY <1>1, <1>3, <3>1, PutPrevFields
    <3>. QED BY <1>3, <2>1, <3>2 DEF PrevIsPut, SameCover, SameMarks
  <2>2. CASE next = NULL
    <3>1. back = PutLast(forward, p, prev)
      BY <2>2 DEF back
    <3>. HIDE DEF prev, next, p
    <3>2. LastIsPut(forward, back, p, prev)
      BY <1>1, <1>3, <3>1, PutLastFields
    <3>. QED BY <1>3, <2>2, <3>2 DEF LastIsPut, SameCover, SameMarks
  <2>. QED BY <2>1, <2>2
<1>5. PICK r \in NodeType : r = back[e]
  BY <1>0, <1>4 DEF Nodes
<1> DEFINE out == Placed(r, NULL, NULL, NULL)
<1>6. /\ out \in NodeType /\ SameRecord(r, out)
      /\ out.parent = NULL /\ out.prev_sibling = NULL /\ out.next_sibling = NULL
      /\ out.first_child = r.first_child /\ out.last_child = r.last_child
  BY <1>0 DEF Placed, NodeType, SameRecord
<1>7. m = [back EXCEPT ![e] = out]
  BY <1>0, <1>2, <1>4, <1>5 DEF Placed, Nodes
<1>. HIDE DEF out
<1>8. m \in Nodes /\ \A d \in Ends : m[d] = IF d = e THEN out ELSE back[d]
  BY <1>0, <1>4, <1>6, <1>7 DEF Nodes
<1>. HIDE DEF prev, next, p
<1>9. ASSUME NEW d \in Ends
      PROVE  /\ m[d].parent = IF d = e THEN NULL ELSE n[d].parent
             /\ m[d].prev_sibling =
                  IF d = e THEN NULL ELSE IF next # NULL /\ d = next THEN prev ELSE n[d].prev_sibling
             /\ m[d].next_sibling =
                  IF d = e THEN NULL ELSE IF prev # NULL /\ d = prev THEN next ELSE n[d].next_sibling
             /\ m[d].first_child = IF prev = NULL /\ d = p THEN next ELSE n[d].first_child
             /\ m[d].last_child = IF next = NULL /\ d = p THEN prev ELSE n[d].last_child
             /\ SameRecord(n[d], m[d])
  <2>1. SameRecord(n[d], back[d])
    BY <1>4, SameFields
  <2>. QED BY <1>4, <1>5, <1>6, <1>8, <2>1 DEF SameRecord
<1>. QED BY <1>8, <1>9, SameFields DEF m, prev, next, p, Unlinked

-----------------------------------------------------------------------------
\* No node is its own parent or sibling, and its two sides differ.
LEMMA TreeApart ==
  ASSUME NEW n, NEW A, NEW f, Tree(n, A, f), NEW e \in A
  PROVE  /\ n[e].parent # e /\ n[e].prev_sibling # e /\ n[e].next_sibling # e
         /\ n[e].prev_sibling # NULL => n[e].prev_sibling # n[e].next_sibling
<1>0. NULL \notin A /\ A \subseteq Entity
  BY HierarchyAssumption DEF Tree, Inside
<1>1. n[e].parent # e
  <2>. SUFFICES ASSUME n[e].parent = e PROVE FALSE
    OBVIOUS
  <2>1. {e} \in SUBSET A /\ \A d \in {e} : n[d].parent \in {e}
    OBVIOUS
  <2>2. UpEnds(n, A)
    BY DEF Tree
  <2>. QED BY <2>1, <2>2 DEF UpEnds
<1>2. n[e].prev_sibling # e
  <2>. SUFFICES ASSUME n[e].prev_sibling = e PROVE FALSE
    OBVIOUS
  <2>1. {e} \in SUBSET A /\ \A d \in {e} : n[d].prev_sibling \in {e}
    OBVIOUS
  <2>2. BackEnds(n, A)
    BY DEF Tree
  <2>. QED BY <2>1, <2>2 DEF BackEnds
<1>3. n[e].next_sibling # e
  <2>. SUFFICES ASSUME n[e].next_sibling = e PROVE FALSE
    OBVIOUS
  <2>1. {e} \in SUBSET A /\ \A d \in {e} : n[d].next_sibling \in {e}
    OBVIOUS
  <2>2. OnEnds(n, A)
    BY DEF Tree
  <2>. QED BY <2>1, <2>2 DEF OnEnds
<1>4. ASSUME n[e].prev_sibling # NULL, n[e].prev_sibling = n[e].next_sibling PROVE FALSE
  <2> DEFINE x == n[e].next_sibling
  <2>1. e # f
    BY <1>4 DEF Tree, Afloat
  <2>2. x \in A
    <3>1. e \in Ends
      BY <1>0 DEF Ends
    <3>. QED BY <1>4, <3>1 DEF Tree, Inside
  <2>3. n[x].next_sibling = e
    BY <1>4, <2>1 DEF Tree, Listed
  <2>4. {e, x} \in SUBSET A /\ \A d \in {e, x} : n[d].next_sibling \in {e, x}
    BY <2>2, <2>3
  <2>. HIDE DEF x
  <2>5. OnEnds(n, A)
    BY DEF Tree
  <2>. QED BY <2>4, <2>5 DEF OnEnds
<1>. QED BY <1>1, <1>2, <1>3, <1>4

\* Taking a node out of its list leaves a tree in which it floats.
LEMMA UnlinkTree ==
  ASSUME NEW n, NEW A, Tree(n, A, NULL), NEW e \in A
  PROVE  Unlinked(n, unlink(n, e), e) /\ Tree(unlink(n, e), A, e)
<1> DEFINE m == unlink(n, e)
           p == n[e].parent
           prev == n[e].prev_sibling
           next == n[e].next_sibling
<1>0. NULL \notin A /\ A \subseteq Entity /\ e \in Entity /\ e \in Ends /\ NULL \in Ends /\ A \subseteq Ends
  BY HierarchyAssumption DEF Tree, Inside, Ends
<1>1. /\ p # e /\ prev # e /\ next # e
      /\ prev # NULL => prev # next
  BY TreeApart
<1>2. Unlinked(n, m, e)
  BY <1>0, <1>1, UnlinkFields DEF Tree
<1>. HIDE DEF m
<1>3. n \in Nodes /\ Inside(n, A) /\ Listed(n, A, NULL) /\ Headed(n, NULL) /\ UpEnds(n, A) /\ BackEnds(n, A) /\ OnEnds(n, A)
  BY DEF Tree
<1>4. p \in A \cup {NULL} /\ prev \in A \cup {NULL} /\ next \in A \cup {NULL}
  BY <1>0, <1>3 DEF Inside
<1>5. /\ next = NULL => n[p].last_child = e
      /\ next # NULL => n[next].prev_sibling = e /\ n[next].parent = p
      /\ prev = NULL => n[p].first_child = e
      /\ prev # NULL => n[prev].next_sibling = e /\ n[prev].parent = p
  BY <1>0, <1>3 DEF Listed
<1>6. m \in Nodes
  BY <1>2 DEF Unlinked
<1>7. \A d \in Ends :
        /\ m[d].parent = IF d = e THEN NULL ELSE n[d].parent
        /\ m[d].prev_sibling = IF d = e THEN NULL ELSE IF next # NULL /\ d = next THEN prev ELSE n[d].prev_sibling
        /\ m[d].next_sibling = IF d = e THEN NULL ELSE IF prev # NULL /\ d = prev THEN next ELSE n[d].next_sibling
        /\ m[d].first_child = IF prev = NULL /\ d = p THEN next ELSE n[d].first_child
        /\ m[d].last_child = IF next = NULL /\ d = p THEN prev ELSE n[d].last_child
  BY <1>2 DEF Unlinked
<1>. HIDE DEF p, prev, next
<1>8. Inside(m, A)
  <2>1. \A d \in Ends : /\ n[d].parent \in A \cup {NULL}
                       /\ n[d].first_child \in A \cup {NULL} /\ n[d].last_child \in A \cup {NULL}
                       /\ n[d].prev_sibling \in A \cup {NULL} /\ n[d].next_sibling \in A \cup {NULL}
    BY <1>3 DEF Inside
  <2>2. \A d \in Ends : /\ m[d].parent \in A \cup {NULL}
                       /\ m[d].first_child \in A \cup {NULL} /\ m[d].last_child \in A \cup {NULL}
                       /\ m[d].prev_sibling \in A \cup {NULL} /\ m[d].next_sibling \in A \cup {NULL}
    BY <1>4, <1>7, <2>1
  <2>3. ASSUME NEW d \in Ends, d \notin A
        PROVE  m[d].parent = NULL /\ m[d].prev_sibling = NULL /\ m[d].next_sibling = NULL
    <3>1. n[d].parent = NULL /\ n[d].prev_sibling = NULL /\ n[d].next_sibling = NULL
      BY <1>3, <2>3 DEF Inside
    <3>2. d # e /\ (next # NULL => d # next) /\ (prev # NULL => d # prev)
      BY <1>4, <2>3
    <3>. QED BY <1>7, <3>1, <3>2
  <2>4. ASSUME NEW d \in Entity, d \notin A
        PROVE  m[d].first_child = NULL /\ m[d].last_child = NULL
    <3>1. n[d].first_child = NULL /\ n[d].last_child = NULL
      BY <1>3, <2>4 DEF Inside
    <3>2. d # p /\ d \in Ends
      BY <1>0, <1>4, <2>4, HierarchyAssumption DEF Ends
    <3>. QED BY <1>7, <3>1, <3>2
  <2>. QED BY <1>0, <2>2, <2>3, <2>4 DEF Inside
<1>9. Afloat(m, e)
  BY <1>0, <1>7 DEF Afloat
<1>10. Listed(m, A, e)
  <2>. SUFFICES ASSUME NEW x \in A, x # e
                PROVE  /\ m[x].next_sibling = NULL => m[m[x].parent].last_child = x
                       /\ m[x].next_sibling # NULL =>
                            /\ m[x].next_sibling # e /\ m[m[x].next_sibling].prev_sibling = x
                            /\ m[m[x].next_sibling].parent = m[x].parent
                       /\ m[x].prev_sibling = NULL => m[m[x].parent].first_child = x
                       /\ m[x].prev_sibling # NULL =>
                            /\ m[x].prev_sibling # e /\ m[m[x].prev_sibling].next_sibling = x
                            /\ m[m[x].prev_sibling].parent = m[x].parent
    BY DEF Listed
  <2> DEFINE q == n[x].parent  l == n[x].prev_sibling  r == n[x].next_sibling
  <2>1. q \in Ends /\ l \in A \cup {NULL} /\ r \in A \cup {NULL} /\ x \in Ends
    BY <1>0, <1>3 DEF Inside
  <2>2. /\ r = NULL => n[q].last_child = x
        /\ r # NULL => n[r].prev_sibling = x /\ n[r].parent = q
        /\ l = NULL => n[q].first_child = x
        /\ l # NULL => n[l].next_sibling = x /\ n[l].parent = q
    BY <1>0, <1>3 DEF Listed
  <2>3. /\ (x = next <=> l = e) /\ (x = prev <=> r = e)
    <3>1. n[e].prev_sibling = prev /\ n[e].next_sibling = next
      BY DEF prev, next
    <3>. QED BY <1>0, <1>5, <2>2, <3>1
  <2>4. m[x].parent = q
    BY <1>7, <2>1
  <2>. HIDE DEF q, l, r
  <2>5. /\ m[x].next_sibling = NULL => m[q].last_child = x
        /\ m[x].next_sibling # NULL =>
             /\ m[x].next_sibling # e /\ m[m[x].next_sibling].prev_sibling = x
             /\ m[m[x].next_sibling].parent = q
    <3>1. CASE x = prev
      <4>1. m[x].next_sibling = next /\ r = e /\ x # next /\ q = p
        BY <1>0, <1>1, <1>5, <1>7, <2>1, <2>3, <3>1 DEF q
      <4>2. next = NULL => m[q].last_child = x
        BY <1>0, <1>4, <1>7, <2>1, <3>1, <4>1
      <4>3. next # NULL => next # e /\ m[next].prev_sibling = x /\ m[next].parent = q
        BY <1>0, <1>1, <1>4, <1>5, <1>7, <3>1, <4>1
      <4>. QED BY <4>1, <4>2, <4>3
    <3>2. CASE x # prev
      <4>1. m[x].next_sibling = r /\ r # e
        BY <1>7, <2>1, <2>3, <3>2 DEF r
      <4>2. r = NULL => m[q].last_child = x
        <5>1. r = NULL => ~(next = NULL /\ q = p)
          BY <1>5, <2>2
        <5>. QED BY <1>7, <2>1, <2>2, <5>1
      <4>3. r # NULL => m[r].prev_sibling = x /\ m[r].parent = q
        <5>1. r # NULL => r # next \/ next = NULL
          BY <1>5, <2>2
        <5>. QED BY <1>0, <1>7, <2>1, <2>2, <4>1, <5>1
      <4>. QED BY <4>1, <4>2, <4>3
    <3>. QED BY <3>1, <3>2
  <2>6. /\ m[x].prev_sibling = NULL => m[q].first_child = x
        /\ m[x].prev_sibling # NULL =>
             /\ m[x].prev_sibling # e /\ m[m[x].prev_sibling].next_sibling = x
             /\ m[m[x].prev_sibling].parent = q
    <3>1. CASE x = next
      <4>1. m[x].prev_sibling = prev /\ l = e /\ x # prev /\ q = p
        BY <1>0, <1>1, <1>5, <1>7, <2>1, <2>3, <3>1, HierarchyAssumption DEF q
      <4>2. prev = NULL => m[q].first_child = x
        BY <1>0, <1>4, <1>7, <2>1, <3>1, <4>1
      <4>3. prev # NULL => prev # e /\ m[prev].next_sibling = x /\ m[prev].parent = q
        BY <1>0, <1>1, <1>4, <1>5, <1>7, <3>1, <4>1
      <4>. QED BY <4>1, <4>2, <4>3
    <3>2. CASE x # next
      <4>1. m[x].prev_sibling = l /\ l # e
        BY <1>7, <2>1, <2>3, <3>2 DEF l
      <4>2. l = NULL => m[q].first_child = x
        <5>1. l = NULL => ~(prev = NULL /\ q = p)
          BY <1>5, <2>2
        <5>. QED BY <1>7, <2>1, <2>2, <5>1
      <4>3. l # NULL => m[l].next_sibling = x /\ m[l].parent = q
        <5>1. l # NULL => l # prev \/ prev = NULL
          BY <1>5, <2>2
        <5>. QED BY <1>0, <1>7, <2>1, <2>2, <4>1, <5>1
      <4>. QED BY <4>1, <4>2, <4>3
    <3>. QED BY <3>1, <3>2
  <2>. QED BY <2>4, <2>5, <2>6
<1>11. Headed(m, e)
  <2>. SUFFICES ASSUME NEW q \in Ends
                PROVE  /\ (m[q].first_child = NULL) <=> (m[q].last_child = NULL)
                       /\ m[q].first_child # NULL =>
                            /\ m[q].first_child # e /\ m[m[q].first_child].parent = q
                            /\ m[m[q].first_child].prev_sibling = NULL
                       /\ m[q].last_child # NULL =>
                            /\ m[q].last_child # e /\ m[m[q].last_child].parent = q
                            /\ m[m[q].last_child].next_sibling = NULL
    BY DEF Headed
  <2> DEFINE c == n[q].first_child  z == n[q].last_child
  <2>1. /\ c \in A \cup {NULL} /\ z \in A \cup {NULL}
        /\ (c = NULL) <=> (z = NULL)
        /\ c # NULL => n[c].parent = q /\ n[c].prev_sibling = NULL
        /\ z # NULL => n[z].parent = q /\ n[z].next_sibling = NULL
    BY <1>3 DEF Inside, Headed
  <2>2. /\ m[q].first_child = IF prev = NULL /\ q = p THEN next ELSE c
        /\ m[q].last_child = IF next = NULL /\ q = p THEN prev ELSE z
    BY <1>7
  <2>3. n[e].parent = p /\ n[e].prev_sibling = prev /\ n[e].next_sibling = next
    BY DEF p, prev, next
  <2>4. q = p => c # NULL /\ z # NULL
    <3>1. prev = NULL => n[p].first_child # NULL
      BY <1>0, <1>5
    <3>2. next = NULL => n[p].last_child # NULL
      BY <1>0, <1>5
    <3>3. ASSUME q = p, c = NULL PROVE FALSE
      \* The siblings of e would run back forever.
      <4> DEFINE S == {x \in A : n[x].parent = p}
      <4>1. ASSUME NEW x \in S PROVE n[x].prev_sibling \in S
        <5>1. n[x].prev_sibling # NULL
          BY <1>0, <1>3, <3>3 DEF Listed
        <5>2. n[n[x].prev_sibling].parent = p
          BY <1>0, <1>3, <5>1 DEF Listed
        <5>3. n[x].prev_sibling \in A
          BY <1>0, <1>3, <5>1 DEF Inside
        <5>. QED BY <5>2, <5>3
      <4>2. S \in SUBSET A /\ e \in S
        BY <2>3
      <4>. HIDE DEF S
      <4>. QED BY <1>3, <4>1, <4>2 DEF BackEnds
    <3>. QED BY <2>1, <3>3
  <2>. HIDE DEF c, z
  <2>5. (m[q].first_child = NULL) <=> (m[q].last_child = NULL)
    BY <2>1, <2>2, <2>4
  <2>6. m[q].first_child # NULL =>
          /\ m[q].first_child # e /\ m[m[q].first_child].parent = q
          /\ m[m[q].first_child].prev_sibling = NULL
    <3>1. CASE prev = NULL /\ q = p
      BY <1>0, <1>1, <1>4, <1>5, <1>7, <2>2, <3>1
    <3>2. CASE ~(prev = NULL /\ q = p)
      <4>1. m[q].first_child = c
        BY <2>2, <3>2
      <4>2. c # e
        BY <1>0, <2>1, <2>3, <3>2
      <4>3. c # NULL => ~(next # NULL /\ c = next)
        BY <1>0, <1>5, <2>1
      <4>. QED BY <1>0, <1>7, <2>1, <4>1, <4>2, <4>3
    <3>. QED BY <3>1, <3>2
  <2>7. m[q].last_child # NULL =>
          /\ m[q].last_child # e /\ m[m[q].last_child].parent = q
          /\ m[m[q].last_child].next_sibling = NULL
    <3>1. CASE next = NULL /\ q = p
      BY <1>0, <1>1, <1>4, <1>5, <1>7, <2>2, <3>1
    <3>2. CASE ~(next = NULL /\ q = p)
      <4>1. m[q].last_child = z
        BY <2>2, <3>2
      <4>2. z # e
        BY <1>0, <2>1, <2>3, <3>2
      <4>3. z # NULL => ~(prev # NULL /\ z = prev)
        BY <1>0, <1>5, <2>1
      <4>. QED BY <1>0, <1>7, <2>1, <4>1, <4>2, <4>3
    <3>. QED BY <3>1, <3>2
  <2>. QED BY <2>5, <2>6, <2>7
<1>12. UpEnds(m, A)
  <2>. SUFFICES ASSUME NEW S \in SUBSET A, \A x \in S : m[x].parent \in S
                PROVE  S = {}
    BY DEF UpEnds
  <2>1. e \notin S
    BY <1>0, <1>7
  <2>2. \A x \in S : n[x].parent \in S
    BY <1>0, <1>7, <2>1
  <2>. QED BY <1>3, <2>2 DEF UpEnds
<1>13. BackEnds(m, A)
  <2>. SUFFICES ASSUME NEW S \in SUBSET A, \A x \in S : m[x].prev_sibling \in S
                PROVE  S = {}
    BY DEF BackEnds
  <2> DEFINE T == IF next \in S THEN S \cup {e} ELSE S
  <2>1. e \notin S
    BY <1>0, <1>7
  <2>2. \A x \in S : x # next => n[x].prev_sibling \in S
    BY <1>0, <1>7, <2>1
  <2>3. next \in S => n[next].prev_sibling = e /\ n[e].prev_sibling \in S
    BY <1>0, <1>1, <1>5, <1>7 DEF prev
  <2>4. T \in SUBSET A /\ \A x \in T : n[x].prev_sibling \in T
    BY <2>2, <2>3
  <2>5. T = {}
    BY <1>3, <2>4 DEF BackEnds
  <2>. QED BY <2>5
<1>14. OnEnds(m, A)
  <2>. SUFFICES ASSUME NEW S \in SUBSET A, \A x \in S : m[x].next_sibling \in S
                PROVE  S = {}
    BY DEF OnEnds
  <2> DEFINE T == IF prev \in S THEN S \cup {e} ELSE S
  <2>1. e \notin S
    BY <1>0, <1>7
  <2>2. \A x \in S : x # prev => n[x].next_sibling \in S
    BY <1>0, <1>7, <2>1
  <2>3. prev \in S => n[prev].next_sibling = e /\ n[e].next_sibling \in S
    BY <1>0, <1>1, <1>5, <1>7 DEF next
  <2>4. T \in SUBSET A /\ \A x \in T : n[x].next_sibling \in T
    BY <2>2, <2>3
  <2>5. T = {}
    BY <1>3, <2>4 DEF OnEnds
  <2>. QED BY <2>5
<1>. QED BY <1>0, <1>2, <1>6, <1>8, <1>9, <1>10, <1>11, <1>12, <1>13, <1>14 DEF Tree, m

\* Putting a floating node last into a list that is not below it gives a tree.
LEMMA LinkTree ==
  ASSUME NEW n, NEW A, NEW e \in A, Tree(n, A, e), NEW p \in A \cup {NULL},
         NEW T \in SUBSET A, p \in T \cup {NULL}, e \notin T,
         \A x \in T : n[x].parent \in T \cup {NULL}
  PROVE  LinkedLast(n, link_last(n, e, p), e, p) /\ Tree(link_last(n, e, p), A, NULL)
<1> DEFINE m == link_last(n, e, p)
           l == n[p].last_child
<1>0. /\ NULL \notin A /\ A \subseteq Entity /\ e \in Entity /\ e \in Ends /\ NULL \in Ends /\ A \subseteq Ends
      /\ p \in Ends /\ e # p
  BY HierarchyAssumption DEF Tree, Inside, Ends
<1>1. n \in Nodes /\ Inside(n, A) /\ Listed(n, A, e) /\ Headed(n, e) /\ UpEnds(n, A) /\ BackEnds(n, A) /\ OnEnds(n, A)
  BY DEF Tree
<1>2. l \in A \cup {NULL} /\ l # e
  BY <1>0, <1>1 DEF Inside, Headed
<1>3. LinkedLast(n, m, e, p)
  BY <1>0, <1>1, <1>2, LinkFields
<1>. HIDE DEF m
<1>4. n[e].parent = NULL /\ n[e].prev_sibling = NULL /\ n[e].next_sibling = NULL
  BY DEF Tree, Afloat
<1>5. /\ l # NULL => n[l].parent = p /\ n[l].next_sibling = NULL
      /\ (n[p].first_child = NULL) <=> (l = NULL)
  BY <1>0, <1>1 DEF Headed
<1>6. m \in Nodes
  BY <1>3 DEF LinkedLast
<1>7. \A d \in Ends :
        /\ m[d].parent = IF d = e THEN p ELSE n[d].parent
        /\ m[d].prev_sibling = IF d = e THEN l ELSE n[d].prev_sibling
        /\ m[d].next_sibling = IF d = e THEN NULL ELSE IF l # NULL /\ d = l THEN e ELSE n[d].next_sibling
        /\ m[d].first_child = IF l = NULL /\ d = p THEN e ELSE n[d].first_child
        /\ m[d].last_child = IF d = p THEN e ELSE n[d].last_child
  BY <1>3 DEF LinkedLast
<1>. HIDE DEF l
<1>8. Inside(m, A)
  <2>1. \A d \in Ends : /\ n[d].parent \in A \cup {NULL}
                       /\ n[d].first_child \in A \cup {NULL} /\ n[d].last_child \in A \cup {NULL}
                       /\ n[d].prev_sibling \in A \cup {NULL} /\ n[d].next_sibling \in A \cup {NULL}
    BY <1>1 DEF Inside
  <2>2. \A d \in Ends : /\ m[d].parent \in A \cup {NULL}
                       /\ m[d].first_child \in A \cup {NULL} /\ m[d].last_child \in A \cup {NULL}
                       /\ m[d].prev_sibling \in A \cup {NULL} /\ m[d].next_sibling \in A \cup {NULL}
    BY <1>2, <1>7, <2>1
  <2>3. ASSUME NEW d \in Ends, d \notin A
        PROVE  m[d].parent = NULL /\ m[d].prev_sibling = NULL /\ m[d].next_sibling = NULL
    <3>1. n[d].parent = NULL /\ n[d].prev_sibling = NULL /\ n[d].next_sibling = NULL
      BY <1>1, <2>3 DEF Inside
    <3>2. d # e /\ (l # NULL => d # l)
      BY <1>2, <2>3
    <3>. QED BY <1>7, <3>1, <3>2
  <2>4. ASSUME NEW d \in Entity, d \notin A
        PROVE  m[d].first_child = NULL /\ m[d].last_child = NULL
    <3>1. n[d].first_child = NULL /\ n[d].last_child = NULL
      BY <1>1, <2>4 DEF Inside
    <3>2. d # p /\ d \in Ends
      BY <1>0, <2>4, HierarchyAssumption DEF Ends
    <3>. QED BY <1>7, <3>1, <3>2
  <2>. QED BY <1>0, <2>2, <2>3, <2>4 DEF Inside
<1>9. Afloat(m, NULL)
  <2>1. n[NULL].parent = NULL /\ n[NULL].prev_sibling = NULL /\ n[NULL].next_sibling = NULL
    BY <1>0, <1>1 DEF Inside
  <2>2. NULL # e
    BY <1>0
  <2>. QED BY <1>0, <1>7, <2>1, <2>2 DEF Afloat
<1>10. Listed(m, A, NULL)
  <2>. SUFFICES ASSUME NEW x \in A
                PROVE  /\ m[x].next_sibling = NULL => m[m[x].parent].last_child = x
                       /\ m[x].next_sibling # NULL =>
                            /\ m[m[x].next_sibling].prev_sibling = x
                            /\ m[m[x].next_sibling].parent = m[x].parent
                       /\ m[x].prev_sibling = NULL => m[m[x].parent].first_child = x
                       /\ m[x].prev_sibling # NULL =>
                            /\ m[m[x].prev_sibling].next_sibling = x
                            /\ m[m[x].prev_sibling].parent = m[x].parent
    BY DEF Listed
  <2>1. CASE x = e
    BY <1>0, <1>2, <1>5, <1>7, <2>1
  <2>2. CASE x # e
    <3> DEFINE q == n[x].parent  k == n[x].prev_sibling  r == n[x].next_sibling
    <3>1. q \in Ends /\ k \in A \cup {NULL} /\ r \in A \cup {NULL} /\ x \in Ends
      BY <1>0, <1>1 DEF Inside
    <3>2. /\ r = NULL => n[q].last_child = x
          /\ r # NULL => r # e /\ n[r].prev_sibling = x /\ n[r].parent = q
          /\ k = NULL => n[q].first_child = x
          /\ k # NULL => k # e /\ n[k].next_sibling = x /\ n[k].parent = q
      BY <1>0, <1>1, <2>2 DEF Listed
    <3>3. x = l <=> r = NULL /\ q = p
      <4>1. x = l => r = NULL /\ q = p
        BY <1>0, <1>5
      <4>. QED BY <3>2, <4>1 DEF l
    <3>4. m[x].parent = q /\ m[x].prev_sibling = k
      BY <1>7, <2>2, <3>1
    <3>5. m[x].next_sibling = IF x = l THEN e ELSE r
      BY <1>0, <1>7, <2>2, <3>1
    <3>. HIDE DEF q, k, r
    <3>6. /\ m[x].next_sibling = NULL => m[q].last_child = x
          /\ m[x].next_sibling # NULL =>
               m[m[x].next_sibling].prev_sibling = x /\ m[m[x].next_sibling].parent = q
      BY <1>0, <1>7, <3>1, <3>2, <3>3, <3>5
    <3>7. k = NULL => m[q].first_child = x
      BY <1>0, <1>5, <1>7, <3>1, <3>2
    <3>8. k # NULL => m[k].next_sibling = x /\ m[k].parent = q
      <4>1. k # NULL => k # l
        BY <1>0, <1>5, <3>2
      <4>. QED BY <1>0, <1>7, <3>1, <3>2, <4>1
    <3>. QED BY <3>4, <3>6, <3>7, <3>8
  <2>. QED BY <2>1, <2>2
<1>11. Headed(m, NULL)
  <2>. SUFFICES ASSUME NEW q \in Ends
                PROVE  /\ (m[q].first_child = NULL) <=> (m[q].last_child = NULL)
                       /\ m[q].first_child # NULL =>
                            m[m[q].first_child].parent = q /\ m[m[q].first_child].prev_sibling = NULL
                       /\ m[q].last_child # NULL =>
                            m[m[q].last_child].parent = q /\ m[m[q].last_child].next_sibling = NULL
    BY DEF Headed
  <2> DEFINE c == n[q].first_child  z == n[q].last_child
  <2>1. /\ c \in A \cup {NULL} /\ z \in A \cup {NULL}
        /\ (c = NULL) <=> (z = NULL)
        /\ c # NULL => c # e /\ n[c].parent = q /\ n[c].prev_sibling = NULL
        /\ z # NULL => z # e /\ n[z].parent = q /\ n[z].next_sibling = NULL
    BY <1>1 DEF Inside, Headed
  <2>2. /\ m[q].first_child = IF l = NULL /\ q = p THEN e ELSE c
        /\ m[q].last_child = IF q = p THEN e ELSE z
    BY <1>7
  <2>3. q = p => z = l
    BY DEF l
  <2>. HIDE DEF c, z
  <2>4. (m[q].first_child = NULL) <=> (m[q].last_child = NULL)
    BY <1>0, <2>1, <2>2, <2>3
  <2>5. m[q].first_child # NULL =>
          m[m[q].first_child].parent = q /\ m[m[q].first_child].prev_sibling = NULL
    BY <1>0, <1>7, <2>1, <2>2
  <2>6. m[q].last_child # NULL =>
          m[m[q].last_child].parent = q /\ m[m[q].last_child].next_sibling = NULL
    <3>1. CASE q = p
      BY <1>0, <1>7, <2>2, <3>1
    <3>2. CASE q # p
      <4>1. z # NULL => z # l
        BY <1>0, <1>5, <2>1, <3>2
      <4>. QED BY <1>0, <1>7, <2>1, <2>2, <3>2, <4>1
    <3>. QED BY <3>1, <3>2
  <2>. QED BY <2>4, <2>5, <2>6
<1>12. UpEnds(m, A)
  \* A loop through e would go through p, whose ancestors it would hold too.
  <2>. SUFFICES ASSUME NEW S \in SUBSET A, \A x \in S : m[x].parent \in S
                PROVE  S = {}
    BY DEF UpEnds
  <2>1. \A x \in S : x # e => n[x].parent \in S
    BY <1>0, <1>7
  <2>2. ASSUME e \in S PROVE FALSE
    <3>1. p \in S
      BY <1>0, <1>7, <2>2
    <3>2. p \in S \cap T
      BY <1>0, <3>1
    <3>3. \A x \in S \cap T : n[x].parent \in S \cap T
      BY <1>0, <2>1
    <3>4. S \cap T \in SUBSET A
      OBVIOUS
    <3>5. S \cap T = {}
      BY <1>1, <3>3, <3>4 DEF UpEnds
    <3>. QED BY <3>2, <3>5
  <2>. QED BY <1>1, <2>1, <2>2 DEF UpEnds
<1>13. BackEnds(m, A)
  <2>. SUFFICES ASSUME NEW S \in SUBSET A, \A x \in S : m[x].prev_sibling \in S
                PROVE  S = {}
    BY DEF BackEnds
  <2> DEFINE Q == S \ {e}
  <2>1. \A x \in Q : n[x].prev_sibling \in S
    BY <1>0, <1>7
  <2>2. \A x \in Q : n[x].prev_sibling # e
    BY <1>0, <1>1 DEF Listed
  <2>3. Q \in SUBSET A /\ \A x \in Q : n[x].prev_sibling \in Q
    BY <2>1, <2>2
  <2>4. Q = {}
    BY <1>1, <2>3 DEF BackEnds
  <2>5. e \in S => l \in S
    BY <1>0, <1>7
  <2>. QED BY <1>2, <2>4, <2>5
<1>14. OnEnds(m, A)
  <2>. SUFFICES ASSUME NEW S \in SUBSET A, \A x \in S : m[x].next_sibling \in S
                PROVE  S = {}
    BY DEF OnEnds
  <2>1. e \notin S
    BY <1>0, <1>7
  <2>2. l \notin S
    BY <1>0, <1>2, <1>7, <2>1
  <2>3. \A x \in S : n[x].next_sibling \in S
    BY <1>0, <1>7, <2>1, <2>2
  <2>. QED BY <1>1, <2>3 DEF OnEnds
<1>. QED BY <1>3, <1>6, <1>8, <1>9, <1>10, <1>11, <1>12, <1>13, <1>14 DEF Tree, m

-----------------------------------------------------------------------------
\* A tree depends on the links only.
LEMMA SameTree ==
  ASSUME NEW n, NEW A, NEW f, Tree(n, A, f), NEW m \in Nodes,
         \A d \in Ends : SameLinks(n, m, d)
  PROVE  Tree(m, A, f)
<1>0. NULL \notin A /\ A \subseteq Entity /\ NULL \in Ends /\ A \subseteq Ends /\ f \in Ends /\ f \in A \cup {NULL}
  BY HierarchyAssumption DEF Tree, Inside, Ends
<1>1. \A d \in Ends :
        /\ m[d].parent = n[d].parent
        /\ m[d].first_child = n[d].first_child /\ m[d].last_child = n[d].last_child
        /\ m[d].prev_sibling = n[d].prev_sibling /\ m[d].next_sibling = n[d].next_sibling
  BY DEF SameLinks
<1>2. Inside(n, A) /\ Listed(n, A, f) /\ Headed(n, f) /\ Afloat(n, f) /\ UpEnds(n, A) /\ BackEnds(n, A) /\ OnEnds(n, A)
  BY DEF Tree
<1>3. \A d \in Ends :
        /\ n[d].parent \in Ends /\ n[d].first_child \in Ends /\ n[d].last_child \in Ends
        /\ n[d].prev_sibling \in Ends /\ n[d].next_sibling \in Ends
  BY <1>0, <1>2 DEF Inside
<1>4. Inside(m, A)
  <2>1. \A d \in Ends : /\ m[d].parent \in A \cup {NULL}
                       /\ m[d].first_child \in A \cup {NULL} /\ m[d].last_child \in A \cup {NULL}
                       /\ m[d].prev_sibling \in A \cup {NULL} /\ m[d].next_sibling \in A \cup {NULL}
    BY <1>1, <1>2 DEF Inside
  <2>2. \A d \in Ends \ A : m[d].parent = NULL /\ m[d].prev_sibling = NULL /\ m[d].next_sibling = NULL
    BY <1>1, <1>2 DEF Inside
  <2>3. \A d \in Entity \ A : m[d].first_child = NULL /\ m[d].last_child = NULL
    BY <1>1, <1>2 DEF Inside, Ends
  <2>. QED BY <1>0, <2>1, <2>2, <2>3 DEF Inside
<1>5. Listed(m, A, f)
  <2>. SUFFICES ASSUME NEW e \in A, e # f
                PROVE  /\ m[e].next_sibling = NULL => m[m[e].parent].last_child = e
                       /\ m[e].next_sibling # NULL =>
                            /\ m[e].next_sibling # f /\ m[m[e].next_sibling].prev_sibling = e
                            /\ m[m[e].next_sibling].parent = m[e].parent
                       /\ m[e].prev_sibling = NULL => m[m[e].parent].first_child = e
                       /\ m[e].prev_sibling # NULL =>
                            /\ m[e].prev_sibling # f /\ m[m[e].prev_sibling].next_sibling = e
                            /\ m[m[e].prev_sibling].parent = m[e].parent
    BY DEF Listed
  <2>1. /\ n[e].next_sibling = NULL => n[n[e].parent].last_child = e
        /\ n[e].next_sibling # NULL =>
             /\ n[e].next_sibling # f /\ n[n[e].next_sibling].prev_sibling = e
             /\ n[n[e].next_sibling].parent = n[e].parent
        /\ n[e].prev_sibling = NULL => n[n[e].parent].first_child = e
        /\ n[e].prev_sibling # NULL =>
             /\ n[e].prev_sibling # f /\ n[n[e].prev_sibling].next_sibling = e
             /\ n[n[e].prev_sibling].parent = n[e].parent
    BY <1>2 DEF Listed
  <2>. QED BY <1>0, <1>1, <1>3, <2>1
<1>6. Headed(m, f)
  <2>. SUFFICES ASSUME NEW q \in Ends
                PROVE  /\ (m[q].first_child = NULL) <=> (m[q].last_child = NULL)
                       /\ m[q].first_child # NULL =>
                            /\ m[q].first_child # f /\ m[m[q].first_child].parent = q
                            /\ m[m[q].first_child].prev_sibling = NULL
                       /\ m[q].last_child # NULL =>
                            /\ m[q].last_child # f /\ m[m[q].last_child].parent = q
                            /\ m[m[q].last_child].next_sibling = NULL
    BY DEF Headed
  <2>1. /\ (n[q].first_child = NULL) <=> (n[q].last_child = NULL)
        /\ n[q].first_child # NULL =>
             /\ n[q].first_child # f /\ n[n[q].first_child].parent = q
             /\ n[n[q].first_child].prev_sibling = NULL
        /\ n[q].last_child # NULL =>
             /\ n[q].last_child # f /\ n[n[q].last_child].parent = q
             /\ n[n[q].last_child].next_sibling = NULL
    BY <1>2 DEF Headed
  <2>. QED BY <1>1, <1>3, <2>1
<1>7. Afloat(m, f)
  BY <1>0, <1>1, <1>2 DEF Afloat
<1>8. UpEnds(m, A) /\ BackEnds(m, A) /\ OnEnds(m, A)
  <2>1. ASSUME NEW S \in SUBSET A, \A e \in S : m[e].parent \in S PROVE S = {}
    BY <1>0, <1>1, <1>2, <2>1 DEF UpEnds
  <2>2. ASSUME NEW S \in SUBSET A, \A e \in S : m[e].prev_sibling \in S PROVE S = {}
    BY <1>0, <1>1, <1>2, <2>2 DEF BackEnds
  <2>3. ASSUME NEW S \in SUBSET A, \A e \in S : m[e].next_sibling \in S PROVE S = {}
    BY <1>0, <1>1, <1>2, <2>3 DEF OnEnds
  <2>. QED BY <2>1, <2>2, <2>3 DEF UpEnds, BackEnds, OnEnds
<1>. QED BY <1>0, <1>4, <1>5, <1>6, <1>7, <1>8 DEF Tree

\* A newcomer floats: it has no links, and nobody links to it.
LEMMA EnterTree ==
  ASSUME NEW n, NEW A, Tree(n, A, NULL), NEW e \in Entity \ A
  PROVE  Tree(n, A \cup {e}, e)
<1>0. /\ NULL \notin A /\ A \subseteq Entity /\ e \in Ends /\ NULL \in Ends /\ A \subseteq Ends
      /\ NULL # e /\ A \cup {e} \subseteq Entity /\ e \in A \cup {e}
  BY HierarchyAssumption DEF Tree, Inside, Ends
<1>1. n \in Nodes /\ Inside(n, A) /\ Listed(n, A, NULL) /\ Headed(n, NULL) /\ UpEnds(n, A) /\ BackEnds(n, A) /\ OnEnds(n, A)
  BY DEF Tree
<1>2. n[e].parent = NULL /\ n[e].prev_sibling = NULL /\ n[e].next_sibling = NULL
  BY <1>0, <1>1 DEF Inside
<1>3. Inside(n, A \cup {e})
  <2>1. \A d \in Ends : /\ n[d].parent \in A \cup {NULL}
                       /\ n[d].first_child \in A \cup {NULL} /\ n[d].last_child \in A \cup {NULL}
                       /\ n[d].prev_sibling \in A \cup {NULL} /\ n[d].next_sibling \in A \cup {NULL}
    BY <1>1 DEF Inside
  <2>2. /\ \A d \in Ends \ A : n[d].parent = NULL /\ n[d].prev_sibling = NULL /\ n[d].next_sibling = NULL
        /\ \A d \in Entity \ A : n[d].first_child = NULL /\ n[d].last_child = NULL
    BY <1>1 DEF Inside
  <2>. QED BY <1>0, <2>1, <2>2 DEF Inside
<1>4. \A d \in Ends : /\ n[d].first_child # e /\ n[d].last_child # e
                     /\ n[d].prev_sibling # e /\ n[d].next_sibling # e
  BY <1>0, <1>1 DEF Inside
<1>5. Listed(n, A \cup {e}, e)
  <2>1. (A \cup {e}) \ {e} = A \ {NULL}
    BY <1>0
  <2>. QED BY <1>0, <1>1, <1>4, <2>1 DEF Listed
<1>6. Headed(n, e)
  BY <1>1, <1>4 DEF Headed
<1>7. Afloat(n, e)
  BY <1>2 DEF Afloat
<1>8. ASSUME NEW S \in SUBSET (A \cup {e}), \A x \in S : n[x].parent \in S PROVE S = {}
  <2>1. e \notin S
    BY <1>0, <1>2, <1>8
  <2>2. S \in SUBSET A
    BY <2>1
  <2>. QED BY <1>1, <1>8, <2>2 DEF UpEnds
<1>9. ASSUME NEW S \in SUBSET (A \cup {e}), \A x \in S : n[x].prev_sibling \in S PROVE S = {}
  <2>1. e \notin S
    BY <1>0, <1>2, <1>9
  <2>2. S \in SUBSET A
    BY <2>1
  <2>. QED BY <1>1, <1>9, <2>2 DEF BackEnds
<1>10. ASSUME NEW S \in SUBSET (A \cup {e}), \A x \in S : n[x].next_sibling \in S PROVE S = {}
  <2>1. e \notin S
    BY <1>0, <1>2, <1>10
  <2>2. S \in SUBSET A
    BY <2>1
  <2>. QED BY <1>1, <1>10, <2>2 DEF OnEnds
<1>. QED BY <1>0, <1>1, <1>3, <1>5, <1>6, <1>7, <1>8, <1>9, <1>10 DEF Tree, UpEnds, BackEnds, OnEnds

\* A node without a first (or last) child is nobody's parent.
LEMMA NoChildren ==
  ASSUME NEW n, NEW A, NEW f, Tree(n, A, f), NEW p \in Ends,
         n[p].first_child = NULL \/ n[p].last_child = NULL
  PROVE  \A x \in A \ {f} : n[x].parent # p
<1> DEFINE S == {x \in A \ {f} : n[x].parent = p}
<1>0. NULL \notin A /\ A \subseteq Entity /\ A \subseteq Ends
  BY HierarchyAssumption DEF Tree, Inside, Ends
<1>1. Inside(n, A) /\ Listed(n, A, f) /\ Headed(n, f) /\ BackEnds(n, A)
  BY DEF Tree
<1>2. n[p].first_child = NULL
  BY <1>1 DEF Headed
<1>3. ASSUME NEW x \in S PROVE n[x].prev_sibling \in S
  <2>1. n[x].prev_sibling # NULL
    BY <1>0, <1>1, <1>2 DEF Listed
  <2>2. n[n[x].prev_sibling].parent = p /\ n[x].prev_sibling # f
    BY <1>1, <2>1 DEF Listed
  <2>3. n[x].prev_sibling \in A
    BY <1>0, <1>1, <2>1 DEF Inside
  <2>. QED BY <2>2, <2>3
<1>4. S \in SUBSET A
  OBVIOUS
<1>5. S = {}
  <2>. HIDE DEF S
  <2>. QED BY <1>1, <1>3, <1>4 DEF BackEnds
<1>. QED BY <1>5

\* A floating node without children can go.
LEMMA DropTree ==
  ASSUME NEW n, NEW A, NEW e \in A, Tree(n, A, e), n[e].first_child = NULL
  PROVE  Tree([n EXCEPT ![e] = BlankNode], A \ {e}, NULL)
<1> DEFINE m == [n EXCEPT ![e] = BlankNode]
           B == A \ {e}
<1>0. /\ NULL \notin A /\ A \subseteq Entity /\ e \in Entity /\ e \in Ends /\ NULL \in Ends /\ A \subseteq Ends
      /\ NULL # e
  BY HierarchyAssumption DEF Tree, Inside, Ends
<1>1. n \in Nodes /\ Inside(n, A) /\ Listed(n, A, e) /\ Headed(n, e) /\ Afloat(n, e)
      /\ UpEnds(n, A) /\ BackEnds(n, A) /\ OnEnds(n, A)
  BY DEF Tree
<1>2. BlankNode \in NodeType /\ BlankNode.parent = NULL
      /\ BlankNode.first_child = NULL /\ BlankNode.last_child = NULL
      /\ BlankNode.prev_sibling = NULL /\ BlankNode.next_sibling = NULL
  <2>1. NoRows \in [Component -> RowState]
    BY DEF NoRows, RowState
  <2>. QED BY <1>0, <2>1 DEF BlankNode, NodeType
<1>3. m \in Nodes /\ \A d \in Ends : m[d] = IF d = e THEN BlankNode ELSE n[d]
  BY <1>0, <1>1, <1>2 DEF Nodes
<1>. HIDE DEF m
<1>4. n[e].last_child = NULL
  BY <1>0, <1>1 DEF Headed
<1>5. \A d \in Ends : /\ m[d].parent = n[d].parent
                     /\ m[d].first_child = n[d].first_child /\ m[d].last_child = n[d].last_child
                     /\ m[d].prev_sibling = n[d].prev_sibling /\ m[d].next_sibling = n[d].next_sibling
  <2>1. n[e].parent = NULL /\ n[e].prev_sibling = NULL /\ n[e].next_sibling = NULL
    BY <1>1 DEF Afloat
  <2>. QED BY <1>2, <1>3, <1>4, <2>1
<1>6. \A d \in Ends : SameLinks(n, m, d)
  BY <1>5 DEF SameLinks
<1>7. Tree(m, A, e)
  BY <1>3, <1>6, SameTree
<1>8. \A x \in A \ {e} : m[x].parent # e
  BY <1>0, <1>4, <1>5, <1>7, NoChildren
<1>9. Inside(m, A) /\ Listed(m, A, e) /\ Headed(m, e) /\ Afloat(m, e)
      /\ UpEnds(m, A) /\ BackEnds(m, A) /\ OnEnds(m, A)
  BY <1>7 DEF Tree
<1>10. \A d \in Ends : m[d].prev_sibling # e /\ m[d].next_sibling # e /\ m[d].parent # e
  <2>1. \A d \in Ends \ A : m[d].prev_sibling = NULL /\ m[d].next_sibling = NULL /\ m[d].parent = NULL
    BY <1>9 DEF Inside
  <2>2. m[e].prev_sibling = NULL /\ m[e].next_sibling = NULL /\ m[e].parent = NULL
    BY <1>9 DEF Afloat
  <2>3. \A d \in A \ {e} : m[d].prev_sibling # e /\ m[d].next_sibling # e
    BY <1>0, <1>9 DEF Listed
  <2>. QED BY <1>0, <1>8, <2>1, <2>2, <2>3
<1>11. \A d \in Ends : m[d].first_child # e /\ m[d].last_child # e
  BY <1>0, <1>9 DEF Headed
<1>12. Inside(m, B)
  <2>1. \A d \in Ends : /\ m[d].parent \in A \cup {NULL}
                       /\ m[d].first_child \in A \cup {NULL} /\ m[d].last_child \in A \cup {NULL}
                       /\ m[d].prev_sibling \in A \cup {NULL} /\ m[d].next_sibling \in A \cup {NULL}
    BY <1>9 DEF Inside
  <2>2. \A d \in Ends : /\ m[d].parent \in B \cup {NULL}
                       /\ m[d].first_child \in B \cup {NULL} /\ m[d].last_child \in B \cup {NULL}
                       /\ m[d].prev_sibling \in B \cup {NULL} /\ m[d].next_sibling \in B \cup {NULL}
    BY <1>10, <1>11, <2>1
  <2>3. \A d \in Ends \ B : m[d].parent = NULL /\ m[d].prev_sibling = NULL /\ m[d].next_sibling = NULL
    <3>1. \A d \in Ends \ A : m[d].parent = NULL /\ m[d].prev_sibling = NULL /\ m[d].next_sibling = NULL
      BY <1>9 DEF Inside
    <3>2. m[e].prev_sibling = NULL /\ m[e].next_sibling = NULL /\ m[e].parent = NULL
      BY <1>9 DEF Afloat
    <3>. QED BY <3>1, <3>2
  <2>4. \A d \in Entity \ B : m[d].first_child = NULL /\ m[d].last_child = NULL
    <3>1. \A d \in Entity \ A : m[d].first_child = NULL /\ m[d].last_child = NULL
      BY <1>9 DEF Inside
    <3>2. m[e].first_child = NULL /\ m[e].last_child = NULL
      BY <1>0, <1>4, <1>5
    <3>. QED BY <3>1, <3>2
  <2>5. B \subseteq Entity
    BY <1>0
  <2>. QED BY <2>2, <2>3, <2>4, <2>5 DEF Inside
<1>13. Listed(m, B, NULL)
  <2>1. B \ {NULL} = A \ {e}
    BY <1>0
  <2>2. \A d \in B : m[d].next_sibling # NULL => m[d].next_sibling # e
    BY <1>0, <1>10
  <2>. QED BY <1>9, <2>1 DEF Listed
<1>14. Headed(m, NULL)
  BY <1>9 DEF Headed
<1>15. Afloat(m, NULL)
  BY <1>0, <1>9 DEF Afloat, Inside
<1>16. UpEnds(m, B) /\ BackEnds(m, B) /\ OnEnds(m, B)
  <2>1. \A S \in SUBSET B : S \in SUBSET A
    OBVIOUS
  <2>. HIDE DEF B
  <2>. QED BY <1>9, <2>1 DEF UpEnds, BackEnds, OnEnds
<1>17. m \in Nodes /\ NULL \in B \cup {NULL}
  BY <1>3
<1>. HIDE DEF B
<1>18. Tree(m, B, NULL)
  BY <1>12, <1>13, <1>14, <1>15, <1>16, <1>17 DEF Tree
<1>. QED BY <1>18 DEF m, B

-----------------------------------------------------------------------------
\* The path from a node to its root: the least set with the node that is
\* closed under parents.
LEMMA Path ==
  ASSUME NEW n, NEW A, NEW f, Tree(n, A, f), NEW e \in A
  PROVE  LET T == AncestorsOrSelf(n, e)
         IN  /\ T \in SUBSET A /\ e \in T
             /\ \A x \in T : n[x].parent \in T \cup {NULL}
             /\ \A S \in SUBSET Entity :
                  e \in S /\ (\A x \in S : n[x].parent \in S \cup {NULL}) => T \subseteq S
<1> DEFINE T == {x \in Entity : \A S \in SUBSET Entity :
                   {e} \ {NULL} \subseteq S /\ (\A d \in S : {n[d].parent} \ {NULL} \subseteq S) => x \in S}
<1>0. NULL \notin Entity /\ A \subseteq Entity /\ e \in Entity
  BY HierarchyAssumption DEF Tree, Inside
<1>1. AncestorsOrSelf(n, e) = T
  BY DEF AncestorsOrSelf, Reach
<1>2. e \in T
  BY <1>0
<1>3. ASSUME NEW S \in SUBSET Entity, e \in S, \A x \in S : n[x].parent \in S \cup {NULL} PROVE T \subseteq S
  BY <1>3
<1>4. ASSUME NEW x \in T PROVE n[x].parent \in T \cup {NULL}
  <2>. SUFFICES ASSUME n[x].parent # NULL PROVE n[x].parent \in T
    OBVIOUS
  <2>1. x \in Entity
    OBVIOUS
  <2>2. n[x].parent \in Entity
    BY <1>0, <2>1 DEF Tree, Inside, Ends
  <2>3. ASSUME NEW S \in SUBSET Entity, {e} \ {NULL} \subseteq S, \A d \in S : {n[d].parent} \ {NULL} \subseteq S
        PROVE  n[x].parent \in S
    <3>1. x \in S
      BY <2>3
    <3>. QED BY <2>3, <3>1
  <2>. QED BY <2>2, <2>3
<1>5. T \subseteq A
  <2>1. \A x \in A : n[x].parent \in A \cup {NULL}
    BY <1>0 DEF Tree, Inside, Ends
  <2>2. A \in SUBSET Entity
    BY <1>0
  <2>. HIDE DEF T
  <2>. QED BY <1>3, <2>1, <2>2
<1>. HIDE DEF T
<1>. QED BY <1>1, <1>2, <1>3, <1>4, <1>5

\* collect_subtree finds the node and everything below it, and nothing else.
LEMMA Subtree ==
  ASSUME NEW n, NEW A, Tree(n, A, NULL), NEW root \in A
  PROVE  LET S == collect_subtree(n, root)
         IN  /\ S \in SUBSET A /\ root \in S /\ n[root].parent \notin S
             /\ \A x \in A : x # root => (x \in S <=> n[x].parent \in S)
<1> DEFINE Step(d) == {n[d].last_child} \cup (IF d = root THEN {} ELSE {n[d].prev_sibling})
           S == {x \in Entity : \A R \in SUBSET Entity :
                   {root} \ {NULL} \subseteq R /\ (\A d \in R : Step(d) \ {NULL} \subseteq R) => x \in R}
<1>0. NULL \notin Entity /\ A \subseteq Entity /\ root \in Entity /\ A \subseteq Ends /\ NULL \in Ends /\ Entity \subseteq Ends
  BY HierarchyAssumption DEF Tree, Inside, Ends
<1>1. collect_subtree(n, root) = S
  BY DEF collect_subtree, Reach
<1>2. Inside(n, A) /\ Listed(n, A, NULL) /\ Headed(n, NULL) /\ UpEnds(n, A) /\ OnEnds(n, A)
  BY DEF Tree
<1>3. \A d \in Entity : n[d].last_child \in A \cup {NULL} /\ n[d].prev_sibling \in A \cup {NULL}
                        /\ n[d].next_sibling \in A \cup {NULL} /\ n[d].parent \in A \cup {NULL}
  BY <1>0, <1>2 DEF Inside
<1>4. root \in S /\ S \subseteq Entity
  BY <1>0
<1>5. ASSUME NEW R \in SUBSET Entity, root \in R,
             \A d \in R : n[d].last_child \in R \cup {NULL},
             \A d \in R : d # root => n[d].prev_sibling \in R \cup {NULL}
      PROVE  S \subseteq R
  <2>1. \A d \in R : Step(d) \ {NULL} \subseteq R
    BY <1>5
  <2>2. {root} \ {NULL} \subseteq R
    BY <1>5
  <2>. HIDE DEF Step
  <2>. QED BY <2>1, <2>2
<1>6. ASSUME NEW d \in S
      PROVE  n[d].last_child \in S \cup {NULL} /\ (d # root => n[d].prev_sibling \in S \cup {NULL})
  <2>1. ASSUME NEW x \in Step(d), x # NULL PROVE x \in S
    <3>1. x \in Entity
      BY <1>0, <1>3, <2>1
    <3>2. ASSUME NEW R \in SUBSET Entity, {root} \ {NULL} \subseteq R, \A y \in R : Step(y) \ {NULL} \subseteq R
          PROVE  x \in R
      <4>. HIDE DEF Step
      <4>1. d \in R
        BY <3>2
      <4>. QED BY <2>1, <3>2, <4>1
    <3>. HIDE DEF Step
    <3>. QED BY <3>1, <3>2
  <2>. HIDE DEF S
  <2>. QED BY <2>1
<1>. HIDE DEF S
<1>7. S \subseteq A
  <2>1. A \in SUBSET Entity /\ \A d \in A : n[d].last_child \in A \cup {NULL} /\ n[d].prev_sibling \in A \cup {NULL}
    BY <1>0, <1>3
  <2>. QED BY <1>5, <2>1
<1>8. ASSUME NEW x \in S, x # root PROVE n[x].parent \in S
  <2> DEFINE R == {y \in S : y = root \/ n[y].parent \in S}
  <2>1. R \in SUBSET Entity /\ root \in R
    BY <1>4
  <2>2. ASSUME NEW d \in R PROVE n[d].last_child \in R \cup {NULL}
    <3>1. n[d].last_child # NULL => n[n[d].last_child].parent = d
      BY <1>0, <1>2, <1>4 DEF Headed
    <3>. QED BY <1>6, <3>1
  <2>3. ASSUME NEW d \in R, d # root PROVE n[d].prev_sibling \in R \cup {NULL}
    <3>1. d \in A /\ d # NULL
      BY <1>0, <1>7
    <3>2. n[d].prev_sibling # NULL => n[n[d].prev_sibling].parent = n[d].parent
      BY <1>2, <3>1 DEF Listed
    <3>. QED BY <1>6, <2>3, <3>2
  <2>4. S \subseteq R
    <3>. HIDE DEF R
    <3>. QED BY <1>5, <2>1, <2>2, <2>3
  <2>. QED BY <1>8, <2>4
<1>9. n[root].parent \notin S
  <2>. SUFFICES ASSUME n[root].parent \in S PROVE FALSE
    OBVIOUS
  <2>1. \A x \in S : n[x].parent \in S
    BY <1>8
  <2>2. S \in SUBSET A /\ S # {}
    BY <1>4, <1>7
  <2>. QED BY <1>2, <2>1, <2>2 DEF UpEnds
<1>10. ASSUME NEW x \in A, n[x].parent \in S PROVE x \in S
  <2> DEFINE R == {y \in A : n[y].parent = n[x].parent /\ y \notin S}
  <2>1. ASSUME NEW y \in R PROVE n[y].next_sibling \in R
    <3>1. y \in A /\ y # NULL /\ n[y].parent = n[x].parent /\ y \notin S
      BY <1>0
    <3>2. n[y].next_sibling # NULL
      <4>1. n[y].next_sibling = NULL => n[n[x].parent].last_child = y
        BY <1>2, <3>1 DEF Listed
      <4>. QED BY <1>6, <1>10, <3>1, <4>1
    <3>3. n[n[y].next_sibling].prev_sibling = y /\ n[n[y].next_sibling].parent = n[x].parent
      BY <1>2, <3>1, <3>2 DEF Listed
    <3>4. n[y].next_sibling # root
      BY <1>9, <1>10, <3>3
    <3>5. n[y].next_sibling \notin S
      BY <1>6, <3>1, <3>3, <3>4
    <3>6. n[y].next_sibling \in A
      BY <1>0, <1>3, <3>1, <3>2
    <3>. QED BY <3>3, <3>5, <3>6
  <2>2. R \in SUBSET A
    OBVIOUS
  <2>3. R = {}
    <3>. HIDE DEF R
    <3>. QED BY <1>2, <2>1, <2>2 DEF OnEnds
  <2>. QED BY <2>3
<1>. QED BY <1>1, <1>4, <1>7, <1>8, <1>9, <1>10

-----------------------------------------------------------------------------
\* A move: out of the old list, last into the new one, which is not below.
MovedBelow(n, m, e, p) ==
  /\ m \in Nodes
  /\ \A d \in Ends : /\ m[d].parent = IF d = e THEN p ELSE n[d].parent
                    /\ SameCover(n, m, d) /\ SameMarks(n, m, d)

\* A move keeps the tree, when the new parent is not under the moved node
\* (apply_reparent): the ancestors of the new parent are closed under parent.
LEMMA MoveTree ==
  ASSUME NEW n, NEW A, Tree(n, A, NULL), NEW e \in A, NEW p \in A \cup {NULL},
         p # NULL => ~subtree_contains(n, e, p)
  PROVE  LET m == link_last(unlink(n, e), e, p)
         IN  Tree(m, A, NULL) /\ LinkedLast(unlink(n, e), m, e, p) /\ MovedBelow(n, m, e, p)
<1> DEFINE u == unlink(n, e)
           m == link_last(u, e, p)
           T == IF p = NULL THEN {} ELSE AncestorsOrSelf(n, p)
<1>0. NULL \notin Entity /\ A \subseteq Entity /\ A \subseteq Ends
  BY HierarchyAssumption DEF Tree, Inside, Ends
<1>1. Unlinked(n, u, e) /\ Tree(u, A, e)
  BY UnlinkTree
<1>2. T \in SUBSET A /\ p \in T \cup {NULL} /\ e \notin T /\ \A x \in T : n[x].parent \in T \cup {NULL}
  <2>1. CASE p = NULL
    BY <2>1
  <2>2. CASE p # NULL
    <3>1. p \in A
      BY <2>2
    <3>2. e \notin AncestorsOrSelf(n, p)
      BY <2>2 DEF subtree_contains
    <3>3. /\ AncestorsOrSelf(n, p) \in SUBSET A /\ p \in AncestorsOrSelf(n, p)
          /\ \A x \in AncestorsOrSelf(n, p) : n[x].parent \in AncestorsOrSelf(n, p) \cup {NULL}
      BY <3>1, Path
    <3>. QED BY <2>2, <3>2, <3>3
  <2>. QED BY <2>1, <2>2
<1>. HIDE DEF u, T
<1>3. \A x \in T : u[x].parent \in T \cup {NULL}
  BY <1>0, <1>1, <1>2 DEF Unlinked
<1>4. LinkedLast(u, m, e, p) /\ Tree(m, A, NULL)
  BY <1>1, <1>2, <1>3, LinkTree
<1>. HIDE DEF m
<1>5. \A d \in Ends : /\ u[d].parent = IF d = e THEN NULL ELSE n[d].parent
                     /\ SameCover(n, u, d) /\ SameMarks(n, u, d)
  BY <1>1 DEF Unlinked
<1>6. m \in Nodes /\ \A d \in Ends : /\ m[d].parent = IF d = e THEN p ELSE u[d].parent
                                     /\ SameCover(u, m, d) /\ SameMarks(u, m, d)
  BY <1>4 DEF LinkedLast
<1>7. MovedBelow(n, m, e, p)
  BY <1>5, <1>6 DEF MovedBelow, SameCover, SameMarks
<1>. QED BY <1>4, <1>7 DEF m, u

\* An adoption: a new last root, dirty.
Adopted(n, m, e) ==
  /\ m \in Nodes
  /\ \A d \in Ends :
       /\ m[d].parent = n[d].parent /\ SameCover(n, m, d)
       /\ m[d].transform_dirty = (n[d].transform_dirty \/ d = e)
       /\ m[d].transform_dirty_below = n[d].transform_dirty_below

\* Adoption hangs a node that had no links behind the last root (adopt_now).
LEMMA AdoptTree ==
  ASSUME NEW n, NEW A, Tree(n, A, NULL), NEW e \in Entity \ A
  PROVE  /\ Tree(adopt_node(n, e), A \cup {e}, NULL) /\ Adopted(n, adopt_node(n, e), e)
         /\ \A d \in Ends : adopt_node(n, e)[d].prev_sibling =
                            IF d = e THEN n[NULL].last_child ELSE n[d].prev_sibling
<1> DEFINE B == A \cup {e}
           l == link_last(n, e, NULL)
           m == adopt_node(n, e)
<1>0. NULL \notin Entity /\ A \subseteq Entity /\ e \in B /\ e \in Ends /\ NULL \in Ends /\ NULL \in B \cup {NULL}
  BY HierarchyAssumption DEF Tree, Inside, Ends
<1>1. Tree(n, B, e)
  BY EnterTree
<1>2. {} \in SUBSET B /\ NULL \in {} \cup {NULL} /\ e \notin {} /\ \A x \in {} : n[x].parent \in {} \cup {NULL}
  OBVIOUS
<1>. HIDE DEF B
<1>3. LinkedLast(n, l, e, NULL) /\ Tree(l, B, NULL)
  BY <1>0, <1>1, <1>2, LinkTree
<1>4. m = [l EXCEPT ![e].transform_dirty = TRUE]
  BY DEF adopt_node
<1>. HIDE DEF l, m
<1>5. l \in Nodes /\ \A d \in Ends : l[d] \in NodeType
  BY <1>3 DEF LinkedLast, Nodes
<1> DEFINE set == [l[e] EXCEPT !.transform_dirty = TRUE]
<1>6. PICK r \in NodeType : r = l[e]
  BY <1>0, <1>5
<1>7. /\ set \in NodeType /\ set.transform_dirty = TRUE
      /\ set.transform_dirty_below = r.transform_dirty_below
      /\ set.dormant_depth = r.dormant_depth /\ set.deactivated = r.deactivated /\ set.saved = r.saved
      /\ set.parent = r.parent /\ set.first_child = r.first_child /\ set.last_child = r.last_child
      /\ set.prev_sibling = r.prev_sibling /\ set.next_sibling = r.next_sibling
  BY <1>6 DEF NodeType
<1>8. m = [l EXCEPT ![e] = set]
  BY <1>4
<1>. HIDE DEF set
<1>9. m \in Nodes /\ \A d \in Ends : m[d] = IF d = e THEN set ELSE l[d]
  BY <1>0, <1>5, <1>7, <1>8 DEF Nodes
<1>10. \A d \in Ends : SameLinks(l, m, d) /\ SameCover(l, m, d)
  BY <1>6, <1>7, <1>9 DEF SameLinks, SameCover
<1>11. Tree(m, B, NULL)
  BY <1>3, <1>9, <1>10, SameTree
<1>12. \A d \in Ends : /\ l[d].parent = n[d].parent /\ SameCover(n, l, d)
                      /\ SameMarks(n, l, d)
  <2>1. n[e].parent = NULL
    BY <1>1 DEF Tree, Afloat
  <2>. QED BY <1>3, <2>1 DEF LinkedLast
<1>13. \A d \in Ends : d # e => m[d] = l[d]
  BY <1>9
<1>14. m[e].transform_dirty = TRUE /\ m[e].transform_dirty_below = l[e].transform_dirty_below
  BY <1>0, <1>6, <1>7, <1>9
<1>15. ASSUME NEW d \in Ends
       PROVE  /\ m[d].parent = n[d].parent /\ SameCover(n, m, d)
              /\ m[d].transform_dirty = (n[d].transform_dirty \/ d = e)
              /\ m[d].transform_dirty_below = n[d].transform_dirty_below
  <2>1. m[d].parent = n[d].parent /\ SameCover(n, m, d)
    BY <1>10, <1>12 DEF SameLinks, SameCover
  <2>2. n[d].transform_dirty \in BOOLEAN
    BY <1>1 DEF Tree, Nodes, NodeType
  <2>3. l[d].transform_dirty = n[d].transform_dirty /\ l[d].transform_dirty_below = n[d].transform_dirty_below
    BY <1>12 DEF SameMarks
  <2>4. CASE d = e
    BY <1>14, <2>1, <2>3, <2>4
  <2>5. CASE d # e
    BY <1>13, <2>1, <2>2, <2>3, <2>5
  <2>. QED BY <2>4, <2>5
<1>16. \A d \in Ends : m[d].prev_sibling = IF d = e THEN n[NULL].last_child ELSE n[d].prev_sibling
  BY <1>3, <1>10 DEF SameLinks, LinkedLast
<1>. QED BY <1>9, <1>11, <1>15, <1>16 DEF Adopted, m, B

-----------------------------------------------------------------------------
\* What a dormancy delta does to the fields of a node ...
Covered(n, m, S, delta) ==
  /\ m \in Nodes
  /\ \A d \in Ends :
       /\ SameLinks(n, m, d) /\ SameMarks(n, m, d)
       /\ m[d].dormant_depth = IF d \in S THEN n[d].dormant_depth + delta ELSE n[d].dormant_depth
       /\ m[d].deactivated = n[d].deactivated
       /\ m[d].saved = IF d \in S /\ Sleeps(n, d, delta) THEN row[d]
                       ELSE IF d \in S /\ Wakes(n, d, delta) THEN NoRows ELSE n[d].saved

\* What a change of cover does to the fields of the nodes (apply_dormancy_delta).
LEMMA CoveredFields ==
  ASSUME NEW n \in Nodes, NEW S \in SUBSET Entity, NEW delta \in Int,
         row \in [Entity -> [Component -> RowState]]
  PROVE  Covered(n, covered(n, S, delta), S, delta)
<1> DEFINE m == covered(n, S, delta)
           set(d) == [n[d] EXCEPT !.dormant_depth = @ + delta,
                                  !.saved = IF Sleeps(n, d, delta) THEN row[d]
                                            ELSE IF Wakes(n, d, delta) THEN NoRows ELSE @]
<1>1. m = [d \in Ends |-> IF d \notin S THEN n[d] ELSE set(d)]
  BY DEF covered, Nodes
<1>2. NoRows \in [Component -> RowState]
  BY DEF NoRows, RowState
<1>3. ASSUME NEW d \in Ends
      PROVE  /\ m[d] \in NodeType
             /\ SameLinks(n, m, d) /\ SameMarks(n, m, d)
             /\ m[d].dormant_depth = IF d \in S THEN n[d].dormant_depth + delta ELSE n[d].dormant_depth
             /\ m[d].deactivated = n[d].deactivated
             /\ m[d].saved = IF d \in S /\ Sleeps(n, d, delta) THEN row[d]
                             ELSE IF d \in S /\ Wakes(n, d, delta) THEN NoRows ELSE n[d].saved
  <2>1. PICK r \in NodeType : r = n[d]
    BY DEF Nodes
  <2>2. CASE d \notin S
    <3>1. m[d] = r
      BY <1>1, <2>1, <2>2
    <3>. HIDE DEF m
    <3>. QED BY <2>1, <2>2, <3>1 DEF SameLinks, SameMarks
  <2>3. CASE d \in S
    <3>1. m[d] = set(d)
      BY <1>1, <2>3
    <3> DEFINE s == IF Sleeps(n, d, delta) THEN row[d] ELSE IF Wakes(n, d, delta) THEN NoRows ELSE r.saved
               t == r.dormant_depth + delta
    <3>2. s \in [Component -> RowState] /\ t \in Int
      BY <1>2, <2>1, <2>3 DEF NodeType
    <3>3. set(d) = [r EXCEPT !.dormant_depth = t, !.saved = s]
      BY <2>1 DEF NodeType
    <3>. HIDE DEF m, set
    <3>4. PICK v \in [Component -> RowState] : v = s
      BY <3>2
    <3>5. PICK w \in Int : w = t
      BY <3>2
    <3>6. m[d] = [r EXCEPT !.dormant_depth = w, !.saved = v]
      BY <3>1, <3>3, <3>4, <3>5
    <3>. HIDE DEF s, t
    <3>7. /\ m[d] \in NodeType
          /\ SameLinks(n, m, d) /\ SameMarks(n, m, d)
          /\ m[d].dormant_depth = w /\ m[d].deactivated = n[d].deactivated /\ m[d].saved = v
      BY <2>1, <3>6 DEF NodeType, SameLinks, SameMarks
    <3>8. /\ w = n[d].dormant_depth + delta
          /\ v = IF Sleeps(n, d, delta) THEN row[d] ELSE IF Wakes(n, d, delta) THEN NoRows ELSE n[d].saved
      BY <2>1, <3>4, <3>5 DEF s, t
    <3>. QED BY <2>3, <3>7, <3>8
  <2>. QED BY <2>2, <2>3
<1>4. m \in Nodes
  BY <1>1, <1>3 DEF Nodes
<1>. QED BY <1>3, <1>4 DEF Covered

\* ... and to the rows.
Toggled(n, rows, S, delta) ==
  /\ rows \in [Entity -> [Component -> RowState]]
  /\ \A d \in Entity, c \in Component :
       rows[d][c] = IF d \in S /\ Sleeps(n, d, delta) /\ row[d][c] # "absent" THEN "off"
                    ELSE IF d \in S /\ Wakes(n, d, delta) /\ n[d].saved[c] # "absent" THEN n[d].saved[c]
                    ELSE row[d][c]

\* What it does to the rows: capture_and_clear and restore_activity.
LEMMA ToggledRows ==
  ASSUME NEW n \in Nodes, NEW S \in SUBSET Entity, NEW delta \in Int,
         row \in [Entity -> [Component -> RowState]]
  PROVE  Toggled(n, toggled(n, S, delta), S, delta)
<1>1. ASSUME NEW d \in Entity, NEW c \in Component
      PROVE  /\ toggled(n, S, delta)[d][c] =
                  IF d \in S /\ Sleeps(n, d, delta) /\ row[d][c] # "absent" THEN "off"
                  ELSE IF d \in S /\ Wakes(n, d, delta) /\ n[d].saved[c] # "absent" THEN n[d].saved[c]
                  ELSE row[d][c]
  <2>1. ~(Sleeps(n, d, delta) /\ Wakes(n, d, delta))
    BY DEF Sleeps, Wakes, Nodes, NodeType, Ends
  <2>. QED BY <2>1 DEF toggled
<1>2. ASSUME NEW d \in Entity, NEW c \in Component
      PROVE  n[d].saved[c] \in RowState /\ row[d][c] \in RowState
  <2>1. n[d].saved \in [Component -> RowState]
    BY DEF Nodes, NodeType, Ends
  <2>. QED BY <2>1
<1>3. toggled(n, S, delta) = [d \in Entity |-> [c \in Component |-> toggled(n, S, delta)[d][c]]]
  BY DEF toggled
<1>4. toggled(n, S, delta) \in [Entity -> [Component -> RowState]]
  <2> DEFINE g(d, c) == toggled(n, S, delta)[d][c]
  <2>1. \A d \in Entity, c \in Component : g(d, c) \in RowState
    BY <1>1, <1>2 DEF RowState
  <2>2. toggled(n, S, delta) = [d \in Entity |-> [c \in Component |-> g(d, c)]]
    BY <1>3
  <2>. HIDE DEF g
  <2>. QED BY <2>1, <2>2
<1>. QED BY <1>1, <1>4 DEF Toggled

-----------------------------------------------------------------------------
\* The ancestors a dirty mark climbs to: up to the first one marked already.
MarkPath(n, e) ==
  LET Unmarked(p) == {a \in {p} \ {NULL} : ~n[a].transform_dirty_below}
  IN  {x \in Entity : \A S \in SUBSET Entity :
         /\ Unmarked(n[e].parent) \ {NULL} \subseteq S
         /\ \A d \in S : Unmarked(n[d].parent) \ {NULL} \subseteq S
         => x \in S}

Marked(n, m, e) ==
  /\ m \in Nodes
  /\ \A d \in Ends :
       /\ SameLinks(n, m, d) /\ SameCover(n, m, d)
       /\ m[d].transform_dirty = (n[d].transform_dirty \/ d = e)
       /\ m[d].transform_dirty_below = (n[d].transform_dirty_below \/ d \in MarkPath(n, e))

\* What mark_transform_dirty does to the fields of the nodes.
LEMMA MarkFields ==
  ASSUME NEW n \in Nodes, NEW e
  PROVE  Marked(n, mark_transform_dirty(n, e), e)
<1> DEFINE m == mark_transform_dirty(n, e)
           P == MarkPath(n, e)
           set(d) == [n[d] EXCEPT !.transform_dirty = @ \/ d = e, !.transform_dirty_below = @ \/ d \in P]
<1>1. m = [d \in Ends |-> set(d)]
  <2>1. DOMAIN n = Ends
    BY DEF Nodes
  <2>. QED BY <2>1 DEF mark_transform_dirty, MarkPath, Reach
<1>. HIDE DEF m, P
<1>2. ASSUME NEW d \in Ends
      PROVE  /\ m[d] \in NodeType /\ SameLinks(n, m, d) /\ SameCover(n, m, d)
             /\ m[d].transform_dirty = (n[d].transform_dirty \/ d = e)
             /\ m[d].transform_dirty_below = (n[d].transform_dirty_below \/ d \in P)
  <2>1. PICK r \in NodeType : r = n[d]
    BY DEF Nodes
  <2>2. PICK t \in BOOLEAN : t = (r.transform_dirty \/ d = e)
    OBVIOUS
  <2>3. PICK b \in BOOLEAN : b = (r.transform_dirty_below \/ d \in P)
    OBVIOUS
  <2>4. m[d] = [r EXCEPT !.transform_dirty = t, !.transform_dirty_below = b]
    <3>1. m[d] = set(d)
      BY <1>1
    <3>2. set(d) = [r EXCEPT !.transform_dirty = r.transform_dirty \/ d = e,
                            !.transform_dirty_below = r.transform_dirty_below \/ d \in P]
      BY <2>1 DEF NodeType
    <3>. HIDE DEF set
    <3>. QED BY <2>2, <2>3, <3>1, <3>2
  <2>5. /\ m[d] \in NodeType /\ SameLinks(n, m, d) /\ SameCover(n, m, d)
        /\ m[d].transform_dirty = t /\ m[d].transform_dirty_below = b
    BY <2>1, <2>4 DEF NodeType, SameLinks, SameCover
  <2>. QED BY <2>1, <2>2, <2>3, <2>5, Zenon
<1>3. m \in Nodes
  <2>1. m = [d \in Ends |-> m[d]]
    BY <1>1
  <2>. QED BY <1>2, <2>1 DEF Nodes
<1>. QED BY <1>2, <1>3 DEF Marked, m, P

\* The flag of a scope root.
Flagged(n, m, e, flag) ==
  /\ m \in Nodes
  /\ \A d \in Ends :
       /\ SameLinks(n, m, d) /\ SameMarks(n, m, d)
       /\ m[d].dormant_depth = n[d].dormant_depth /\ m[d].saved = n[d].saved
       /\ m[d].deactivated = IF d = e THEN flag ELSE n[d].deactivated

\* What activate and deactivate do to a node before the walk below it.
LEMMA FlagFields ==
  ASSUME NEW n \in Nodes, NEW e \in Entity, NEW flag \in BOOLEAN
  PROVE  Flagged(n, [n EXCEPT ![e].deactivated = flag], e, flag)
<1> DEFINE m == [n EXCEPT ![e].deactivated = flag]
           set == [n[e] EXCEPT !.deactivated = flag]
<1>0. e \in Ends
  BY DEF Ends
<1>1. PICK r \in NodeType : r = n[e]
  BY <1>0 DEF Nodes
<1>2. /\ set \in NodeType /\ set.deactivated = flag
      /\ set.transform_dirty = r.transform_dirty /\ set.transform_dirty_below = r.transform_dirty_below
      /\ set.dormant_depth = r.dormant_depth /\ set.saved = r.saved
      /\ set.parent = r.parent /\ set.first_child = r.first_child /\ set.last_child = r.last_child
      /\ set.prev_sibling = r.prev_sibling /\ set.next_sibling = r.next_sibling
  BY <1>1 DEF NodeType
<1>3. m = [n EXCEPT ![e] = set]
  OBVIOUS
<1>. HIDE DEF set, m
<1>4. m \in Nodes /\ \A d \in Ends : m[d] = IF d = e THEN set ELSE n[d]
  BY <1>0, <1>2, <1>3 DEF Nodes
<1>5. \A d \in Ends :
       /\ SameLinks(n, m, d) /\ SameMarks(n, m, d)
       /\ m[d].dormant_depth = n[d].dormant_depth /\ m[d].saved = n[d].saved
       /\ m[d].deactivated = IF d = e THEN flag ELSE n[d].deactivated
  BY <1>1, <1>2, <1>4 DEF SameLinks, SameMarks
<1>. QED BY <1>4, <1>5 DEF Flagged, m

-----------------------------------------------------------------------------
\* Along every parent link the count grows by the entity's own flag.
Grows(n, e) ==
  n[e].dormant_depth = n[n[e].parent].dormant_depth + (IF n[e].deactivated THEN 1 ELSE 0)

CoverRight(n, A) ==
  /\ n[NULL].dormant_depth = 0
  /\ \A e \in A : Grows(n, e)
  /\ \A d \in Ends : n[d].dormant_depth \in Nat

\* A delta over a whole subtree repairs the count of its root, and no other.
LEMMA DeltaCover ==
  ASSUME NEW n, NEW A, Tree(n, A, NULL), NEW root \in A, NEW delta \in Int,
         NEW m, Covered(n, m, collect_subtree(n, root), delta),
         n[NULL].dormant_depth = 0, \A d \in Ends : n[d].dormant_depth \in Nat,
         \A e \in A \ {root} : Grows(n, e),
         n[root].dormant_depth + delta =
           n[n[root].parent].dormant_depth + (IF n[root].deactivated THEN 1 ELSE 0)
  PROVE  Tree(m, A, NULL) /\ CoverRight(m, A)
<1> DEFINE S == collect_subtree(n, root)
<1>0. NULL \notin Entity /\ A \subseteq Entity /\ A \subseteq Ends /\ NULL \in Ends
  BY HierarchyAssumption DEF Tree, Inside, Ends
<1>1. /\ S \in SUBSET A /\ root \in S /\ n[root].parent \notin S
      /\ \A x \in A : x # root => (x \in S <=> n[x].parent \in S)
  BY Subtree
<1>. HIDE DEF S
<1>2. m \in Nodes /\ \A d \in Ends :
        /\ SameLinks(n, m, d)
        /\ m[d].dormant_depth = IF d \in S THEN n[d].dormant_depth + delta ELSE n[d].dormant_depth
        /\ m[d].deactivated = n[d].deactivated
  BY DEF Covered, S
<1>3. Tree(m, A, NULL)
  BY <1>2, SameTree
<1>4. \A d \in Ends : m[d].parent = n[d].parent
  BY <1>2 DEF SameLinks
<1>5. \A d \in Ends : n[d].parent \in Ends /\ n[d].parent \in A \cup {NULL}
  BY <1>0 DEF Tree, Inside
<1>6. ASSUME NEW e \in A PROVE Grows(m, e)
  <2>1. /\ m[e].dormant_depth = IF e \in S THEN n[e].dormant_depth + delta ELSE n[e].dormant_depth
        /\ m[e].deactivated = n[e].deactivated /\ m[e].parent = n[e].parent
        /\ m[n[e].parent].dormant_depth =
             IF n[e].parent \in S THEN n[n[e].parent].dormant_depth + delta ELSE n[n[e].parent].dormant_depth
        /\ n[e].dormant_depth \in Nat /\ n[n[e].parent].dormant_depth \in Nat
    BY <1>0, <1>2, <1>4, <1>5
  <2>2. CASE e = root
    BY <1>1, <2>1, <2>2 DEF Grows
  <2>3. CASE e # root
    <3>1. n[e].dormant_depth = n[n[e].parent].dormant_depth + (IF n[e].deactivated THEN 1 ELSE 0)
      BY <2>3 DEF Grows
    <3>. QED BY <1>1, <2>1, <2>3, <3>1 DEF Grows
  <2>. QED BY <2>2, <2>3
<1>7. ASSUME NEW d \in S PROVE n[d].dormant_depth + delta >= 0
  <2> DEFINE R == {x \in S : n[x].dormant_depth + delta < 0}
  <2>1. ASSUME NEW x \in R PROVE n[x].parent \in R
    <3>0. x \in A /\ x \in Ends /\ x \in S
      BY <1>0, <1>1
    <3>1. n[x].dormant_depth \in Nat /\ n[n[x].parent].dormant_depth \in Nat
      BY <1>5, <3>0
    <3>2. x # root
      BY <3>1
    <3>3. n[x].parent \in S
      BY <1>1, <3>0, <3>2
    <3>4. n[x].dormant_depth >= n[n[x].parent].dormant_depth
      BY <3>0, <3>1, <3>2 DEF Grows
    <3>5. n[n[x].parent].dormant_depth + delta < 0
      BY <3>1, <3>4
    <3>. QED BY <3>3, <3>5
  <2>2. R \in SUBSET A
    BY <1>1
  <2>3. UpEnds(n, A)
    BY DEF Tree
  <2>4. R = {}
    <3>. HIDE DEF R
    <3>. QED BY <2>1, <2>2, <2>3 DEF UpEnds
  <2>5. n[d].dormant_depth \in Nat
    BY <1>0, <1>1
  <2>. QED BY <2>4, <2>5
<1>8. \A d \in Ends : m[d].dormant_depth \in Nat
  BY <1>2, <1>7
<1>9. m[NULL].dormant_depth = 0
  BY <1>0, <1>1, <1>2
<1>. QED BY <1>3, <1>6, <1>8, <1>9 DEF CoverRight

-----------------------------------------------------------------------------
\* An awake node has captured nothing, and a stranger has a blank row.
Uncaptured(n, A) == \A e \in A : n[e].dormant_depth = 0 => n[e].saved = NoRows
Blank(n, A) ==
  \A d \in Entity \ A :
    /\ n[d].dormant_depth = 0 /\ n[d].deactivated = FALSE /\ n[d].saved = NoRows
    /\ n[d].transform_dirty = FALSE /\ n[d].transform_dirty_below = FALSE

Good(n, A) == Tree(n, A, NULL) /\ CoverRight(n, A) /\ Uncaptured(n, A) /\ Blank(n, A)

\* Blank fields are a blank row.
LEMMA BlankRow ==
  ASSUME NEW n, NEW A, Good(n, A), NEW d \in Entity \ A
  PROVE  n[d] = BlankNode
<1>1. d \in Ends /\ d \notin A
  BY DEF Ends
<1>2. n[d] \in NodeType
  BY <1>1 DEF Good, Tree, Nodes
<1>3. /\ n[d].parent = NULL /\ n[d].prev_sibling = NULL /\ n[d].next_sibling = NULL
      /\ n[d].first_child = NULL /\ n[d].last_child = NULL
  BY <1>1 DEF Good, Tree, Inside
<1>4. /\ n[d].dormant_depth = 0 /\ n[d].deactivated = FALSE /\ n[d].saved = NoRows
      /\ n[d].transform_dirty = FALSE /\ n[d].transform_dirty_below = FALSE
  BY DEF Good, Blank
<1>. QED BY <1>2, <1>3, <1>4 DEF NodeType, BlankNode

\* The tree of nobody.
LEMMA GoodInit ==
  Good([e \in Entity \cup {NULL} |-> BlankNode], {})
<1> DEFINE n == [e \in Entity \cup {NULL} |-> BlankNode]
<1>1. BlankNode \in NodeType /\ BlankNode.parent = NULL
      /\ BlankNode.first_child = NULL /\ BlankNode.last_child = NULL
      /\ BlankNode.prev_sibling = NULL /\ BlankNode.next_sibling = NULL
      /\ BlankNode.dormant_depth = 0 /\ BlankNode.deactivated = FALSE /\ BlankNode.saved = NoRows
      /\ BlankNode.transform_dirty = FALSE /\ BlankNode.transform_dirty_below = FALSE
  <2>1. NoRows \in [Component -> RowState] /\ NULL \in Ends
    BY DEF NoRows, RowState, Ends
  <2>. QED BY <2>1 DEF BlankNode, NodeType
<1>2. n \in Nodes /\ NULL \in Ends /\ \A d \in Ends : n[d] = BlankNode
  BY <1>1 DEF Nodes, Ends
<1>. HIDE DEF n
<1>3. Inside(n, {}) /\ Listed(n, {}, NULL) /\ Headed(n, NULL) /\ Afloat(n, NULL)
  BY <1>1, <1>2 DEF Inside, Listed, Headed, Afloat, Ends
<1>4. UpEnds(n, {}) /\ BackEnds(n, {}) /\ OnEnds(n, {})
  BY DEF UpEnds, BackEnds, OnEnds
<1>5. Tree(n, {}, NULL)
  BY <1>2, <1>3, <1>4 DEF Tree
<1>6. CoverRight(n, {})
  BY <1>1, <1>2 DEF CoverRight
<1>7. Uncaptured(n, {}) /\ Blank(n, {})
  BY <1>1, <1>2 DEF Uncaptured, Blank, Ends
<1>. QED BY <1>5, <1>6, <1>7 DEF Good, n

\* An adoption keeps counts and captures.
LEMMA GoodAdopted ==
  ASSUME NEW n, NEW A, Good(n, A), NEW e \in Entity \ A
  PROVE  Good(adopt_node(n, e), A \cup {e}) /\ Adopted(n, adopt_node(n, e), e)
<1> DEFINE m == adopt_node(n, e)
<1>0. NULL \notin Entity /\ A \subseteq Entity /\ A \subseteq Ends /\ NULL \in Ends /\ e \in Ends
  BY HierarchyAssumption DEF Good, Tree, Inside, Ends
<1>1. Tree(m, A \cup {e}, NULL) /\ Adopted(n, m, e)
  BY AdoptTree DEF Good
<1>. HIDE DEF m
<1>2. \A d \in Ends :
        /\ m[d].parent = n[d].parent
        /\ m[d].dormant_depth = n[d].dormant_depth /\ m[d].deactivated = n[d].deactivated
        /\ m[d].saved = n[d].saved
        /\ d # e => m[d].transform_dirty = n[d].transform_dirty
        /\ m[d].transform_dirty_below = n[d].transform_dirty_below
  <2>1. \A d \in Ends : SameCover(n, m, d) /\ m[d].parent = n[d].parent
                        /\ m[d].transform_dirty_below = n[d].transform_dirty_below
    BY <1>1 DEF Adopted
  <2>2. ASSUME NEW d \in Ends, d # e PROVE m[d].transform_dirty = n[d].transform_dirty
    <3>1. n[d].transform_dirty \in BOOLEAN
      BY DEF Good, Tree, Nodes, NodeType
    <3>2. m[d].transform_dirty = (n[d].transform_dirty \/ d = e)
      BY <1>1 DEF Adopted
    <3>. QED BY <2>2, <3>1, <3>2
  <2>. QED BY <2>1, <2>2 DEF SameCover
<1>3. /\ n[NULL].dormant_depth = 0 /\ \A d \in Ends : n[d].dormant_depth \in Nat
      /\ \A d \in A : Grows(n, d)
  BY DEF Good, CoverRight
<1>4. /\ n[e].parent = NULL /\ n[e].dormant_depth = 0 /\ n[e].deactivated = FALSE /\ n[e].saved = NoRows
      /\ \A d \in A : n[d].parent \in Ends
  <2>1. n[e].dormant_depth = 0 /\ n[e].deactivated = FALSE /\ n[e].saved = NoRows
    BY DEF Good, Blank
  <2>2. Inside(n, A)
    BY DEF Good, Tree
  <2>3. n[e].parent = NULL
    BY <1>0, <2>2 DEF Inside
  <2>4. \A d \in A : n[d].parent \in Ends
    BY <1>0, <2>2 DEF Inside
  <2>. QED BY <2>1, <2>3, <2>4
<1>5. CoverRight(m, A \cup {e})
  <2>1. \A d \in A : Grows(m, d)
    BY <1>0, <1>2, <1>3, <1>4 DEF Grows
  <2>2. Grows(m, e)
    BY <1>0, <1>2, <1>3, <1>4 DEF Grows
  <2>3. m[NULL].dormant_depth = 0 /\ \A d \in Ends : m[d].dormant_depth \in Nat
    BY <1>0, <1>2, <1>3
  <2>. QED BY <2>1, <2>2, <2>3 DEF CoverRight
<1>6. Uncaptured(m, A \cup {e})
  <2>1. \A d \in A : n[d].dormant_depth = 0 => n[d].saved = NoRows
    BY DEF Good, Uncaptured
  <2>. QED BY <1>0, <1>2, <1>4, <2>1 DEF Uncaptured
<1>7. Blank(m, A \cup {e})
  <2>. SUFFICES ASSUME NEW d \in Entity, d \notin A, d # e
                PROVE  /\ m[d].dormant_depth = 0 /\ m[d].deactivated = FALSE /\ m[d].saved = NoRows
                       /\ m[d].transform_dirty = FALSE /\ m[d].transform_dirty_below = FALSE
    BY DEF Blank
  <2>1. /\ n[d].dormant_depth = 0 /\ n[d].deactivated = FALSE /\ n[d].saved = NoRows
        /\ n[d].transform_dirty = FALSE /\ n[d].transform_dirty_below = FALSE
    BY DEF Good, Blank
  <2>2. d \in Ends
    BY DEF Ends
  <2>. QED BY <1>2, <2>1, <2>2
<1>. QED BY <1>1, <1>5, <1>6, <1>7 DEF Good, m

\* The marks a dirty node leaves are on adopted nodes.
LEMMA MarkPathInside ==
  ASSUME NEW n, NEW A, Tree(n, A, NULL), NEW e \in A
  PROVE  MarkPath(n, e) \subseteq A
<1> DEFINE Unmarked(p) == {a \in {p} \ {NULL} : ~n[a].transform_dirty_below}
<1>0. A \subseteq Entity /\ A \subseteq Ends /\ \A d \in A : n[d].parent \in A \cup {NULL}
  BY DEF Tree, Inside, Ends
<1>1. \A d \in A : Unmarked(n[d].parent) \ {NULL} \subseteq A
  BY <1>0
<1>2. A \in SUBSET Entity /\ Unmarked(n[e].parent) \ {NULL} \subseteq A
  BY <1>0
<1>3. MarkPath(n, e) = {x \in Entity : \A S \in SUBSET Entity :
         /\ Unmarked(n[e].parent) \ {NULL} \subseteq S
         /\ \A d \in S : Unmarked(n[d].parent) \ {NULL} \subseteq S
         => x \in S}
  BY DEF MarkPath
<1>. HIDE DEF Unmarked
<1>. QED BY <1>1, <1>2, <1>3

\* Marking keeps the tree, the counts and the captures.
LEMMA GoodMarked ==
  ASSUME NEW n, NEW A, Good(n, A), NEW e \in A
  PROVE  Good(mark_transform_dirty(n, e), A) /\ Marked(n, mark_transform_dirty(n, e), e)
<1> DEFINE m == mark_transform_dirty(n, e)
<1>0. A \subseteq Entity /\ A \subseteq Ends /\ NULL \in Ends /\ \A d \in A : n[d].parent \in Ends
  BY DEF Good, Tree, Inside, Ends
<1>1. Marked(n, m, e)
  BY MarkFields DEF Good, Tree
<1>. HIDE DEF m
<1>2. m \in Nodes /\ \A d \in Ends : SameLinks(n, m, d) /\ SameCover(n, m, d)
  BY <1>1 DEF Marked
<1>3. Tree(m, A, NULL)
  BY <1>2, SameTree DEF Good
<1>4. \A d \in Ends :
        /\ m[d].parent = n[d].parent
        /\ m[d].dormant_depth = n[d].dormant_depth /\ m[d].deactivated = n[d].deactivated
        /\ m[d].saved = n[d].saved
  BY <1>2 DEF SameLinks, SameCover
<1>5. CoverRight(m, A)
  <2>1. n[NULL].dormant_depth = 0 /\ (\A d \in Ends : n[d].dormant_depth \in Nat) /\ \A d \in A : Grows(n, d)
    BY DEF Good, CoverRight
  <2>2. \A d \in A : Grows(m, d)
    BY <1>0, <1>4, <2>1 DEF Grows
  <2>. QED BY <1>0, <1>4, <2>1, <2>2 DEF CoverRight
<1>6. Uncaptured(m, A)
  BY <1>0, <1>4 DEF Good, Uncaptured
<1>7. Blank(m, A)
  <2>. SUFFICES ASSUME NEW d \in Entity \ A
                PROVE  /\ m[d].dormant_depth = 0 /\ m[d].deactivated = FALSE /\ m[d].saved = NoRows
                       /\ m[d].transform_dirty = FALSE /\ m[d].transform_dirty_below = FALSE
    BY DEF Blank
  <2>1. /\ n[d].dormant_depth = 0 /\ n[d].deactivated = FALSE /\ n[d].saved = NoRows
        /\ n[d].transform_dirty = FALSE /\ n[d].transform_dirty_below = FALSE
    BY DEF Good, Blank
  <2>2. d \in Ends /\ d # e /\ d \notin MarkPath(n, e)
    BY MarkPathInside DEF Ends, Good
  <2>3. m[d].transform_dirty = (n[d].transform_dirty \/ d = e)
        /\ m[d].transform_dirty_below = (n[d].transform_dirty_below \/ d \in MarkPath(n, e))
    BY <1>1, <2>2 DEF Marked
  <2>4. m[d].transform_dirty = FALSE /\ m[d].transform_dirty_below = FALSE
    BY <2>1, <2>2, <2>3, Zenon
  <2>. QED BY <1>4, <2>1, <2>2, <2>4
<1>. QED BY <1>1, <1>3, <1>5, <1>6, <1>7 DEF Good, m

\* A delta over a subtree, from a table whose counts are right but for its root.
LEMMA GoodCovered ==
  ASSUME NEW n, NEW A, Tree(n, A, NULL), NEW root \in A, NEW delta \in Int,
         NEW m, Covered(n, m, collect_subtree(n, root), delta),
         n[NULL].dormant_depth = 0, \A d \in Ends : n[d].dormant_depth \in Nat,
         \A e \in A \ {root} : Grows(n, e),
         n[root].dormant_depth + delta =
           n[n[root].parent].dormant_depth + (IF n[root].deactivated THEN 1 ELSE 0),
         Uncaptured(n, A), Blank(n, A)
  PROVE  Good(m, A)
<1> DEFINE S == collect_subtree(n, root)
<1>0. A \subseteq Entity /\ A \subseteq Ends /\ S \in SUBSET A
  BY Subtree DEF Tree, Inside, Ends
<1>1. Tree(m, A, NULL) /\ CoverRight(m, A)
  BY DeltaCover
<1>2. \A d \in Ends :
       /\ SameLinks(n, m, d) /\ SameMarks(n, m, d)
       /\ m[d].dormant_depth = IF d \in S THEN n[d].dormant_depth + delta ELSE n[d].dormant_depth
       /\ m[d].deactivated = n[d].deactivated
       /\ m[d].saved = IF d \in S /\ Sleeps(n, d, delta) THEN row[d]
                       ELSE IF d \in S /\ Wakes(n, d, delta) THEN NoRows ELSE n[d].saved
  BY DEF Covered
<1>. HIDE DEF S
<1>3. ASSUME NEW e \in A, m[e].dormant_depth = 0 PROVE m[e].saved = NoRows
  <2>1. n[e].dormant_depth \in Nat /\ e \in Ends /\ (n[e].dormant_depth = 0 => n[e].saved = NoRows)
    BY <1>0 DEF Uncaptured
  <2>2. CASE e \in S
    <3>1. n[e].dormant_depth + delta = 0
      BY <1>2, <1>3, <2>1, <2>2
    <3>2. ~Sleeps(n, e, delta) /\ (~Wakes(n, e, delta) => n[e].dormant_depth = 0)
      BY <2>1, <3>1 DEF Sleeps, Wakes
    <3>3. m[e].saved = IF e \in S /\ Sleeps(n, e, delta) THEN row[e]
                       ELSE IF e \in S /\ Wakes(n, e, delta) THEN NoRows ELSE n[e].saved
      BY <1>2, <2>1
    <3>4. CASE Wakes(n, e, delta)
      BY <2>2, <3>2, <3>3, <3>4
    <3>5. CASE ~Wakes(n, e, delta)
      <4>1. m[e].saved = n[e].saved
        BY <3>2, <3>3, <3>5
      <4>. QED BY <2>1, <3>2, <3>5, <4>1
    <3>. QED BY <3>4, <3>5
  <2>3. CASE e \notin S
    BY <1>2, <1>3, <2>1, <2>3
  <2>. QED BY <2>2, <2>3
<1>4. ASSUME NEW d \in Entity, d \notin A
      PROVE  /\ m[d].dormant_depth = 0 /\ m[d].deactivated = FALSE /\ m[d].saved = NoRows
             /\ m[d].transform_dirty = FALSE /\ m[d].transform_dirty_below = FALSE
  <2>1. /\ n[d].dormant_depth = 0 /\ n[d].deactivated = FALSE /\ n[d].saved = NoRows
        /\ n[d].transform_dirty = FALSE /\ n[d].transform_dirty_below = FALSE
    BY <1>4 DEF Blank
  <2>2. d \in Ends /\ d \notin S
    BY <1>0, <1>4 DEF Ends
  <2>. QED BY <1>2, <2>1, <2>2 DEF SameMarks
<1>. QED BY <1>1, <1>3, <1>4 DEF Good, Uncaptured, Blank

-----------------------------------------------------------------------------
\* The activity pattern of a node, from a table of nodes and the rows.
PatternOf(n, r, e) ==
  [c \in Component |-> IF n[e].saved[c] # "absent" THEN n[e].saved[c] ELSE r[e][c]]

\* The pattern depends on the capture and the rows of the entity alone.
LEMMA SamePattern ==
  ASSUME NEW n, NEW r, NEW m, NEW s, NEW e, m[e].saved = n[e].saved, s[e] = r[e]
  PROVE  PatternOf(m, s, e) = PatternOf(n, r, e)
  BY DEF PatternOf

\* Without a capture the pattern is the rows.
LEMMA AwakePattern ==
  ASSUME NEW n, NEW r \in [Entity -> [Component -> RowState]], NEW e \in Entity, n[e].saved = NoRows
  PROVE  PatternOf(n, r, e) = r[e]
<1>1. \A c \in Component : ~(n[e].saved[c] # "absent")
  BY DEF NoRows
<1>2. r[e] = [c \in Component |-> r[e][c]]
  OBVIOUS
<1>. QED BY <1>1, <1>2 DEF PatternOf

\* A delta keeps every pattern: the first cover captures it, the last lift
\* restores it, and what falls asleep shows no row switched on.
LEMMA CoveredPattern ==
  ASSUME NEW n \in Nodes, NEW S, NEW delta \in Int, NEW m, Covered(n, m, S, delta),
         NEW s, Toggled(n, s, S, delta), row \in [Entity -> [Component -> RowState]],
         NEW e \in Entity, n[e].dormant_depth \in Nat, n[e].dormant_depth = 0 => n[e].saved = NoRows
  PROVE  /\ PatternOf(m, s, e) = PatternOf(n, row, e)
         /\ n[e].dormant_depth = 0 /\ m[e].dormant_depth > 0 => \A c \in Component : s[e][c] # "on"
<1>0. e \in Ends
  BY DEF Ends
<1>1. /\ m[e].dormant_depth = IF e \in S THEN n[e].dormant_depth + delta ELSE n[e].dormant_depth
      /\ m[e].saved = IF e \in S /\ Sleeps(n, e, delta) THEN row[e]
                      ELSE IF e \in S /\ Wakes(n, e, delta) THEN NoRows ELSE n[e].saved
  BY <1>0 DEF Covered
<1>2. \A c \in Component :
        s[e][c] = IF e \in S /\ Sleeps(n, e, delta) /\ row[e][c] # "absent" THEN "off"
                  ELSE IF e \in S /\ Wakes(n, e, delta) /\ n[e].saved[c] # "absent" THEN n[e].saved[c]
                  ELSE row[e][c]
  BY DEF Toggled
<1>3. n[e].saved \in [Component -> RowState] /\ row[e] \in [Component -> RowState]
  BY <1>0 DEF Nodes, NodeType
<1>4. CASE e \in S /\ Sleeps(n, e, delta)
  <2>1. m[e].saved = row[e] /\ n[e].saved = NoRows
    BY <1>1, <1>4 DEF Sleeps
  <2>2. \A c \in Component : s[e][c] = IF row[e][c] # "absent" THEN "off" ELSE row[e][c]
    <3>1. ~Wakes(n, e, delta)
      BY <1>4 DEF Sleeps, Wakes
    <3>. QED BY <1>2, <1>4, <3>1
  <2>3. ASSUME NEW c \in Component
        PROVE  /\ (IF m[e].saved[c] # "absent" THEN m[e].saved[c] ELSE s[e][c])
                    = (IF n[e].saved[c] # "absent" THEN n[e].saved[c] ELSE row[e][c])
               /\ s[e][c] # "on"
    BY <2>1, <2>2 DEF NoRows
  <2>. QED BY <2>3 DEF PatternOf
<1>5. CASE e \in S /\ Wakes(n, e, delta)
  <2>0. ~Sleeps(n, e, delta)
    BY <1>5 DEF Sleeps, Wakes
  <2>1. m[e].saved = NoRows /\ m[e].dormant_depth = 0
    BY <1>1, <1>5, <2>0 DEF Wakes
  <2>2. \A c \in Component : s[e][c] = IF n[e].saved[c] # "absent" THEN n[e].saved[c] ELSE row[e][c]
    BY <1>2, <1>5, <2>0
  <2>3. \A c \in Component :
          (IF m[e].saved[c] # "absent" THEN m[e].saved[c] ELSE s[e][c])
            = (IF n[e].saved[c] # "absent" THEN n[e].saved[c] ELSE row[e][c])
    BY <2>1, <2>2 DEF NoRows
  <2>. QED BY <2>1, <2>3 DEF PatternOf
<1>6. CASE ~(e \in S /\ Sleeps(n, e, delta)) /\ ~(e \in S /\ Wakes(n, e, delta))
  <2>1. m[e].saved = n[e].saved
    BY <1>1, <1>6
  <2>2. \A c \in Component : s[e][c] = row[e][c]
    BY <1>2, <1>6
  <2>3. ~(n[e].dormant_depth = 0 /\ m[e].dormant_depth > 0)
    BY <1>1, <1>6 DEF Sleeps
  <2>4. PatternOf(m, s, e) = PatternOf(n, row, e)
    BY <2>1, <2>2 DEF PatternOf
  <2>. QED BY <2>3, <2>4
<1>. QED BY <1>4, <1>5, <1>6

-----------------------------------------------------------------------------
\* The inductive invariant.
RowsRight ==
  /\ life \in [Entity -> {"unborn", "alive", "dead"}]
  /\ adopted \subseteq Alive
  /\ row \in [Entity -> [Component -> RowState]]
  /\ local \in [Entity -> Local]
  /\ despawning \in Seq(Entity) /\ \A k \in DOMAIN despawning : despawning[k] \in Alive

\* The calls in flight are a path down the tree, no entity twice.
InFlight ==
  /\ \A k \in DOMAIN despawning : k > 1 => node[despawning[k]].parent = despawning[k - 1]
  /\ \A i, j \in DOMAIN despawning : despawning[i] = despawning[j] => i = j

HierarchyIInv == RowsRight /\ Good(node, adopted) /\ InFlight

ActivityStep ==
  \A e \in adopted \cap adopted' :
    /\ node' # node => Pattern(e)' = Pattern(e)
    /\ node'[e].dormant_depth = 0 => row'[e] = Pattern(e)'
    /\ node[e].dormant_depth = 0 /\ node'[e].dormant_depth > 0 =>
         \A c \in Component : row'[e][c] # "on"

\* What is left to show of a step for its activity: an awake node shows its
\* pattern whenever the invariant holds.
LEMMA ActivityOf ==
  ASSUME HierarchyIInv', adopted \subseteq Entity,
         \A e \in adopted \cap adopted' :
           /\ node' # node => PatternOf(node', row', e) = PatternOf(node, row, e)
           /\ node[e].dormant_depth = 0 /\ node'[e].dormant_depth > 0 =>
                \A c \in Component : row'[e][c] # "on"
  PROVE  ActivityStep
<1>. SUFFICES ASSUME NEW e \in adopted \cap adopted'
              PROVE  /\ node' # node => Pattern(e)' = Pattern(e)
                     /\ node'[e].dormant_depth = 0 => row'[e] = Pattern(e)'
                     /\ node[e].dormant_depth = 0 /\ node'[e].dormant_depth > 0 =>
                          \A c \in Component : row'[e][c] # "on"
  BY DEF ActivityStep
<1>1. Pattern(e) = PatternOf(node, row, e)
  BY DEF Pattern, PatternOf
<1>2. Pattern(e)' = PatternOf(node', row', e)
  BY DEF Pattern, PatternOf
<1>3. node'[e].dormant_depth = 0 => node'[e].saved = NoRows
  BY DEF HierarchyIInv, Good, Uncaptured
<1>4. row' \in [Entity -> [Component -> RowState]] /\ e \in Entity
  BY DEF HierarchyIInv, RowsRight
<1>5. node'[e].dormant_depth = 0 => row'[e] = PatternOf(node', row', e)
  BY <1>3, <1>4, AwakePattern
<1>. QED BY <1>1, <1>2, <1>5

\* A step that keeps links, counts and captures, and the rows of the tree.
LEMMA QuietActivity ==
  ASSUME HierarchyIInv', adopted \subseteq Entity,
         \A e \in adopted \cap adopted' : row'[e] = row[e] /\ SameCover(node, node', e)
  PROVE  ActivityStep
<1>1. \A e \in adopted \cap adopted' :
        /\ node'[e].saved = node[e].saved /\ node'[e].dormant_depth = node[e].dormant_depth
        /\ row'[e] = row[e]
  BY DEF SameCover
<1>2. ASSUME NEW e \in adopted \cap adopted'
      PROVE  /\ node' # node => PatternOf(node', row', e) = PatternOf(node, row, e)
             /\ ~(node[e].dormant_depth = 0 /\ node'[e].dormant_depth > 0)
  <2>1. PatternOf(node', row', e) = PatternOf(node, row, e)
    BY <1>1, SamePattern
  <2>2. node'[e].dormant_depth = 0 => ~(node'[e].dormant_depth > 0)
    OBVIOUS
  <2>. QED BY <1>1, <2>1, <2>2
<1>. QED BY <1>2, ActivityOf

-----------------------------------------------------------------------------
\* With no call in flight there is no path to keep.
LEMMA IdleFlight ==
  ASSUME Idle, despawning' = despawning
  PROVE  InFlight'
  BY DEF InFlight, Idle

\* The type facts of the invariant that the steps need most.
LEMMA Members ==
  ASSUME HierarchyIInv
  PROVE  /\ adopted \subseteq Entity /\ adopted \subseteq Ends /\ NULL \notin Entity /\ NULL \in Ends
         /\ node \in Nodes /\ Tree(node, adopted, NULL)
         /\ \A d \in Ends : node[d].parent \in adopted \cup {NULL}
  BY HierarchyAssumption DEF HierarchyIInv, Good, Tree, Inside, Ends

\* spawn: a life begins outside the tree.
LEMMA SpawnStep ==
  ASSUME HierarchyIInv, NEW e \in Entity, spawn(e)
  PROVE  HierarchyIInv' /\ ActivityStep
<1>1. life' = [life EXCEPT ![e] = "alive"] /\ Idle
      /\ adopted' = adopted /\ node' = node /\ row' = row /\ local' = local /\ despawning' = despawning
  BY DEF spawn, transformVars
<1>2. RowsRight'
  <2>1. \A d \in Entity : life[d] = "alive" => life'[d] = "alive"
    BY <1>1 DEF HierarchyIInv, RowsRight
  <2>. QED BY <1>1, <2>1 DEF HierarchyIInv, RowsRight, Alive
<1>3. InFlight'
  BY <1>1, IdleFlight
<1>4. HierarchyIInv'
  BY <1>1, <1>2, <1>3 DEF HierarchyIInv
<1>. QED BY <1>1, <1>4, Members, QuietActivity DEF SameCover

\* emplace and set_active: one bit of one row.
LEMMA RowStep ==
  ASSUME HierarchyIInv, NEW e \in Entity, NEW c \in Component, NEW bit \in {"off", "on"},
         emplace(e, c, bit) \/ set_active(e, c, bit)
  PROVE  HierarchyIInv' /\ ActivityStep
<1>1. row' = [row EXCEPT ![e][c] = bit] /\ Idle
      /\ life' = life /\ adopted' = adopted /\ node' = node /\ local' = local /\ despawning' = despawning
  BY DEF emplace, set_active, treeVars, transformVars
<1>2. row' \in [Entity -> [Component -> RowState]]
  BY <1>1 DEF HierarchyIInv, RowsRight, RowState
<1>3. RowsRight'
  BY <1>1, <1>2 DEF HierarchyIInv, RowsRight, Alive
<1>4. HierarchyIInv'
  BY <1>1, <1>3, IdleFlight DEF HierarchyIInv
<1>5. \A d \in adopted \cap adopted' :
        /\ node' # node => PatternOf(node', row', d) = PatternOf(node, row, d)
        /\ ~(node[d].dormant_depth = 0 /\ node'[d].dormant_depth > 0)
  <2>1. \A d \in adopted : node[d].dormant_depth = 0 => ~(node[d].dormant_depth > 0)
    OBVIOUS
  <2>. QED BY <1>1, <2>1
<1>. QED BY <1>4, <1>5, Members, ActivityOf

\* despawn: the first call in flight.
LEMMA DespawnStep ==
  ASSUME HierarchyIInv, NEW e \in Entity, despawn(e)
  PROVE  HierarchyIInv' /\ ActivityStep
<1>1. despawning' = <<e>> /\ e \in Alive
      /\ life' = life /\ adopted' = adopted /\ node' = node /\ row' = row /\ local' = local
  BY DEF despawn, treeVars, transformVars
<1>2. despawning' \in Seq(Entity) /\ DOMAIN despawning' = {1} /\ despawning'[1] = e
  BY <1>1
<1>3. RowsRight'
  BY <1>1, <1>2 DEF HierarchyIInv, RowsRight, Alive
<1>4. InFlight'
  BY <1>2 DEF InFlight
<1>5. HierarchyIInv'
  BY <1>1, <1>3, <1>4 DEF HierarchyIInv
<1>. QED BY <1>1, <1>5, Members, QuietActivity DEF SameCover

\* The facts about the victim a cascade acts on.
LEMMA VictimFacts ==
  ASSUME HierarchyIInv, ~Idle
  PROVE  /\ Len(despawning) \in Nat /\ Len(despawning) > 0 /\ Victim = despawning[Len(despawning)]
         /\ DOMAIN despawning = 1 .. Len(despawning) /\ Len(despawning) \in DOMAIN despawning
         /\ Victim \in Entity /\ Victim \in Alive /\ Victim \in Ends
<1>1. despawning \in Seq(Entity) /\ \A k \in DOMAIN despawning : despawning[k] \in Alive
  BY DEF HierarchyIInv, RowsRight
<1>2. despawning # <<>>
  BY DEF Idle
<1>3. Len(despawning) \in Nat /\ Len(despawning) > 0 /\ DOMAIN despawning = 1 .. Len(despawning)
  BY <1>1, <1>2
<1>4. Victim = despawning[Len(despawning)]
  BY DEF Victim, Last
<1>. QED BY <1>1, <1>3, <1>4 DEF Alive, Ends

\* The first child of the victim is alive, and no call for it is in flight:
\* from it the path up would otherwise come back to it.
LEMMA ChildIsNew ==
  ASSUME HierarchyIInv, ~Idle, HasChild
  PROVE  LET c == node[Victim].first_child
         IN  /\ c \in adopted /\ c \in Alive /\ node[c].parent = Victim
             /\ \A k \in DOMAIN despawning : despawning[k] # c
<1> DEFINE c == node[Victim].first_child
           L == Len(despawning)
<1>1. /\ L \in Nat /\ L > 0 /\ Victim = despawning[L] /\ DOMAIN despawning = 1 .. L
      /\ Victim \in Entity /\ Victim \in Ends
  BY VictimFacts
<1>2. c # NULL /\ c \in adopted /\ node[c].parent = Victim /\ UpEnds(node, adopted)
  BY <1>1 DEF HasChild, HierarchyIInv, Good, Tree, Inside, Headed
<1>3. c \in Alive
  BY <1>2 DEF HierarchyIInv, RowsRight
<1>4. ASSUME NEW k \in DOMAIN despawning, despawning[k] = c PROVE FALSE
  <2> DEFINE S == {despawning[j] : j \in k .. L}
  <2>0. \A j \in DOMAIN despawning : j > 1 => node[despawning[j]].parent = despawning[j - 1]
    BY DEF HierarchyIInv, InFlight
  <2>1. ASSUME NEW x \in S PROVE node[x].parent \in S
    <3>1. PICK j \in k .. L : x = despawning[j]
      OBVIOUS
    <3>2. CASE j = k
      BY <1>1, <1>2, <1>4, <3>1, <3>2
    <3>3. CASE j # k
      <4>1. j \in DOMAIN despawning /\ j > 1 /\ j - 1 \in k .. L
        BY <1>1, <3>3
      <4>. QED BY <2>0, <3>1, <4>1
    <3>. QED BY <3>2, <3>3
  <2>2. \A x \in S : x \in Ends
    BY <1>1 DEF HierarchyIInv, RowsRight, Ends
  <2>3. S \in SUBSET adopted
    <3>1. \A x \in S : x \in Entity
      BY <1>1 DEF HierarchyIInv, RowsRight
    <3>2. \A x \in Entity : x \in Ends /\ x # NULL
      BY Members DEF Ends
    <3>3. \A x \in Ends : x \notin adopted => node[x].parent = NULL
      BY DEF HierarchyIInv, Good, Tree, Inside
    <3>. HIDE DEF S
    <3>. QED BY <2>1, <3>1, <3>2, <3>3
  <2>4. c \in S
    BY <1>1, <1>4
  <2>. HIDE DEF S
  <2>. QED BY <1>2, <2>1, <2>3, <2>4 DEF UpEnds
<1>. QED BY <1>2, <1>3, <1>4

\* cascade: one call deeper.
LEMMA CascadeStep ==
  ASSUME HierarchyIInv, cascade
  PROVE  HierarchyIInv' /\ ActivityStep
<1> DEFINE c == node[Victim].first_child
           L == Len(despawning)
<1>1. /\ ~Idle /\ HasChild /\ despawning' = Append(despawning, c)
      /\ life' = life /\ adopted' = adopted /\ node' = node /\ row' = row /\ local' = local
  BY DEF cascade, treeVars, transformVars
<1>2. /\ L \in Nat /\ L > 0 /\ Victim = despawning[L] /\ DOMAIN despawning = 1 .. L
  BY <1>1, VictimFacts
<1>3. /\ c \in Alive /\ node[c].parent = Victim /\ \A k \in DOMAIN despawning : despawning[k] # c
  BY <1>1, ChildIsNew
<1>. HIDE DEF c
<1>4. /\ despawning \in Seq(Entity) /\ \A k \in DOMAIN despawning : despawning[k] \in Alive
      /\ \A k \in DOMAIN despawning : k > 1 => node[despawning[k]].parent = despawning[k - 1]
      /\ \A i, j \in DOMAIN despawning : despawning[i] = despawning[j] => i = j
  BY DEF HierarchyIInv, RowsRight, InFlight
<1>5. /\ despawning' \in Seq(Entity) /\ DOMAIN despawning' = 1 .. L + 1
      /\ despawning'[L + 1] = c /\ \A k \in 1 .. L : despawning'[k] = despawning[k]
  BY <1>1, <1>2, <1>3, <1>4 DEF Alive
<1>. HIDE DEF L
<1>6. \A k \in DOMAIN despawning' : despawning'[k] \in Alive
  <2>1. ASSUME NEW k \in 1 .. L + 1 PROVE despawning'[k] \in Alive
    <3>1. k \in 1 .. L \/ k = L + 1
      BY <1>2
    <3>. QED BY <1>2, <1>3, <1>4, <1>5, <3>1
  <2>. QED BY <1>5, <2>1
<1>7. RowsRight'
  BY <1>1, <1>5, <1>6 DEF HierarchyIInv, RowsRight, Alive
<1>8. ASSUME NEW k \in DOMAIN despawning', k > 1
      PROVE  node[despawning'[k]].parent = despawning'[k - 1]
  <2>1. CASE k = L + 1
    BY <1>2, <1>3, <1>5, <2>1
  <2>2. CASE k # L + 1
    <3>1. k \in 1 .. L /\ k - 1 \in 1 .. L
      BY <1>2, <1>5, <1>8, <2>2
    <3>. QED BY <1>2, <1>4, <1>5, <1>8, <3>1
  <2>. QED BY <2>1, <2>2
<1>9. ASSUME NEW i \in DOMAIN despawning', NEW j \in DOMAIN despawning', despawning'[i] = despawning'[j]
      PROVE  i = j
  <2>1. (i \in 1 .. L \/ i = L + 1) /\ (j \in 1 .. L \/ j = L + 1)
    BY <1>2, <1>5
  <2>. QED BY <1>2, <1>3, <1>4, <1>5, <1>9, <2>1
<1>10. InFlight'
  BY <1>1, <1>8, <1>9 DEF InFlight
<1>11. HierarchyIInv'
  BY <1>1, <1>7, <1>10 DEF HierarchyIInv
<1>. QED BY <1>1, <1>11, Members, QuietActivity DEF SameCover

\* rebuild_order reads the tree.
LEMMA RebuildStep ==
  ASSUME HierarchyIInv, rebuild_order
  PROVE  HierarchyIInv' /\ ActivityStep
<1>1. /\ Idle /\ life' = life /\ adopted' = adopted /\ node' = node /\ row' = row /\ local' = local
      /\ despawning' = despawning
  BY DEF rebuild_order, treeVars, transformVars
<1>2. RowsRight'
  BY <1>1 DEF HierarchyIInv, RowsRight, Alive
<1>3. HierarchyIInv'
  BY <1>1, <1>2, IdleFlight DEF HierarchyIInv
<1>. QED BY <1>1, <1>3, Members, QuietActivity DEF SameCover

\* What propagate leaves of the marks.
Clean(n, fresh, open) ==
  [e \in DOMAIN n |->
     [n[e] EXCEPT !.transform_dirty = @ /\ e \notin fresh,
                  !.transform_dirty_below = @ /\ e \notin open]]
Cleaned(n, m, fresh, open) ==
  /\ m \in Nodes
  /\ \A d \in Ends :
       /\ SameLinks(n, m, d) /\ SameCover(n, m, d)
       /\ m[d].transform_dirty = (n[d].transform_dirty /\ d \notin fresh)
       /\ m[d].transform_dirty_below = (n[d].transform_dirty_below /\ d \notin open)

\* Two bits go, every other field stays.
LEMMA CleanFields ==
  ASSUME NEW n \in Nodes, NEW fresh, NEW open
  PROVE  Cleaned(n, Clean(n, fresh, open), fresh, open)
<1> DEFINE m == Clean(n, fresh, open)
           set(d) == [n[d] EXCEPT !.transform_dirty = @ /\ d \notin fresh,
                                  !.transform_dirty_below = @ /\ d \notin open]
<1>1. m = [d \in Ends |-> set(d)]
  BY DEF Nodes, Clean
<1>. HIDE DEF m
<1>2. ASSUME NEW d \in Ends
      PROVE  /\ m[d] \in NodeType /\ SameLinks(n, m, d) /\ SameCover(n, m, d)
             /\ m[d].transform_dirty = (n[d].transform_dirty /\ d \notin fresh)
             /\ m[d].transform_dirty_below = (n[d].transform_dirty_below /\ d \notin open)
  <2>1. PICK r \in NodeType : r = n[d]
    BY DEF Nodes
  <2>2. PICK t \in BOOLEAN : t = (r.transform_dirty /\ d \notin fresh)
    OBVIOUS
  <2>3. PICK b \in BOOLEAN : b = (r.transform_dirty_below /\ d \notin open)
    OBVIOUS
  <2>4. m[d] = [r EXCEPT !.transform_dirty = t, !.transform_dirty_below = b]
    <3>1. m[d] = set(d)
      BY <1>1
    <3>2. set(d) = [r EXCEPT !.transform_dirty = r.transform_dirty /\ d \notin fresh,
                            !.transform_dirty_below = r.transform_dirty_below /\ d \notin open]
      BY <2>1 DEF NodeType
    <3>. HIDE DEF set
    <3>. QED BY <2>2, <2>3, <3>1, <3>2
  <2>5. /\ m[d] \in NodeType /\ SameLinks(n, m, d) /\ SameCover(n, m, d)
        /\ m[d].transform_dirty = t /\ m[d].transform_dirty_below = b
    BY <2>1, <2>4 DEF NodeType, SameLinks, SameCover
  <2>. QED BY <2>1, <2>2, <2>3, <2>5, Zenon
<1>3. m \in Nodes
  <2>1. m = [d \in Ends |-> m[d]]
    BY <1>1
  <2>. HIDE DEF set
  <2>. QED BY <1>2, <2>1 DEF Nodes
<1>. QED BY <1>2, <1>3 DEF Cleaned, m

\* Cleaning keeps the tree, the counts and the captures.
LEMMA GoodCleaned ==
  ASSUME NEW n, NEW A, Good(n, A), NEW fresh, NEW open, NEW m, Cleaned(n, m, fresh, open)
  PROVE  Good(m, A)
<1>0. A \subseteq Entity /\ A \subseteq Ends /\ NULL \in Ends /\ \A d \in A : n[d].parent \in Ends
  BY DEF Good, Tree, Inside, Ends
<1>2. m \in Nodes /\ \A d \in Ends : SameLinks(n, m, d) /\ SameCover(n, m, d)
  BY DEF Cleaned
<1>3. Tree(m, A, NULL)
  BY <1>2, SameTree DEF Good
<1>4. \A d \in Ends :
        /\ m[d].parent = n[d].parent
        /\ m[d].dormant_depth = n[d].dormant_depth /\ m[d].deactivated = n[d].deactivated
        /\ m[d].saved = n[d].saved
  BY <1>2 DEF SameLinks, SameCover
<1>5. CoverRight(m, A)
  <2>1. n[NULL].dormant_depth = 0 /\ (\A d \in Ends : n[d].dormant_depth \in Nat) /\ \A d \in A : Grows(n, d)
    BY DEF Good, CoverRight
  <2>2. \A d \in A : Grows(m, d)
    BY <1>0, <1>4, <2>1 DEF Grows
  <2>. QED BY <1>0, <1>4, <2>1, <2>2 DEF CoverRight
<1>6. Uncaptured(m, A)
  BY <1>0, <1>4 DEF Good, Uncaptured
<1>7. Blank(m, A)
  <2>. SUFFICES ASSUME NEW d \in Entity \ A
                PROVE  /\ m[d].dormant_depth = 0 /\ m[d].deactivated = FALSE /\ m[d].saved = NoRows
                       /\ m[d].transform_dirty = FALSE /\ m[d].transform_dirty_below = FALSE
    BY DEF Blank
  <2>1. /\ n[d].dormant_depth = 0 /\ n[d].deactivated = FALSE /\ n[d].saved = NoRows
        /\ n[d].transform_dirty = FALSE /\ n[d].transform_dirty_below = FALSE
    BY DEF Good, Blank
  <2>2. d \in Ends
    BY DEF Ends
  <2>3. m[d].transform_dirty = (n[d].transform_dirty /\ d \notin fresh)
        /\ m[d].transform_dirty_below = (n[d].transform_dirty_below /\ d \notin open)
    BY <2>2 DEF Cleaned
  <2>4. m[d].transform_dirty = FALSE /\ m[d].transform_dirty_below = FALSE
    BY <2>1, <2>3, Zenon
  <2>. QED BY <1>4, <2>1, <2>2, <2>4
<1>. QED BY <1>3, <1>5, <1>6, <1>7 DEF Good

\* propagate: marks go, matrices come.
LEMMA PropagateStep ==
  ASSUME HierarchyIInv, propagate
  PROVE  HierarchyIInv' /\ ActivityStep
<1>1. /\ Idle /\ life' = life /\ adopted' = adopted /\ row' = row /\ local' = local
      /\ despawning' = despawning
  BY DEF propagate
<1>2. PICK fresh, open : Cleaned(node, node', fresh, open)
  <2>1. node' = Clean(node, Propagated.fresh, Propagated.open)
    BY DEF propagate, Clean
  <2>. QED BY <2>1, Members, CleanFields
<1>3. Good(node', adopted')
  BY <1>1, <1>2, GoodCleaned DEF HierarchyIInv
<1>4. RowsRight'
  BY <1>1 DEF HierarchyIInv, RowsRight, Alive
<1>5. HierarchyIInv'
  BY <1>1, <1>3, <1>4, IdleFlight DEF HierarchyIInv
<1>6. \A d \in Ends : SameCover(node, node', d)
  BY <1>2 DEF Cleaned
<1>. QED BY <1>1, <1>5, <1>6, Members, QuietActivity

\* set_local: a new local transform, and marks up the path.
LEMMA SetLocalStep ==
  ASSUME HierarchyIInv, NEW e \in Entity, NEW l \in Local, set_local(e, l)
  PROVE  HierarchyIInv' /\ ActivityStep
<1>1. /\ Idle /\ e \in adopted /\ life' = life /\ adopted' = adopted /\ row' = row
      /\ local' = [local EXCEPT ![e] = l] /\ node' = mark_transform_dirty(node, e)
      /\ despawning' = despawning
  BY DEF set_local
<1>2. Good(node', adopted') /\ Marked(node, node', e)
  BY <1>1, GoodMarked DEF HierarchyIInv
<1>3. RowsRight'
  BY <1>1 DEF HierarchyIInv, RowsRight, Alive
<1>4. HierarchyIInv'
  BY <1>1, <1>2, <1>3, IdleFlight DEF HierarchyIInv
<1>5. \A d \in Ends : SameCover(node, node', d)
  BY <1>2 DEF Marked
<1>. QED BY <1>1, <1>4, <1>5, Members, QuietActivity

\* adopt: a new last root.
LEMMA AdoptStep ==
  ASSUME HierarchyIInv, NEW e \in Entity, adopt(e)
  PROVE  HierarchyIInv' /\ ActivityStep
<1>1. /\ Idle /\ e \in Alive /\ e \notin adopted /\ adopted' = adopted \cup {e}
      /\ node' = adopt_node(node, e)
      /\ life' = life /\ row' = row /\ local' = local /\ despawning' = despawning
  BY DEF adopt
<1>2. Good(node', adopted') /\ Adopted(node, node', e)
  BY <1>1, GoodAdopted DEF HierarchyIInv
<1>3. RowsRight'
  BY <1>1 DEF HierarchyIInv, RowsRight, Alive
<1>4. HierarchyIInv'
  BY <1>1, <1>2, <1>3, IdleFlight DEF HierarchyIInv
<1>5. \A d \in Ends : SameCover(node, node', d)
  BY <1>2 DEF Adopted
<1>. QED BY <1>1, <1>4, <1>5, Members, QuietActivity

\* activate and deactivate: the flag of a scope root, and the delta below it.
LEMMA ScopeStep ==
  ASSUME HierarchyIInv, NEW e \in Entity, activate(e) \/ deactivate(e)
  PROVE  HierarchyIInv' /\ ActivityStep
<1>1. PICK delta \in {1, -1} : /\ scope(e, delta) /\ Idle /\ e \in adopted
                               /\ (node[e].deactivated = TRUE <=> delta = -1)
  BY Members DEF activate, deactivate, Nodes, NodeType, Ends
<1> DEFINE f == [node EXCEPT ![e].deactivated = delta > 0]
           S == collect_subtree(f, e)
<1>2. /\ node' = covered(f, S, delta) /\ row' = toggled(f, S, delta)
      /\ life' = life /\ adopted' = adopted /\ local' = local /\ despawning' = despawning
  BY <1>1 DEF scope, transformVars
<1>3. Flagged(node, f, e, delta > 0)
  <2>1. (delta > 0) \in BOOLEAN
    OBVIOUS
  <2>. QED BY <2>1, Members, FlagFields
<1>. HIDE DEF f
<1>4. f \in Nodes /\ \A d \in Ends :
        /\ SameLinks(node, f, d) /\ SameMarks(node, f, d)
        /\ f[d].dormant_depth = node[d].dormant_depth /\ f[d].saved = node[d].saved
        /\ f[d].deactivated = IF d = e THEN delta > 0 ELSE node[d].deactivated
  BY <1>3 DEF Flagged
<1>5. Tree(f, adopted, NULL)
  BY <1>4, Members, SameTree
<1>6. S \in SUBSET Entity /\ delta \in Int /\ row \in [Entity -> [Component -> RowState]]
  BY <1>1, <1>5, Subtree, Members DEF HierarchyIInv, RowsRight
<1>7. Covered(f, node', S, delta) /\ Toggled(f, row', S, delta)
  BY <1>2, <1>4, <1>6, CoveredFields, ToggledRows
<1>8. /\ node[NULL].dormant_depth = 0 /\ (\A d \in Ends : node[d].dormant_depth \in Nat)
      /\ \A d \in adopted : Grows(node, d)
      /\ Uncaptured(node, adopted) /\ Blank(node, adopted)
  BY DEF HierarchyIInv, Good, CoverRight
<1>9. \A d \in Ends : f[d].parent = node[d].parent
  BY <1>4 DEF SameLinks
<1>10. /\ f[NULL].dormant_depth = 0 /\ (\A d \in Ends : f[d].dormant_depth \in Nat)
       /\ \A d \in adopted \ {e} : Grows(f, d)
       /\ f[e].dormant_depth + delta = f[f[e].parent].dormant_depth + (IF f[e].deactivated THEN 1 ELSE 0)
  <2>0. \A d \in adopted : node[d].parent \in Ends /\ d \in Ends
    BY Members DEF Ends
  <2>1. f[NULL].dormant_depth = 0 /\ (\A d \in Ends : f[d].dormant_depth \in Nat)
    BY <1>4, <1>8, Members
  <2>2. \A d \in adopted \ {e} : Grows(f, d)
    BY <1>4, <1>8, <1>9, <2>0 DEF Grows
  <2>3. f[e].dormant_depth = node[e].dormant_depth /\ f[f[e].parent].dormant_depth = node[node[e].parent].dormant_depth
        /\ f[e].deactivated = (delta > 0)
        /\ node[e].dormant_depth \in Nat /\ node[node[e].parent].dormant_depth \in Nat
    BY <1>1, <1>4, <1>8, <1>9, <2>0
  <2>4. node[e].dormant_depth = node[node[e].parent].dormant_depth + (IF node[e].deactivated THEN 1 ELSE 0)
    BY <1>1, <1>8 DEF Grows
  <2>5. node[e].deactivated \in BOOLEAN
    BY <1>1, <2>0, Members DEF Nodes, NodeType
  <2>6. CASE delta = 1
    <3>1. f[e].deactivated = TRUE /\ node[e].deactivated = FALSE
      <4>1. delta > 0 /\ delta # -1
        BY <2>6
      <4>2. f[e].deactivated = TRUE
        BY <2>3, <4>1, Zenon
      <4>3. node[e].deactivated = FALSE
        BY <1>1, <2>5, <4>1, Zenon
      <4>. QED BY <4>2, <4>3
    <3>2. f[e].dormant_depth + delta = f[f[e].parent].dormant_depth + 1
      <4>1. (IF node[e].deactivated THEN 1 ELSE 0) = 0
        BY <3>1, Zenon
      <4>. QED BY <2>3, <2>4, <2>6, <4>1
    <3>3. (IF f[e].deactivated THEN 1 ELSE 0) = 1
      BY <3>1, Zenon
    <3>. QED BY <2>1, <2>2, <3>2, <3>3, Zenon
  <2>7. CASE delta = -1
    <3>1. f[e].deactivated = FALSE /\ node[e].deactivated = TRUE
      <4>1. (delta > 0) = FALSE
        BY <2>7
      <4>2. f[e].deactivated = FALSE
        BY <2>3, <4>1, Zenon
      <4>3. node[e].deactivated = TRUE
        BY <1>1, <2>7, Zenon
      <4>. QED BY <4>2, <4>3
    <3>2. f[e].dormant_depth + delta = f[f[e].parent].dormant_depth + 0
      <4>1. (IF node[e].deactivated THEN 1 ELSE 0) = 1
        BY <3>1, Zenon
      <4>. QED BY <2>3, <2>4, <2>7, <4>1
    <3>3. (IF f[e].deactivated THEN 1 ELSE 0) = 0
      BY <3>1, Zenon
    <3>. QED BY <2>1, <2>2, <3>2, <3>3, Zenon
  <2>. QED BY <2>1, <2>2, <2>6, <2>7
<1>11. Uncaptured(f, adopted)
  BY <1>4, <1>8, Members DEF Uncaptured
<1>12. Blank(f, adopted)
  <2>. SUFFICES ASSUME NEW d \in Entity \ adopted
                PROVE  /\ f[d].dormant_depth = 0 /\ f[d].deactivated = FALSE /\ f[d].saved = NoRows
                       /\ f[d].transform_dirty = FALSE /\ f[d].transform_dirty_below = FALSE
    BY DEF Blank
  <2>1. d \in Ends /\ d # e
    BY <1>1 DEF Ends
  <2>. QED BY <1>4, <1>8, <2>1 DEF Blank, SameMarks
<1>13. Good(node', adopted)
  BY <1>1, <1>5, <1>6, <1>7, <1>10, <1>11, <1>12, GoodCovered
<1>14. RowsRight'
  BY <1>2, <1>7 DEF HierarchyIInv, RowsRight, Alive, Toggled
<1>15. HierarchyIInv'
  BY <1>1, <1>2, <1>13, <1>14, IdleFlight DEF HierarchyIInv
<1>16. ASSUME NEW d \in adopted
       PROVE  /\ PatternOf(node', row', d) = PatternOf(node, row, d)
              /\ node[d].dormant_depth = 0 /\ node'[d].dormant_depth > 0 =>
                   \A c \in Component : row'[d][c] # "on"
  <2>1. d \in Entity /\ d \in Ends
    BY Members
  <2>2. f[d].dormant_depth \in Nat /\ (f[d].dormant_depth = 0 => f[d].saved = NoRows)
    BY <1>10, <1>11, <2>1 DEF Uncaptured
  <2>3. /\ PatternOf(node', row', d) = PatternOf(f, row, d)
        /\ f[d].dormant_depth = 0 /\ node'[d].dormant_depth > 0 => \A c \in Component : row'[d][c] # "on"
    <3>. HIDE DEF S
    <3>1. S \in SUBSET Entity /\ f \in Nodes /\ Covered(f, node', S, delta) /\ Toggled(f, row', S, delta)
      BY <1>4, <1>6, <1>7
    <3>. QED BY <1>6, <2>1, <2>2, <3>1, CoveredPattern
  <2>4. PatternOf(f, row, d) = PatternOf(node, row, d)
    BY <1>4, <2>1, SamePattern
  <2>. QED BY <1>4, <2>1, <2>3, <2>4
<1>. QED BY <1>15, <1>16, Members, ActivityOf

-----------------------------------------------------------------------------
\* A stranger that joins before a move, or nobody.
LEMMA GoodEntered ==
  ASSUME NEW n, NEW A, Good(n, A), NEW e \in Ends
  PROVE  LET m == IF e \notin A \cup {NULL} THEN adopt_node(n, e) ELSE n
         IN  /\ Good(m, A \cup ({e} \ {NULL}))
             /\ \A d \in Ends : SameCover(n, m, d)
<1> DEFINE m == IF e \notin A \cup {NULL} THEN adopt_node(n, e) ELSE n
           B == A \cup ({e} \ {NULL})
<1>1. CASE e \notin A \cup {NULL}
  <2>1. e \in Entity \ A /\ B = A \cup {e} /\ m = adopt_node(n, e)
    BY <1>1 DEF Ends
  <2>2. Good(adopt_node(n, e), A \cup {e}) /\ Adopted(n, adopt_node(n, e), e)
    BY <2>1, GoodAdopted
  <2>. QED BY <2>1, <2>2 DEF Adopted
<1>2. CASE e \in A \cup {NULL}
  <2>1. m = n /\ B = A
    BY <1>2
  <2>. QED BY <2>1 DEF SameCover
<1>. QED BY <1>1, <1>2

\* A move below a node outside the moved subtree, with the delta of the two
\* covers applied to that subtree.
LEMMA GoodMoved ==
  ASSUME NEW n, NEW A, Good(n, A), NEW e \in A, NEW p \in A \cup {NULL},
         p # NULL => ~subtree_contains(n, e, p),
         row \in [Entity -> [Component -> RowState]]
  PROVE  LET delta == n[p].dormant_depth - n[n[e].parent].dormant_depth
             m == link_last(unlink(n, e), e, p)
             S == IF delta = 0 THEN {} ELSE collect_subtree(m, e)
         IN  /\ delta \in Int /\ S \in SUBSET Entity
             /\ m \in Nodes /\ \A d \in Ends : SameCover(n, m, d)
             /\ Good(covered(m, S, delta), A) /\ Covered(m, covered(m, S, delta), S, delta)
             /\ Uncaptured(m, A) /\ MovedBelow(n, m, e, p)
<1> DEFINE delta == n[p].dormant_depth - n[n[e].parent].dormant_depth
           m == link_last(unlink(n, e), e, p)
           S == IF delta = 0 THEN {} ELSE collect_subtree(m, e)
<1>. delta = n[p].dormant_depth - n[n[e].parent].dormant_depth
  OBVIOUS
<1>. S = IF delta = 0 THEN {} ELSE collect_subtree(m, e)
  OBVIOUS
<1>. HIDE DEF delta, S
<1>0. /\ NULL \notin Entity /\ A \subseteq Entity /\ A \subseteq Ends /\ NULL \in Ends /\ e \in Ends /\ p \in Ends
      /\ Entity \subseteq Ends /\ \A d \in A : n[d].parent \in Ends
  BY HierarchyAssumption DEF Good, Tree, Inside, Ends
<1>1. Tree(m, A, NULL) /\ MovedBelow(n, m, e, p)
  BY MoveTree DEF Good, m
<1>. HIDE DEF m
<1>2. /\ n[NULL].dormant_depth = 0 /\ (\A d \in Ends : n[d].dormant_depth \in Nat)
      /\ (\A d \in A : Grows(n, d)) /\ Uncaptured(n, A) /\ Blank(n, A)
  BY DEF Good, CoverRight
<1>3. m \in Nodes /\ \A d \in Ends :
        /\ m[d].parent = IF d = e THEN p ELSE n[d].parent
        /\ SameCover(n, m, d) /\ SameMarks(n, m, d)
  BY <1>1 DEF MovedBelow
<1>4. \A d \in Ends :
        /\ m[d].dormant_depth = n[d].dormant_depth /\ m[d].deactivated = n[d].deactivated
        /\ m[d].saved = n[d].saved
        /\ m[d].transform_dirty = n[d].transform_dirty
        /\ m[d].transform_dirty_below = n[d].transform_dirty_below
  BY <1>3 DEF SameCover, SameMarks
<1>5. delta \in Int
  BY <1>0, <1>2
<1>6. S \in SUBSET Entity
  <2>1. collect_subtree(m, e) \in SUBSET A
    BY <1>1, Subtree
  <2>. QED BY <1>0, <2>1
<1>7. Covered(m, covered(m, S, delta), S, delta)
  BY <1>3, <1>5, <1>6, CoveredFields
<1>8. m[NULL].dormant_depth = 0 /\ \A d \in Ends : m[d].dormant_depth \in Nat
  BY <1>0, <1>2, <1>4
<1>9. \A d \in A \ {e} : Grows(m, d)
  BY <1>0, <1>2, <1>3, <1>4 DEF Grows
<1>10. m[e].dormant_depth + delta = m[m[e].parent].dormant_depth + (IF m[e].deactivated THEN 1 ELSE 0)
  <2>1. n[e].dormant_depth = n[n[e].parent].dormant_depth + (IF n[e].deactivated THEN 1 ELSE 0)
    BY <1>2 DEF Grows
  <2>2. m[e].parent = p /\ m[e].dormant_depth = n[e].dormant_depth /\ m[p].dormant_depth = n[p].dormant_depth
        /\ m[e].deactivated = n[e].deactivated
    BY <1>0, <1>3, <1>4
  <2>3. PICK i \in {0, 1} : i = IF n[e].deactivated THEN 1 ELSE 0
    OBVIOUS
  <2>4. i = IF m[e].deactivated THEN 1 ELSE 0
    BY <2>2, <2>3, Zenon
  <2>5. n[e].dormant_depth = n[n[e].parent].dormant_depth + i
    BY <2>1, <2>3, Zenon
  <2>6. n[e].dormant_depth + delta = n[p].dormant_depth + i
    BY <1>0, <1>2, <2>5
  <2>. QED BY <2>2, <2>4, <2>6, Zenon
<1>11. Uncaptured(m, A)
  BY <1>0, <1>2, <1>4 DEF Uncaptured
<1>12. Blank(m, A)
  BY <1>0, <1>2, <1>4 DEF Blank
<1>13. Good(covered(m, S, delta), A)
  <2>1. CASE delta # 0
    <3>1. S = collect_subtree(m, e)
      BY <2>1
    <3>2. Covered(m, covered(m, S, delta), collect_subtree(m, e), delta)
      BY <1>7, <3>1
    <3> DEFINE k == covered(m, S, delta)
    <3>. HIDE DEF k
    <3>. QED BY <1>1, <1>5, <1>8, <1>9, <1>10, <1>11, <1>12, <3>2, GoodCovered
  <2>2. CASE delta = 0
    <3> DEFINE k == covered(m, S, delta)
    <3>0. S = {}
      BY <2>2
    <3>1. k \in Nodes /\ \A d \in Ends : SameLinks(m, k, d) /\ SameMarks(m, k, d) /\ SameCover(m, k, d)
      BY <1>7, <3>0 DEF Covered, SameCover
    <3>2. k = m
      BY <3>0, <1>3 DEF covered, Nodes
    <3>3. Grows(m, e)
      <4>1. m[e].dormant_depth \in Nat
        BY <1>0, <1>8
      <4>2. m[e].dormant_depth + delta = m[e].dormant_depth
        BY <2>2, <4>1
      <4>. QED BY <1>10, <4>2, Zenon DEF Grows
    <3>4. Good(m, A)
      BY <1>1, <1>8, <1>9, <1>11, <1>12, <3>3 DEF Good, CoverRight
    <3>. QED BY <3>2, <3>4
  <2>. QED BY <2>1, <2>2
<1>. QED BY <1>1, <1>3, <1>5, <1>6, <1>7, <1>11, <1>13 DEF delta, m, S

\* apply_reparent: the strangers join, and the child moves with its subtree
\* unless the new parent is below it.
LEMMA ReparentStep ==
  ASSUME HierarchyIInv, NEW child \in Entity, NEW p \in Entity \cup {NULL}, apply_reparent(child, p)
  PROVE  HierarchyIInv' /\ ActivityStep
<1> DEFINE strangers == {child, p} \ (adopted \cup {NULL})
           B == adopted \cup {child}
           C == adopted \cup {child} \cup ({p} \ {NULL})
           entered == IF child \notin adopted \cup {NULL} THEN adopt_node(node, child) ELSE node
           n == IF p \notin B \cup {NULL} THEN adopt_node(entered, p) ELSE entered
           cycle == p # NULL /\ subtree_contains(n, child, p)
<1>1. /\ Idle /\ child \in Alive /\ p \in Alive \cup {NULL}
      /\ IF cycle THEN node' = n /\ row' = row ELSE reparent_to(n, child, p)
      /\ adopted' = C /\ life' = life /\ local' = local /\ despawning' = despawning
  <2>1. strangers \cup adopted = C
    BY Members DEF apply_reparent, Alive
  <2>2. entered = IF child \in strangers THEN adopt_node(node, child) ELSE node
    OBVIOUS
  <2>3. n = IF p \in strangers \ {child} THEN adopt_node(entered, p) ELSE entered
    OBVIOUS
  <2>. HIDE DEF entered, n, C
  <2>. QED BY <2>1, <2>2, <2>3 DEF apply_reparent
<1>2. /\ NULL \notin Entity /\ child \in Ends /\ p \in Ends /\ adopted \subseteq Entity
      /\ node \in Nodes /\ Good(node, adopted) /\ adopted \subseteq Ends
      /\ row \in [Entity -> [Component -> RowState]]
  BY Members DEF Ends, HierarchyIInv, RowsRight
<1>3. Good(entered, B) /\ \A d \in Ends : SameCover(node, entered, d)
  <2>1. B = adopted \cup ({child} \ {NULL})
    BY <1>2
  <2>. QED BY <1>2, <2>1, GoodEntered
<1>. HIDE DEF entered
<1>4. Good(n, C) /\ \A d \in Ends : SameCover(entered, n, d)
  <2>1. C = B \cup ({p} \ {NULL})
    OBVIOUS
  <2>. HIDE DEF B, C
  <2>. QED BY <1>2, <1>3, <2>1, GoodEntered
<1>. HIDE DEF n
<1>5. child \in C /\ p \in C \cup {NULL} /\ C \subseteq Entity /\ adopted \subseteq C
  BY <1>2
<1>. HIDE DEF C
<1>6. C \subseteq Alive
  BY <1>1, <1>2 DEF HierarchyIInv, RowsRight, C
<1>7. \A d \in Ends : SameCover(node, n, d)
  BY <1>3, <1>4 DEF SameCover
<1>8. CASE cycle
  <2>1. node' = n /\ row' = row
    BY <1>1, <1>8
  <2>2. RowsRight'
    BY <1>1, <1>6, <2>1 DEF HierarchyIInv, RowsRight, Alive
  <2>3. HierarchyIInv'
    BY <1>1, <1>4, <2>1, <2>2, IdleFlight DEF HierarchyIInv
  <2>. QED BY <1>2, <1>7, <2>1, <2>3, QuietActivity
<1>9. CASE ~cycle
  <2> DEFINE delta == n[p].dormant_depth - n[n[child].parent].dormant_depth
             m == link_last(unlink(n, child), child, p)
             S == IF delta = 0 THEN {} ELSE collect_subtree(m, child)
             k == covered(m, S, delta)
  <2>1. node' = mark_transform_dirty(k, child) /\ row' = toggled(m, S, delta)
    BY <1>1, <1>9 DEF reparent_to
  <2>2. /\ delta \in Int /\ S \in SUBSET Entity
        /\ m \in Nodes /\ \A d \in Ends : SameCover(n, m, d)
        /\ Good(k, C) /\ Covered(m, k, S, delta) /\ Uncaptured(m, C)
    BY <1>2, <1>4, <1>5, <1>9, GoodMoved
  <2>. HIDE DEF m, S, delta, k
  <2>3. Good(node', C) /\ Marked(k, node', child)
    BY <1>5, <2>1, <2>2, GoodMarked
  <2>4. Toggled(m, row', S, delta)
    BY <1>2, <2>1, <2>2, ToggledRows
  <2>5. RowsRight'
    BY <1>1, <1>6, <2>4 DEF HierarchyIInv, RowsRight, Alive, Toggled
  <2>6. HierarchyIInv'
    BY <1>1, <2>3, <2>5, IdleFlight DEF HierarchyIInv
  <2>7. ASSUME NEW d \in adopted
        PROVE  /\ PatternOf(node', row', d) = PatternOf(node, row, d)
               /\ node[d].dormant_depth = 0 /\ node'[d].dormant_depth > 0 =>
                    \A c \in Component : row'[d][c] # "on"
    <3>1. d \in Entity /\ d \in Ends /\ d \in C
      BY <1>2, <1>5
    <3>2. m[d].dormant_depth = node[d].dormant_depth /\ m[d].saved = node[d].saved
      BY <1>7, <2>2, <3>1 DEF SameCover
    <3>3. node'[d].dormant_depth = k[d].dormant_depth /\ node'[d].saved = k[d].saved
      BY <2>3, <3>1 DEF Marked, SameCover
    <3>4. m[d].dormant_depth \in Nat /\ (m[d].dormant_depth = 0 => m[d].saved = NoRows)
      BY <1>2, <2>2, <3>1, <3>2 DEF Uncaptured, Good, CoverRight
    <3>5. /\ PatternOf(k, row', d) = PatternOf(m, row, d)
          /\ m[d].dormant_depth = 0 /\ k[d].dormant_depth > 0 => \A c \in Component : row'[d][c] # "on"
      BY <1>2, <2>2, <2>4, <3>1, <3>4, CoveredPattern
    <3>6. PatternOf(m, row, d) = PatternOf(node, row, d) /\ PatternOf(node', row', d) = PatternOf(k, row', d)
      BY <3>2, <3>3, SamePattern
    <3>. QED BY <3>2, <3>3, <3>5, <3>6
  <2>. QED BY <1>2, <2>6, <2>7, ActivityOf
<1>. QED BY <1>8, <1>9

\* finish_despawn: the victim, which has no child left, leaves the tree, its
\* rows and the path of the calls in flight.
LEMMA FinishTree ==
  ASSUME NEW n, NEW A, Good(n, A), NEW e \in A, n[e].first_child = NULL
  PROVE  LET m == [unlink(n, e) EXCEPT ![e] = BlankNode]
         IN  /\ Good(m, A \ {e})
             /\ \A d \in Ends \ {e} : m[d].parent = n[d].parent /\ SameCover(n, m, d) /\ SameMarks(n, m, d)
             /\ \A x \in A : n[x].parent # e
<1> DEFINE u == unlink(n, e)
           m == [u EXCEPT ![e] = BlankNode]
           B == A \ {e}
<1>0. /\ NULL \notin Entity /\ A \subseteq Entity /\ A \subseteq Ends /\ NULL \in Ends /\ e \in Ends /\ e \in Entity
      /\ Entity \subseteq Ends /\ (\A d \in A : n[d].parent \in Ends) /\ n \in Nodes
  BY HierarchyAssumption DEF Good, Tree, Inside, Ends
<1>1. Unlinked(n, u, e) /\ Tree(u, A, e)
  BY UnlinkTree DEF Good
<1>2. u \in Nodes /\ \A d \in Ends :
        /\ d # e => u[d].parent = n[d].parent
        /\ SameCover(n, u, d) /\ SameMarks(n, u, d)
  BY <1>1 DEF Unlinked
<1>3. \A x \in A : n[x].parent # e
  BY <1>0, NoChildren, HierarchyAssumption DEF Good
<1>4. n[e].parent # e
  BY <1>0, <1>3
<1>5. u[e].first_child = NULL
  BY <1>0, <1>1, <1>4 DEF Unlinked
<1>. HIDE DEF u
<1>6. m = [u EXCEPT ![e] = BlankNode]
  OBVIOUS
<1>7. Tree(m, B, NULL)
  BY <1>1, <1>5, DropTree
<1>. HIDE DEF m
<1>8. \A d \in Ends \ {e} : m[d] = u[d]
  BY <1>2, <1>6 DEF Nodes
<1>9. \A d \in Ends \ {e} :
        /\ m[d].parent = n[d].parent /\ SameCover(n, m, d) /\ SameMarks(n, m, d)
  BY <1>2, <1>8 DEF SameCover, SameMarks
<1>10. m[e] = BlankNode
  BY <1>0, <1>2, <1>6 DEF Nodes
<1>11. \A d \in Ends \ {e} :
        /\ m[d].dormant_depth = n[d].dormant_depth /\ m[d].deactivated = n[d].deactivated
        /\ m[d].saved = n[d].saved
        /\ m[d].transform_dirty = n[d].transform_dirty
        /\ m[d].transform_dirty_below = n[d].transform_dirty_below
  BY <1>9 DEF SameCover, SameMarks
<1>12. /\ n[NULL].dormant_depth = 0 /\ (\A d \in Ends : n[d].dormant_depth \in Nat)
       /\ (\A d \in A : Grows(n, d)) /\ Uncaptured(n, A) /\ Blank(n, A)
  BY DEF Good, CoverRight
<1>13. CoverRight(m, B)
  <2>1. \A d \in B : d \in A /\ d \in Ends \ {e} /\ n[d].parent \in Ends \ {e}
    BY <1>0, <1>3
  <2>2. ASSUME NEW d \in B PROVE Grows(m, d)
    <3>1. d \in A /\ d \in Ends \ {e} /\ n[d].parent \in Ends \ {e}
      BY <2>1
    <3>2. m[d].parent = n[d].parent /\ m[d].dormant_depth = n[d].dormant_depth
          /\ m[n[d].parent].dormant_depth = n[n[d].parent].dormant_depth
          /\ m[d].deactivated = n[d].deactivated
      BY <1>9, <1>11, <3>1
    <3>3. n[d].dormant_depth = n[n[d].parent].dormant_depth + (IF n[d].deactivated THEN 1 ELSE 0)
      BY <1>12, <3>1 DEF Grows
    <3>. QED BY <3>2, <3>3, Zenon DEF Grows
  <2>3. m[NULL].dormant_depth = 0
    BY <1>0, <1>11, <1>12
  <2>4. \A d \in Ends : m[d].dormant_depth \in Nat
    <3>1. BlankNode.dormant_depth = 0
      BY DEF BlankNode
    <3>. QED BY <1>10, <1>11, <1>12, <3>1
  <2>. QED BY <2>2, <2>3, <2>4 DEF CoverRight
<1>14. Uncaptured(m, B)
  BY <1>0, <1>11, <1>12 DEF Uncaptured
<1>15. Blank(m, B)
  <2>1. /\ BlankNode.dormant_depth = 0 /\ BlankNode.deactivated = FALSE /\ BlankNode.saved = NoRows
        /\ BlankNode.transform_dirty = FALSE /\ BlankNode.transform_dirty_below = FALSE
    BY DEF BlankNode
  <2>2. ASSUME NEW d \in Entity \ B
        PROVE  /\ m[d].dormant_depth = 0 /\ m[d].deactivated = FALSE /\ m[d].saved = NoRows
               /\ m[d].transform_dirty = FALSE /\ m[d].transform_dirty_below = FALSE
    <3>1. CASE d = e
      BY <1>10, <2>1, <3>1
    <3>2. CASE d # e
      <4>1. d \in Entity \ A /\ d \in Ends \ {e}
        BY <1>0, <3>2
      <4>. QED BY <1>11, <1>12, <4>1 DEF Blank
    <3>. QED BY <3>1, <3>2
  <2>. QED BY <2>2 DEF Blank
<1>. QED BY <1>3, <1>7, <1>9, <1>13, <1>14, <1>15 DEF Good, m, u

\* finish_despawn: the innermost call removes its entity, which has no child.
LEMMA FinishStep ==
  ASSUME HierarchyIInv, finish_despawn
  PROVE  HierarchyIInv' /\ ActivityStep
<1> DEFINE e == Victim
           L == Len(despawning)
<1>1. /\ ~Idle /\ ~HasChild
      /\ node' = IF e \in adopted THEN [unlink(node, e) EXCEPT ![e] = BlankNode] ELSE node
      /\ adopted' = adopted \ {e} /\ despawning' = Front(despawning)
      /\ life' = [life EXCEPT ![e] = "dead"] /\ row' = [row EXCEPT ![e] = NoRows] /\ local' = local
  BY DEF finish_despawn, transformVars
<1>2. /\ L \in Nat /\ L > 0 /\ e = despawning[L] /\ DOMAIN despawning = 1 .. L
      /\ e \in Entity /\ e \in Alive /\ e \in Ends
  BY <1>1, VictimFacts
<1>3. /\ NULL \notin Entity /\ adopted \subseteq Entity /\ node \in Nodes /\ Good(node, adopted) /\ adopted \subseteq Ends
      /\ row \in [Entity -> [Component -> RowState]] /\ life \in [Entity -> {"unborn", "alive", "dead"}]
      /\ local \in [Entity -> Local] /\ adopted \subseteq Alive
      /\ despawning \in Seq(Entity) /\ \A k \in DOMAIN despawning : despawning[k] \in Alive
      /\ \A k \in DOMAIN despawning : k > 1 => node[despawning[k]].parent = despawning[k - 1]
      /\ \A i, j \in DOMAIN despawning : despawning[i] = despawning[j] => i = j
  BY Members DEF HierarchyIInv, RowsRight, InFlight
<1>4. e \in adopted => node[e].first_child = NULL
  BY <1>1 DEF HasChild
<1>5. /\ Good(node', adopted')
      /\ \A d \in Ends \ {e} : node'[d].parent = node[d].parent /\ SameCover(node, node', d)
  <2>1. CASE e \in adopted
    <3>1. node' = [unlink(node, e) EXCEPT ![e] = BlankNode]
      BY <1>1, <2>1
    <3> DEFINE m == [unlink(node, e) EXCEPT ![e] = BlankNode]
    <3>2. /\ Good(m, adopted \ {e})
          /\ \A d \in Ends \ {e} : m[d].parent = node[d].parent /\ SameCover(node, m, d) /\ SameMarks(node, m, d)
          /\ \A x \in adopted : node[x].parent # e
      <4>1. Good(node, adopted) /\ node[e].first_child = NULL
        BY <1>3, <1>4, <2>1
      <4>. HIDE DEF e
      <4>. QED BY <2>1, <4>1, FinishTree
    <3>3. node' = m /\ adopted' = adopted \ {e}
      BY <1>1, <3>1
    <3>. HIDE DEF m, e
    <3>. QED BY <3>2, <3>3, Zenon
  <2>2. CASE e \notin adopted
    <3>1. node' = node /\ adopted' = adopted
      BY <1>1, <2>2
    <3>2. Good(node', adopted')
      BY <1>3, <3>1, Zenon
    <3>. HIDE DEF e
    <3>3. \A d \in Ends : node'[d].parent = node[d].parent /\ SameCover(node, node', d)
      BY <3>1 DEF SameCover
    <3>. QED BY <3>2, <3>3
  <2>. QED BY <2>1, <2>2
<1>. HIDE DEF e, L
<1>6. /\ despawning' \in Seq(Entity) /\ DOMAIN despawning' = 1 .. L - 1
      /\ \A k \in 1 .. L - 1 : despawning'[k] = despawning[k]
  BY <1>1, <1>2, <1>3 DEF Front, L
<1>7. \A k \in 1 .. L - 1 : k \in DOMAIN despawning /\ despawning[k] # e
  BY <1>2, <1>3
<1>8. \A d \in Entity : life'[d] = IF d = e THEN "dead" ELSE life[d]
  BY <1>1, <1>3
<1>9. RowsRight'
  <2>1. life' \in [Entity -> {"unborn", "alive", "dead"}]
    BY <1>1, <1>3
  <2>2. adopted' \subseteq {d \in Entity : life'[d] = "alive"}
    BY <1>1, <1>3, <1>8 DEF Alive
  <2>3. row' \in [Entity -> [Component -> RowState]]
    <3>1. NoRows \in [Component -> RowState]
      BY DEF NoRows, RowState
    <3>. QED BY <1>1, <1>3, <3>1
  <2>4. \A k \in DOMAIN despawning' : despawning'[k] \in {d \in Entity : life'[d] = "alive"}
    BY <1>3, <1>6, <1>7, <1>8 DEF Alive
  <2>. QED BY <1>1, <1>3, <1>6, <2>1, <2>2, <2>3, <2>4 DEF RowsRight, Alive
<1>10. InFlight'
  <2>1. ASSUME NEW k \in DOMAIN despawning', k > 1
        PROVE  node'[despawning'[k]].parent = despawning'[k - 1]
    <3>1. k \in 1 .. L - 1 /\ k - 1 \in 1 .. L - 1
      BY <1>2, <1>6, <2>1
    <3>2. despawning[k] \in Ends \ {e}
      BY <1>3, <1>7, <3>1 DEF Alive, Ends
    <3>3. node'[despawning[k]].parent = node[despawning[k]].parent
      BY <1>5, <3>2
    <3>. QED BY <1>3, <1>6, <1>7, <2>1, <3>1, <3>3
  <2>2. \A i, j \in DOMAIN despawning' : despawning'[i] = despawning'[j] => i = j
    BY <1>3, <1>6, <1>7
  <2>. QED BY <2>1, <2>2 DEF InFlight
<1>11. HierarchyIInv'
  BY <1>5, <1>9, <1>10 DEF HierarchyIInv
<1>12. \A d \in adopted \cap adopted' : row'[d] = row[d] /\ SameCover(node, node', d)
  BY <1>1, <1>3, <1>5
<1>. QED BY <1>3, <1>11, <1>12, QuietActivity

-----------------------------------------------------------------------------
\* The invariant holds at the start and after every step, and every step is a
\* step of the activity contract.
LEMMA HierarchyStart == HierarchyInit => HierarchyIInv
<1>. SUFFICES ASSUME HierarchyInit PROVE HierarchyIInv
  OBVIOUS
<1>1. /\ life = [e \in Entity |-> "unborn"] /\ adopted = {} /\ despawning = <<>>
      /\ node = [e \in Entity \cup {NULL} |-> BlankNode]
      /\ row = [e \in Entity |-> NoRows] /\ local = [e \in Entity |-> identity_local]
  BY DEF HierarchyInit
<1>2. RowsRight
  BY <1>1, HierarchyAssumption DEF RowsRight, RowState, NoRows, Alive
<1>3. Good(node, adopted)
  BY <1>1, GoodInit
<1>4. InFlight
  BY <1>1 DEF InFlight
<1>. QED BY <1>2, <1>3, <1>4 DEF HierarchyIInv

\* Every step keeps the invariant and the activity.
LEMMA HierarchyStep ==
  ASSUME HierarchyIInv, [HierarchyNext]_hierarchyVars
  PROVE  HierarchyIInv' /\ (ActivityStep \/ UNCHANGED hierarchyVars)
<1>1. CASE UNCHANGED hierarchyVars
  <2>1. /\ life' = life /\ adopted' = adopted /\ node' = node /\ row' = row /\ local' = local
        /\ despawning' = despawning
    BY <1>1 DEF hierarchyVars, treeVars, transformVars
  <2>2. RowsRight' /\ InFlight'
    BY <2>1 DEF HierarchyIInv, RowsRight, InFlight, Alive
  <2>. QED BY <1>1, <2>1, <2>2 DEF HierarchyIInv
<1>2. CASE HierarchyNext
  <2>1. ASSUME NEW e \in Entity, spawn(e) \/ adopt(e) \/ activate(e) \/ deactivate(e) \/ despawn(e)
        PROVE  HierarchyIInv' /\ ActivityStep
    BY <2>1, SpawnStep, AdoptStep, ScopeStep, DespawnStep
  <2>2. ASSUME NEW e \in Entity, NEW c \in Component, NEW bit \in {"off", "on"},
               emplace(e, c, bit) \/ set_active(e, c, bit)
        PROVE  HierarchyIInv' /\ ActivityStep
    BY <2>2, RowStep
  <2>3. ASSUME NEW child \in Entity, NEW p \in Entity \cup {NULL}, apply_reparent(child, p)
        PROVE  HierarchyIInv' /\ ActivityStep
    BY <2>3, ReparentStep
  <2>4. ASSUME NEW e \in Entity, NEW l \in Local, set_local(e, l)
        PROVE  HierarchyIInv' /\ ActivityStep
    BY <2>4, SetLocalStep
  <2>5. CASE propagate
    BY <2>5, PropagateStep
  <2>6. CASE rebuild_order
    BY <2>6, RebuildStep
  <2>7. CASE cascade
    BY <2>7, CascadeStep
  <2>8. CASE finish_despawn
    BY <2>8, FinishStep
  <2>. QED BY <1>2, <2>1, <2>2, <2>3, <2>4, <2>5, <2>6, <2>7, <2>8 DEF HierarchyNext, Cascading
<1>. QED BY <1>1, <1>2

\* The tree, the counts, the captures and the calls in flight stay right.
THEOREM HierarchyInvariant == HierarchySpec => []HierarchyIInv
<1>1. HierarchyIInv /\ [HierarchyNext]_hierarchyVars => HierarchyIInv'
  BY HierarchyStep
<1>. QED BY <1>1, HierarchyStart, PTL DEF HierarchySpec

\* A count is the number of scopes that cover the entity: along every parent
\* link it grows by the entity's own flag (activation.cpp, apply_reparent).
THEOREM CoverIsExact == HierarchySpec => []DormancyCover
<1>1. HierarchyIInv => DormancyCover
  <2>. SUFFICES ASSUME HierarchyIInv PROVE DormancyCover
    OBVIOUS
  <2>1. node[NULL].dormant_depth = 0 /\ \A e \in adopted : Grows(node, e)
    BY DEF HierarchyIInv, Good, CoverRight
  <2>. QED BY <2>1, Zenon DEF DormancyCover, Grows
<1>. QED BY <1>1, HierarchyInvariant, PTL

\* Activation, moves, adoption and despawns keep every pattern; an awake entity
\* shows it (capture_and_clear, restore_activity).
THEOREM ActivityIsKept == HierarchySpec => ActivityFollowsCover
<1> DEFINE A == \A e \in adopted \cap adopted' :
                  /\ node' # node => Pattern(e)' = Pattern(e)
                  /\ node'[e].dormant_depth = 0 => row'[e] = Pattern(e)'
                  /\ node[e].dormant_depth = 0 /\ node'[e].dormant_depth > 0 =>
                       \A c \in Component : row'[e][c] # "on"
<1>1. HierarchyIInv /\ [HierarchyNext]_hierarchyVars => [A]_hierarchyVars
  BY HierarchyStep DEF ActivityStep
<1>. QED BY <1>1, HierarchyInvariant, PTL DEF HierarchySpec, ActivityFollowsCover

\* The calls in flight are a path down from the first victim, no entity is
\* despawned twice, and the child a call meets is alive and new (on_despawn).
THEOREM CascadeKeepsContract == HierarchySpec => []CascadeContract
<1>1. HierarchyIInv => CascadeContract
  <2>. SUFFICES ASSUME HierarchyIInv PROVE CascadeContract
    OBVIOUS
  <2> DEFINE L == Len(despawning)
  <2>1. /\ \A k \in DOMAIN despawning : k > 1 => node[despawning[k]].parent = despawning[k - 1]
        /\ \A i, j \in DOMAIN despawning : despawning[i] = despawning[j] => i = j
        /\ despawning \in Seq(Entity) /\ L \in Nat /\ DOMAIN despawning = 1 .. L
    BY DEF HierarchyIInv, InFlight, RowsRight
  <2>2. Cardinality(Range(despawning)) = L
    <3>1. Range(despawning) = {despawning[i] : i \in 1 .. L}
      BY <2>1 DEF Range
    <3>2. ExistsBijection(1 .. L, Range(despawning))
      <4> DEFINE b == [i \in 1 .. L |-> despawning[i]]
      <4>1. b \in Bijection(1 .. L, Range(despawning))
        BY <2>1, <3>1 DEF Bijection, Injection, Surjection, IsInjective
      <4>. QED BY <4>1 DEF ExistsBijection
    <3>. QED BY <2>1, <3>2, FS_CardinalityType, FS_CountingElements
  <2>3. ~Idle /\ HasChild => node[Victim].first_child \in Alive \ Range(despawning)
    <3>. SUFFICES ASSUME ~Idle, HasChild
                  PROVE  node[Victim].first_child \in Alive \ Range(despawning)
      OBVIOUS
    <3>. QED BY ChildIsNew, <2>1 DEF Range
  <2>. QED BY <2>1, <2>2, <2>3 DEF CascadeContract
<1>. QED BY <1>1, HierarchyInvariant, PTL

-----------------------------------------------------------------------------
\* Lists without repetition.
Distinct(s) == \A i, j \in 1 .. Len(s) : s[i] = s[j] => i = j
Listing(s) == {s[i] : i \in 1 .. Len(s)}

\* A list without repetition is no longer than the set it is drawn from.
LEMMA DistinctLength ==
  ASSUME NEW T, IsFiniteSet(T), NEW s \in Seq(T), Distinct(s)
  PROVE  /\ Cardinality(Listing(s)) = Len(s) /\ Len(s) <= Cardinality(T)
         /\ \A x \in T : x \notin Listing(s) => Len(s) < Cardinality(T)
<1>1. PICK n \in Nat : n = Len(s)
  OBVIOUS
<1>2. ExistsBijection(1 .. n, Listing(s))
  <2> DEFINE b == [i \in 1 .. n |-> s[i]]
  <2>1. b \in Bijection(1 .. n, Listing(s))
    BY <1>1 DEF Bijection, Injection, Surjection, IsInjective, Distinct, Listing
  <2>. QED BY <2>1 DEF ExistsBijection
<1>3. Cardinality(Listing(s)) = n
  BY <1>2, FS_CountingElements
<1>4. Listing(s) \in SUBSET T
  BY DEF Listing
<1>. HIDE DEF Listing
<1>5. n <= Cardinality(T) /\ (Listing(s) # T => n < Cardinality(T))
  BY <1>3, <1>4, FS_Subset, FS_CardinalityType
<1>6. \A x \in T : x \notin Listing(s) => Listing(s) # T
  OBVIOUS
<1>. QED BY <1>1, <1>3, <1>5, <1>6

\* Joining two lists.
LEMMA JoinLists ==
  ASSUME NEW T, NEW s \in Seq(T), NEW t \in Seq(T)
  PROVE  /\ s \o t \in Seq(T) /\ Listing(s \o t) = Listing(s) \cup Listing(t)
         /\ Distinct(s) /\ Distinct(t) /\ Listing(s) \cap Listing(t) = {} => Distinct(s \o t)
<1>1. PICK a \in Nat, b \in Nat : a = Len(s) /\ b = Len(t)
  OBVIOUS
<1>2. /\ s \o t \in Seq(T) /\ Len(s \o t) = a + b
      /\ \A i \in 1 .. a : (s \o t)[i] = s[i]
      /\ \A i \in 1 .. a + b : i > a => (s \o t)[i] = t[i - a]
  BY <1>1
<1> DEFINE u == s \o t
<1>. HIDE DEF u
<1>3. /\ Len(u) = a + b /\ \A i \in 1 .. a : u[i] = s[i]
      /\ \A i \in 1 .. a + b : i > a => u[i] = t[i - a]
  BY <1>2 DEF u
<1>4. Listing(u) = Listing(s) \cup Listing(t)
  <2>1. ASSUME NEW i \in 1 .. a + b PROVE u[i] \in Listing(s) \cup Listing(t)
    <3>1. CASE i <= a
      BY <1>1, <1>3, <3>1 DEF Listing
    <3>2. CASE i > a
      <4>1. i - a \in 1 .. b
        BY <3>2
      <4>. QED BY <1>1, <1>3, <3>2, <4>1 DEF Listing
    <3>. QED BY <3>1, <3>2
  <2>2. ASSUME NEW i \in 1 .. a PROVE s[i] \in Listing(u)
    <3>1. i \in 1 .. a + b
      OBVIOUS
    <3>. QED BY <1>3, <3>1 DEF Listing
  <2>3. ASSUME NEW i \in 1 .. b PROVE t[i] \in Listing(u)
    <3>1. i + a \in 1 .. a + b /\ i + a > a /\ (i + a) - a = i
      OBVIOUS
    <3>2. u[i + a] = t[i]
      BY <1>3, <3>1
    <3>. QED BY <1>3, <3>1, <3>2 DEF Listing
  <2>4. Listing(u) \subseteq Listing(s) \cup Listing(t)
    BY <1>3, <2>1 DEF Listing
  <2>5. Listing(s) \subseteq Listing(u) /\ Listing(t) \subseteq Listing(u)
    BY <1>1, <2>2, <2>3 DEF Listing
  <2>. QED BY <2>4, <2>5
<1>5. ASSUME Distinct(s), Distinct(t), Listing(s) \cap Listing(t) = {} PROVE Distinct(u)
  <2>0. \A i \in 1 .. a, j \in 1 .. b : s[i] # t[j]
    BY <1>1, <1>5 DEF Listing
  <2>1. ASSUME NEW i \in 1 .. a + b, NEW j \in 1 .. a + b, u[i] = u[j] PROVE i = j
    <3>1. CASE i <= a /\ j <= a
      <4>1. i \in 1 .. a /\ j \in 1 .. a
        BY <3>1
      <4>. QED BY <1>1, <1>3, <1>5, <2>1, <4>1 DEF Distinct
    <3>2. CASE i > a /\ j > a
      <4>1. i - a \in 1 .. b /\ j - a \in 1 .. b
        BY <3>2
      <4>2. t[i - a] = t[j - a]
        BY <1>3, <2>1, <3>2
      <4>3. i - a = j - a
        BY <1>1, <1>5, <4>1, <4>2 DEF Distinct
      <4>. QED BY <4>3
    <3>3. CASE i <= a /\ j > a
      <4>1. i \in 1 .. a /\ j - a \in 1 .. b
        BY <3>3
      <4>. QED BY <1>3, <2>0, <2>1, <3>3, <4>1
    <3>4. CASE i > a /\ j <= a
      <4>1. i - a \in 1 .. b /\ j \in 1 .. a
        BY <3>4
      <4>. QED BY <1>3, <2>0, <2>1, <3>4, <4>1
    <3>. QED BY <3>1, <3>2, <3>3, <3>4
  <2>. QED BY <1>3, <2>1 DEF Distinct
<1>. QED BY <1>2, <1>4, <1>5 DEF u

\* A list of one element.
LEMMA OneList ==
  ASSUME NEW T, NEW x \in T
  PROVE  <<x>> \in Seq(T) /\ Listing(<<x>>) = {x} /\ Distinct(<<x>>)
<1>1. Len(<<x>>) = 1 /\ <<x>>[1] = x
  OBVIOUS
<1>. QED BY <1>1 DEF Listing, Distinct

\* A list with one element more.
LEMMA LongerList ==
  ASSUME NEW T, NEW s \in Seq(T), NEW x \in T
  PROVE  /\ Append(s, x) \in Seq(T) /\ Len(Append(s, x)) = Len(s) + 1
         /\ Listing(Append(s, x)) = Listing(s) \cup {x}
         /\ Distinct(s) /\ x \notin Listing(s) => Distinct(Append(s, x))
<1>1. PICK c \in Nat : c = Len(s)
  OBVIOUS
<1> DEFINE t == Append(s, x)
<1>2. t \in Seq(T) /\ Len(t) = c + 1 /\ t[c + 1] = x /\ \A i \in 1 .. c : t[i] = s[i]
  BY <1>1
<1>. HIDE DEF t
<1>3. \A i \in 1 .. c + 1 : i \in 1 .. c \/ i = c + 1
  OBVIOUS
<1>4. \A i \in 1 .. c : i \in 1 .. c + 1
  OBVIOUS
<1>5. c + 1 \in 1 .. c + 1
  OBVIOUS
<1>6. Listing(t) = Listing(s) \cup {x}
  BY <1>1, <1>2, <1>3, <1>4, <1>5 DEF Listing
<1>7. ASSUME Distinct(s), x \notin Listing(s) PROVE Distinct(t)
  <2>1. \A i \in 1 .. c : t[i] # x
    BY <1>1, <1>2, <1>7 DEF Listing
  <2>2. ASSUME NEW i \in 1 .. c + 1, NEW j \in 1 .. c + 1, t[i] = t[j] PROVE i = j
    BY <1>1, <1>2, <1>3, <1>7, <2>1, <2>2 DEF Distinct
  <2>. QED BY <1>2, <2>2 DEF Distinct
<1>. QED BY <1>1, <1>2, <1>6, <1>7 DEF t

\* A list from its head and its tail.
LEMMA SplitList ==
  ASSUME NEW T, NEW s \in Seq(T), s # <<>>
  PROVE  /\ Head(s) \in T /\ Tail(s) \in Seq(T) /\ Listing(s) = {Head(s)} \cup Listing(Tail(s))
         /\ Distinct(s) => Distinct(Tail(s)) /\ Head(s) \notin Listing(Tail(s))
<1>1. PICK n \in Nat : Len(s) = n + 1
  <2>1. Len(s) \in Nat /\ Len(s) # 0
    OBVIOUS
  <2>2. Len(s) - 1 \in Nat /\ Len(s) = (Len(s) - 1) + 1
    BY <2>1
  <2>. QED BY <2>2
<1> DEFINE t == Tail(s)
<1>2. /\ Head(s) \in T /\ Head(s) = s[1] /\ t \in Seq(T) /\ Len(t) = n
      /\ \A i \in 1 .. n : t[i] = s[i + 1]
  BY <1>1
<1>. HIDE DEF t
<1>3. Listing(s) = {s[1]} \cup Listing(t)
  <2>1. ASSUME NEW i \in 1 .. n + 1 PROVE s[i] \in {s[1]} \cup Listing(t)
    <3>1. CASE i = 1
      BY <3>1
    <3>2. CASE i # 1
      <4>1. i - 1 \in 1 .. n /\ (i - 1) + 1 = i
        BY <3>2
      <4>2. t[i - 1] = s[i]
        BY <1>2, <4>1
      <4>. QED BY <1>2, <4>1, <4>2 DEF Listing
    <3>. QED BY <3>1, <3>2
  <2>2. ASSUME NEW i \in 1 .. n PROVE t[i] \in Listing(s)
    <3>1. i + 1 \in 1 .. n + 1
      OBVIOUS
    <3>. QED BY <1>1, <1>2, <3>1 DEF Listing
  <2>3. 1 \in 1 .. n + 1
    OBVIOUS
  <2>. QED BY <1>1, <1>2, <2>1, <2>2, <2>3 DEF Listing
<1>4. ASSUME Distinct(s) PROVE Distinct(t) /\ s[1] \notin Listing(t)
  <2>1. \A i \in 1 .. n : i + 1 \in 1 .. n + 1 /\ i + 1 # 1
    OBVIOUS
  <2>2. 1 \in 1 .. n + 1
    OBVIOUS
  <2>3. \A i, j \in 1 .. n + 1 : s[i] = s[j] => i = j
    BY <1>1, <1>4 DEF Distinct
  <2>4. ASSUME NEW i \in 1 .. n, NEW j \in 1 .. n, t[i] = t[j] PROVE i = j
    <3>1. i + 1 = j + 1
      BY <1>2, <2>1, <2>3, <2>4
    <3>. QED BY <3>1
  <2>5. \A i \in 1 .. n : t[i] # s[1]
    BY <1>2, <2>1, <2>2, <2>3
  <2>. QED BY <1>2, <2>4, <2>5 DEF Distinct, Listing
<1>. QED BY <1>2, <1>3, <1>4 DEF t

-----------------------------------------------------------------------------
\* The walk of children, from the newest sibling back.
Sibling(n, l) ==
  IF l.at = NULL THEN l ELSE [at |-> n[l.at].prev_sibling, out |-> <<l.at>> \o l.out]
Siblings(n, p, N, list) ==
  list = [k \in 0 .. N |-> IF k = 0 THEN [at |-> n[p].last_child, out |-> <<>>]
                                    ELSE Sibling(n, list[k - 1])]

\* There is such a walk of every length.
LEMMA SiblingsExist ==
  ASSUME NEW n, NEW p, NEW N \in Nat
  PROVE  \E list : Siblings(n, p, N, list)
<1> DEFINE Bad == {m \in Nat : ~\E list : Siblings(n, p, m, list)}
           start == [at |-> n[p].last_child, out |-> <<>>]
<1>. SUFFICES ASSUME N \in Bad PROVE FALSE
  OBVIOUS
<1>1. PICK m \in Bad : \A l \in Bad : m <= l
  BY LeastOf
<1>2. CASE m = 0
  <2>1. Siblings(n, p, 0, [l \in 0 .. 0 |-> start])
    BY DEF Siblings
  <2>. QED BY <1>2, <2>1
<1>3. CASE m # 0
  <2>1. m - 1 \in Nat /\ m - 1 \notin Bad
    BY <1>1, <1>3
  <2>2. PICK g : Siblings(n, p, m - 1, g)
    BY <2>1
  <2>. DEFINE h == [l \in 0 .. m |-> IF l = m THEN Sibling(n, g[m - 1]) ELSE g[l]]
  <2>3. ASSUME NEW l \in 0 .. m
        PROVE  h[l] = IF l = 0 THEN start ELSE Sibling(n, h[l - 1])
    <3>1. CASE l = m
      <4>1. h[l - 1] = g[m - 1] /\ l # 0
        BY <1>3, <3>1
      <4>. QED BY <3>1, <4>1
    <3>2. CASE l # m
      <4>1. l \in 0 .. m - 1 /\ h[l] = g[l] /\ (l # 0 => h[l - 1] = g[l - 1])
        BY <3>2
      <4>2. g[l] = IF l = 0 THEN start ELSE Sibling(n, g[l - 1])
        BY <2>2, <4>1 DEF Siblings
      <4>. QED BY <4>1, <4>2
    <3>. QED BY <3>1, <3>2
  <2>4. h = [l \in 0 .. m |-> h[l]]
    OBVIOUS
  <2>5. Siblings(n, p, m, h)
    BY <2>3, <2>4, Zenon DEF Siblings
  <2>. QED BY <2>5
<1>. QED BY <1>2, <1>3

\* children is the result of a walk of as many steps as there are entities.
LEMMA ChildrenWalk ==
  ASSUME NEW n, NEW p
  PROVE  \E list : Siblings(n, p, Cardinality(Entity), list) /\ children(n, p) = list[Cardinality(Entity)].out
<1> DEFINE N == Cardinality(Entity)
           list == CHOOSE g : Siblings(n, p, N, g)
<1>1. N \in Nat
  BY HierarchyAssumption, FS_CardinalityType
<1>2. Siblings(n, p, N, list)
  BY <1>1, SiblingsExist
<1>3. children(n, p) = list[N].out
  BY DEF children, Siblings, Sibling
<1>. QED BY <1>2, <1>3

\* What the walk holds after k steps.
SiblingsRight(n, A, p, l, k) ==
  /\ l.at \in A \cup {NULL} /\ l.out \in Seq(A) /\ Distinct(l.out)
  /\ l.at # NULL => Len(l.out) = k /\ n[l.at].parent = p
  /\ \A i \in 1 .. Len(l.out) :
       /\ n[l.out[i]].parent = p
       /\ n[l.out[i]].prev_sibling = IF i = 1 THEN l.at ELSE l.out[i - 1]
  /\ IF Len(l.out) = 0 THEN l.at = n[p].last_child ELSE l.out[Len(l.out)] = n[p].last_child

\* One step of the walk along the previous siblings.
LEMMA SiblingStep ==
  ASSUME NEW n, NEW A, Tree(n, A, NULL), NEW p \in Ends, NEW k \in Nat,
         NEW l, SiblingsRight(n, A, p, l, k)
  PROVE  SiblingsRight(n, A, p, Sibling(n, l), k + 1)
<1>0. NULL \notin A /\ A \subseteq Ends
  BY HierarchyAssumption DEF Tree, Inside, Ends
<1>1. CASE l.at = NULL
  <2>1. Sibling(n, l) = l
    BY <1>1 DEF Sibling
  <2>. QED BY <1>1, <2>1 DEF SiblingsRight
<1>2. CASE l.at # NULL
  <2> DEFINE x == l.at
             s == l.out
             t == <<x>> \o s
             y == n[x].prev_sibling
             m == [at |-> y, out |-> t]
  <2>1. PICK c \in Nat : c = Len(s)
    BY DEF SiblingsRight
  <2>2. /\ x \in A /\ s \in Seq(A) /\ Distinct(s) /\ c = k /\ n[x].parent = p
        /\ \A i \in 1 .. c : n[s[i]].parent = p /\ n[s[i]].prev_sibling = IF i = 1 THEN x ELSE s[i - 1]
        /\ IF c = 0 THEN x = n[p].last_child ELSE s[c] = n[p].last_child
    BY <1>2, <2>1 DEF SiblingsRight
  <2>3. Sibling(n, l) = m
    BY <1>2 DEF Sibling
  <2>4. /\ y \in A \cup {NULL}
        /\ y # NULL => n[y].parent = p
    BY <1>0, <2>2 DEF Tree, Inside, Listed
  <2>. HIDE DEF x, s, t, y
  <2>20. s \in Seq(A) /\ c = Len(s)
    BY <2>1, <2>2
  <2>5. x \notin Listing(s)
    <3>. SUFFICES ASSUME NEW j \in 1 .. c, s[j] = x PROVE FALSE
      BY <2>1 DEF Listing
    <3> DEFINE S == {s[i] : i \in 1 .. j}
    <3>1. S \in SUBSET A
      <4>1. \A i \in 1 .. c : s[i] \in A
        BY <2>20
      <4>. QED BY <4>1
    <3>2. ASSUME NEW z \in S PROVE n[z].prev_sibling \in S
      <4>1. PICK i \in 1 .. j : z = s[i]
        OBVIOUS
      <4>2. i \in 1 .. c
        OBVIOUS
      <4>3. CASE i = 1
        <5>1. n[z].prev_sibling = s[j] /\ j \in 1 .. j
          BY <2>2, <4>1, <4>2, <4>3
        <5>. QED BY <5>1
      <4>4. CASE i # 1
        <5>1. n[z].prev_sibling = s[i - 1] /\ i - 1 \in 1 .. j
          BY <2>2, <4>1, <4>2, <4>4
        <5>. QED BY <5>1
      <4>. QED BY <4>3, <4>4
    <3>3. s[1] \in S
      OBVIOUS
    <3>. HIDE DEF S
    <3>. QED BY <3>1, <3>2, <3>3 DEF Tree, BackEnds
  <2>6. t \in Seq(A) /\ Distinct(t)
    <3>1. <<x>> \in Seq(A) /\ Listing(<<x>>) = {x} /\ Distinct(<<x>>)
      BY <2>2, OneList
    <3>2. Listing(<<x>>) \cap Listing(s) = {}
      BY <2>5, <3>1
    <3>3. <<x>> \o s \in Seq(A) /\ Distinct(<<x>> \o s)
      BY <2>2, <3>1, <3>2, JoinLists
    <3>. QED BY <3>3 DEF t
  <2>7. Len(t) = c + 1 /\ t[1] = x /\ \A i \in 1 .. c + 1 : i # 1 => t[i] = s[i - 1]
    BY <2>20 DEF t
  <2>8. \A i \in 1 .. c + 1 :
          /\ n[t[i]].parent = p
          /\ n[t[i]].prev_sibling = IF i = 1 THEN y ELSE t[i - 1]
    <3>. SUFFICES ASSUME NEW i \in 1 .. c + 1
                  PROVE  n[t[i]].parent = p /\ n[t[i]].prev_sibling = IF i = 1 THEN y ELSE t[i - 1]
      OBVIOUS
    <3>1. CASE i = 1
      BY <2>2, <2>7, <3>1 DEF y
    <3>2. CASE i # 1
      <4>1. i - 1 \in 1 .. c /\ t[i] = s[i - 1]
        BY <2>7, <3>2
      <4>2. CASE i - 1 = 1
        BY <2>2, <2>7, <3>2, <4>1, <4>2
      <4>3. CASE i - 1 # 1
        <5>1. i - 1 \in 1 .. c + 1 /\ t[i - 1] = s[(i - 1) - 1]
          BY <2>7, <3>2, <4>1, <4>3
        <5>. QED BY <2>2, <3>2, <4>1, <4>3, <5>1
      <4>. QED BY <4>2, <4>3
    <3>. QED BY <3>1, <3>2
  <2>9. t[c + 1] = n[p].last_child
    <3>1. CASE c = 0
      BY <2>2, <2>7, <3>1
    <3>2. CASE c # 0
      BY <2>2, <2>7, <3>2
    <3>. QED BY <3>1, <3>2
  <2>10. m.at = y /\ m.out = t
    OBVIOUS
  <2>. HIDE DEF m
  <2>. QED BY <2>2, <2>3, <2>4, <2>6, <2>7, <2>8, <2>9, <2>10 DEF SiblingsRight
<1>. QED BY <1>1, <1>2

\* children lists the children of a node, each once, as their links say.
LEMMA ChildrenListed ==
  ASSUME NEW n, NEW A, Tree(n, A, NULL), NEW p \in Ends
  PROVE  LET s == children(n, p)
         IN  /\ s \in Seq(A) /\ Distinct(s)
             /\ \A x \in A : x \in Listing(s) <=> n[x].parent = p
             /\ \A i \in 1 .. Len(s) : n[s[i]].prev_sibling = IF i = 1 THEN NULL ELSE s[i - 1]
<1> DEFINE N == Cardinality(Entity)
           s == children(n, p)
<1>0. /\ NULL \notin A /\ A \subseteq Ends /\ A \subseteq Entity /\ IsFiniteSet(Entity) /\ N \in Nat
      /\ n[p].last_child \in A \cup {NULL}
      /\ n[p].last_child # NULL => n[n[p].last_child].parent = p
  BY HierarchyAssumption, FS_CardinalityType DEF Tree, Inside, Ends, Headed
<1>1. PICK list : Siblings(n, p, N, list) /\ s = list[N].out
  BY ChildrenWalk
<1>2. \A k \in 0 .. N : SiblingsRight(n, A, p, list[k], k)
  <2> DEFINE Bad == {k \in 0 .. N : ~SiblingsRight(n, A, p, list[k], k)}
  <2>. SUFFICES ASSUME Bad # {} PROVE FALSE
    OBVIOUS
  <2>1. PICK k \in Bad : \A j \in Bad : k <= j
    <3>1. Bad \in SUBSET Nat
      OBVIOUS
    <3>. QED BY <3>1, LeastOf
  <2>2. CASE k = 0
    <3>1. list[0] = [at |-> n[p].last_child, out |-> <<>>]
      BY <1>0, <1>1 DEF Siblings
    <3>2. list[0].at = n[p].last_child /\ list[0].out = <<>> /\ <<>> \in Seq(A) /\ Len(<<>>) = 0
      BY <3>1
    <3>3. Distinct(<<>>)
      BY DEF Distinct
    <3>4. SiblingsRight(n, A, p, list[0], 0)
      BY <1>0, <3>2, <3>3 DEF SiblingsRight
    <3>. QED BY <2>1, <2>2, <3>4
  <2>3. CASE k # 0
    <3>1. k - 1 \in 0 .. N /\ k - 1 \in Nat /\ k - 1 \notin Bad /\ (k - 1) + 1 = k
      BY <1>0, <2>1, <2>3
    <3>2. list[k] = Sibling(n, list[k - 1])
      BY <1>0, <1>1, <2>1, <2>3 DEF Siblings
    <3>3. SiblingsRight(n, A, p, list[k - 1], k - 1)
      BY <3>1
    <3>4. SiblingsRight(n, A, p, list[k], (k - 1) + 1)
      BY <3>1, <3>2, <3>3, SiblingStep
    <3>. QED BY <2>1, <3>1, <3>4
  <2>. QED BY <2>2, <2>3
<1>3. SiblingsRight(n, A, p, list[N], N)
  BY <1>0, <1>2
<1>. HIDE DEF s, N
<1>4. PICK c \in Nat : c = Len(s)
  BY <1>1, <1>3 DEF SiblingsRight
<1>5. s \in Seq(A) /\ s \in Seq(Entity) /\ Distinct(s)
  BY <1>0, <1>1, <1>3 DEF SiblingsRight
<1>6. list[N].at = NULL
  <2>. SUFFICES ASSUME list[N].at # NULL PROVE FALSE
    OBVIOUS
  <2>1. list[N].at \in Entity /\ Len(s) = N
    BY <1>0, <1>1, <1>3 DEF SiblingsRight
  <2>2. list[N].at \notin Listing(s)
    <3>1. SiblingsRight(n, A, p, Sibling(n, list[N]), N + 1)
      BY <1>0, <1>3, SiblingStep
    <3>2. Sibling(n, list[N]).out = <<list[N].at>> \o s
      BY <1>1 DEF Sibling
    <3>3. Distinct(<<list[N].at>> \o s)
      BY <3>1, <3>2 DEF SiblingsRight
    <3> DEFINE t == <<list[N].at>> \o s
    <3>4. Len(t) = c + 1 /\ t[1] = list[N].at /\ \A i \in 1 .. c + 1 : i # 1 => t[i] = s[i - 1]
      BY <1>4, <1>5
    <3>. HIDE DEF t
    <3>5. ASSUME NEW i \in 1 .. c, s[i] = list[N].at PROVE FALSE
      <4>1. i + 1 \in 1 .. c + 1 /\ 1 \in 1 .. c + 1 /\ i + 1 # 1 /\ (i + 1) - 1 = i
        OBVIOUS
      <4>2. t[i + 1] = t[1]
        BY <3>4, <3>5, <4>1
      <4>. QED BY <3>3, <3>4, <4>1, <4>2 DEF Distinct, t
    <3>. QED BY <1>4, <3>5 DEF Listing
  <2>. QED BY <1>0, <1>5, <2>1, <2>2, DistinctLength DEF N
<1>7. /\ \A i \in 1 .. c : /\ n[s[i]].parent = p
                           /\ n[s[i]].prev_sibling = IF i = 1 THEN NULL ELSE s[i - 1]
      /\ IF c = 0 THEN n[p].last_child = NULL ELSE s[c] = n[p].last_child
  BY <1>1, <1>3, <1>4, <1>6 DEF SiblingsRight
<1>8. \A x \in Listing(s) : n[x].parent = p
  BY <1>4, <1>7 DEF Listing
<1>9. \A x \in A : n[x].parent = p => x \in Listing(s)
  <2> DEFINE S == {x \in A : n[x].parent = p /\ x \notin Listing(s)}
  <2>1. ASSUME NEW x \in S PROVE n[x].next_sibling \in S
    <3>0. x \in A /\ n[x].parent = p /\ x \notin Listing(s)
      OBVIOUS
    <3>1. n[x].next_sibling # NULL
      <4>. SUFFICES ASSUME n[x].next_sibling = NULL PROVE FALSE
        OBVIOUS
      <4>1. n[p].last_child = x
        BY <1>0, <3>0 DEF Tree, Listed
      <4>2. c # 0 /\ s[c] = x /\ c \in 1 .. c
        BY <1>0, <1>7, <3>0, <4>1
      <4>. QED BY <1>4, <3>0, <4>2 DEF Listing
    <3> DEFINE y == n[x].next_sibling
    <3>2. y \in A /\ n[y].parent = p /\ n[y].prev_sibling = x
      BY <1>0, <3>0, <3>1 DEF Tree, Inside, Listed
    <3>. HIDE DEF y
    <3>3. ASSUME NEW i \in 1 .. c, s[i] = y PROVE FALSE
      <4>1. i # 1 /\ s[i - 1] = x
        BY <1>0, <1>7, <3>0, <3>2, <3>3
      <4>2. i - 1 \in 1 .. c
        BY <4>1
      <4>. QED BY <1>4, <3>0, <4>1, <4>2 DEF Listing
    <3>4. y \notin Listing(s)
      BY <1>4, <3>3 DEF Listing
    <3>. QED BY <3>2, <3>4 DEF y
  <2>2. S \in SUBSET A
    OBVIOUS
  <2>3. S = {}
    <3>. HIDE DEF S
    <3>. QED BY <2>1, <2>2 DEF Tree, OnEnds
  <2>. QED BY <2>3
<1>10. \A i \in 1 .. Len(s) : n[s[i]].prev_sibling = IF i = 1 THEN NULL ELSE s[i - 1]
  BY <1>4, <1>7
<1>. QED BY <1>5, <1>8, <1>9, <1>10 DEF s

-----------------------------------------------------------------------------
\* The walk of depth_first: pop a node, push its children.
Popped(n, w) ==
  IF w.stack = <<>> THEN w
  ELSE [stack |-> children(n, Head(w.stack)) \o Tail(w.stack), out |-> Append(w.out, Head(w.stack))]
Walks(n, N, walk) ==
  walk = [k \in 0 .. N |-> IF k = 0 THEN [stack |-> children(n, NULL), out |-> <<>>]
                                    ELSE Popped(n, walk[k - 1])]

\* There is such a walk of every length.
LEMMA WalksExist ==
  ASSUME NEW n, NEW N \in Nat
  PROVE  \E walk : Walks(n, N, walk)
<1> DEFINE Bad == {m \in Nat : ~\E walk : Walks(n, m, walk)}
           start == [stack |-> children(n, NULL), out |-> <<>>]
<1>. SUFFICES ASSUME N \in Bad PROVE FALSE
  OBVIOUS
<1>1. PICK m \in Bad : \A l \in Bad : m <= l
  BY LeastOf
<1>2. CASE m = 0
  <2>1. Walks(n, 0, [l \in 0 .. 0 |-> start])
    BY DEF Walks
  <2>. QED BY <1>2, <2>1
<1>3. CASE m # 0
  <2>1. m - 1 \in Nat /\ m - 1 \notin Bad
    BY <1>1, <1>3
  <2>2. PICK g : Walks(n, m - 1, g)
    BY <2>1
  <2>. DEFINE h == [l \in 0 .. m |-> IF l = m THEN Popped(n, g[m - 1]) ELSE g[l]]
  <2>3. ASSUME NEW l \in 0 .. m
        PROVE  h[l] = IF l = 0 THEN start ELSE Popped(n, h[l - 1])
    <3>1. CASE l = m
      <4>1. h[l - 1] = g[m - 1] /\ l # 0
        BY <1>3, <3>1
      <4>. QED BY <3>1, <4>1
    <3>2. CASE l # m
      <4>1. l \in 0 .. m - 1 /\ h[l] = g[l] /\ (l # 0 => h[l - 1] = g[l - 1])
        BY <3>2
      <4>2. g[l] = IF l = 0 THEN start ELSE Popped(n, g[l - 1])
        BY <2>2, <4>1 DEF Walks
      <4>. QED BY <4>1, <4>2
    <3>. QED BY <3>1, <3>2
  <2>4. h = [l \in 0 .. m |-> h[l]]
    OBVIOUS
  <2>5. Walks(n, m, h)
    BY <2>3, <2>4, Zenon DEF Walks
  <2>. QED BY <2>5
<1>. QED BY <1>2, <1>3

\* depth_first is the end of such a walk.
LEMMA DepthWalk ==
  ASSUME NEW n
  PROVE  \E walk : Walks(n, Cardinality(Entity), walk) /\ depth_first(n) = walk[Cardinality(Entity)].out
<1> DEFINE N == Cardinality(Entity)
           walk == CHOOSE g : Walks(n, N, g)
<1>1. N \in Nat
  BY HierarchyAssumption, FS_CardinalityType
<1>2. Walks(n, N, walk)
  BY <1>1, WalksExist
<1>3. depth_first(n) = walk[N].out
  BY DEF depth_first, Walks, Popped
<1>. QED BY <1>2, <1>3

\* What the walk holds after k steps: nobody twice, on the way are exactly the
\* roots and the children of those passed, and every parent came before.
OutAfterParent(n, s) ==
  \A i \in 1 .. Len(s) : n[s[i]].parent # NULL => \E j \in 1 .. Len(s) : j < i /\ s[j] = n[s[i]].parent
WalkRight(n, A, w, k) ==
  /\ w.out \in Seq(A) /\ w.stack \in Seq(A) /\ Distinct(w.out) /\ Distinct(w.stack)
  /\ Listing(w.out) \cap Listing(w.stack) = {}
  /\ w.stack # <<>> => Len(w.out) = k
  /\ \A x \in A : n[x].parent \in Listing(w.out) \cup {NULL} <=> x \in Listing(w.out) \cup Listing(w.stack)
  /\ OutAfterParent(n, w.out)

\* A node whose parent is out can follow.
LEMMA AppendAfterParent ==
  ASSUME NEW n, NEW T, NEW s \in Seq(T), OutAfterParent(n, s), NEW h \in T,
         n[h].parent # NULL => n[h].parent \in Listing(s)
  PROVE  OutAfterParent(n, Append(s, h))
<1>1. PICK c \in Nat : c = Len(s)
  OBVIOUS
<1> DEFINE t == Append(s, h)
<1>2. Len(t) = c + 1 /\ t[c + 1] = h /\ \A i \in 1 .. c : t[i] = s[i]
  BY <1>1
<1>. HIDE DEF t
<1>3. ASSUME NEW i \in 1 .. c + 1, n[t[i]].parent # NULL
      PROVE  \E j \in 1 .. c + 1 : j < i /\ t[j] = n[t[i]].parent
  <2>1. CASE i = c + 1
    <3>1. PICK j \in 1 .. c : s[j] = n[h].parent
      BY <1>1, <1>2, <1>3, <2>1 DEF Listing
    <3>2. j \in 1 .. c + 1 /\ j < i /\ t[j] = s[j]
      BY <1>2, <2>1
    <3>. QED BY <1>2, <2>1, <3>1, <3>2
  <2>2. CASE i # c + 1
    <3>1. i \in 1 .. c /\ t[i] = s[i]
      BY <1>2, <2>2
    <3>2. PICK j \in 1 .. c : j < i /\ s[j] = n[s[i]].parent
      BY <1>1, <1>3, <3>1 DEF OutAfterParent
    <3>3. j \in 1 .. c + 1 /\ t[j] = s[j]
      BY <1>2
    <3>. QED BY <3>1, <3>2, <3>3
  <2>. QED BY <2>1, <2>2
<1>. QED BY <1>2, <1>3 DEF OutAfterParent, t

\* One step of the walk: an entity leaves the stack, its children enter it.
LEMMA PopStep ==
  ASSUME NEW n, NEW A, Tree(n, A, NULL), NEW k \in Nat, NEW w, WalkRight(n, A, w, k)
  PROVE  WalkRight(n, A, Popped(n, w), k + 1)
<1>0. NULL \notin A /\ A \subseteq Ends
  BY HierarchyAssumption DEF Tree, Inside, Ends
<1>1. CASE w.stack = <<>>
  <2>1. Popped(n, w) = w
    BY <1>1 DEF Popped
  <2>. QED BY <1>1, <2>1 DEF WalkRight
<1>2. CASE w.stack # <<>>
  <2> DEFINE out == w.out
             stack == w.stack
             h == Head(stack)
             rest == Tail(stack)
             kids == children(n, h)
             pushed == kids \o rest
             grown == Append(out, h)
             m == [stack |-> pushed, out |-> grown]
  <2>1. Popped(n, w) = m
    BY <1>2 DEF Popped
  <2>2. m.stack = pushed /\ m.out = grown
    OBVIOUS
  <2>3. /\ out \in Seq(A) /\ stack \in Seq(A) /\ Distinct(out) /\ Distinct(stack) /\ stack # <<>>
        /\ Listing(out) \cap Listing(stack) = {} /\ Len(out) = k /\ OutAfterParent(n, out)
        /\ \A x \in A : n[x].parent \in Listing(out) \cup {NULL} <=> x \in Listing(out) \cup Listing(stack)
    BY <1>2 DEF WalkRight
  <2>. HIDE DEF m, out, stack
  <2>4. /\ h \in A /\ rest \in Seq(A) /\ Listing(stack) = {h} \cup Listing(rest)
        /\ Distinct(rest) /\ h \notin Listing(rest)
    BY <2>3, SplitList
  <2>. HIDE DEF h, rest
  <2>5. kids \in Seq(A) /\ Distinct(kids) /\ \A x \in A : x \in Listing(kids) <=> n[x].parent = h
    <3>1. h \in Ends
      BY <1>0, <2>4
    <3>. QED BY <3>1, ChildrenListed
  <2>. HIDE DEF kids
  <2>6. Listing(kids) \subseteq A
    BY <2>5 DEF Listing
  <2>7. h # NULL /\ h \notin Listing(out)
    BY <1>0, <2>3, <2>4
  <2>8. \A x \in Listing(kids) : x \notin Listing(out) /\ x \notin Listing(stack)
    BY <2>3, <2>5, <2>6, <2>7
  <2>9. pushed \in Seq(A) /\ Distinct(pushed) /\ Listing(pushed) = Listing(kids) \cup Listing(rest)
    <3>1. Listing(kids) \cap Listing(rest) = {}
      BY <2>4, <2>8
    <3>2. kids \in Seq(A) /\ rest \in Seq(A) /\ Distinct(kids) /\ Distinct(rest)
      BY <2>4, <2>5
    <3>3. /\ kids \o rest \in Seq(A) /\ Listing(kids \o rest) = Listing(kids) \cup Listing(rest)
          /\ Distinct(kids \o rest)
      <4>. HIDE DEF pushed
      <4>. QED BY <3>1, <3>2, JoinLists
    <3>. QED BY <3>3
  <2>10. out \in Seq(A) /\ h \in A /\ Distinct(out) /\ Len(out) = k
    BY <2>3, <2>4
  <2>11. /\ grown \in Seq(A) /\ Distinct(grown) /\ Listing(grown) = Listing(out) \cup {h}
         /\ Len(grown) = k + 1
    BY <2>7, <2>10, LongerList
  <2>12. OutAfterParent(n, grown)
    <3>1. n[h].parent \in Listing(out) \cup {NULL}
      BY <2>3, <2>4
    <3>. QED BY <2>3, <2>4, <3>1, AppendAfterParent
  <2>. HIDE DEF pushed, grown
  <2>13. Listing(grown) \cap Listing(pushed) = {}
    BY <2>3, <2>4, <2>8, <2>9, <2>11
  <2>14. \A x \in A : n[x].parent \in Listing(grown) \cup {NULL} <=> x \in Listing(grown) \cup Listing(pushed)
    BY <2>3, <2>4, <2>5, <2>9, <2>11
  <2>. QED BY <2>1, <2>2, <2>9, <2>11, <2>12, <2>13, <2>14 DEF WalkRight
<1>. QED BY <1>1, <1>2

\* depth_first meets every adopted entity once, parents before children.
LEMMA DepthFirst ==
  ASSUME NEW n, NEW A, Tree(n, A, NULL)
  PROVE  LET s == depth_first(n)
         IN  s \in Seq(A) /\ Distinct(s) /\ Listing(s) = A /\ OutAfterParent(n, s)
<1> DEFINE N == Cardinality(Entity)
           s == depth_first(n)
<1>0. /\ NULL \notin A /\ A \subseteq Ends /\ A \subseteq Entity /\ IsFiniteSet(Entity) /\ N \in Nat /\ NULL \in Ends
      /\ \A x \in A : n[x].parent \in A \cup {NULL}
  BY HierarchyAssumption, FS_CardinalityType DEF Tree, Inside, Ends
<1>1. PICK walk : Walks(n, N, walk) /\ s = walk[N].out
  BY DepthWalk
<1>2. \A k \in 0 .. N : WalkRight(n, A, walk[k], k)
  <2> DEFINE Bad == {k \in 0 .. N : ~WalkRight(n, A, walk[k], k)}
  <2>. SUFFICES ASSUME Bad # {} PROVE FALSE
    OBVIOUS
  <2>1. PICK k \in Bad : \A j \in Bad : k <= j
    <3>1. Bad \in SUBSET Nat
      OBVIOUS
    <3>. QED BY <3>1, LeastOf
  <2>2. CASE k = 0
    <3> DEFINE r == children(n, NULL)
    <3>1. walk[0] = [stack |-> r, out |-> <<>>]
      BY <1>0, <1>1 DEF Walks
    <3>2. r \in Seq(A) /\ Distinct(r) /\ \A x \in A : x \in Listing(r) <=> n[x].parent = NULL
      BY <1>0, ChildrenListed
    <3>. HIDE DEF r
    <3>3. walk[0].stack = r /\ walk[0].out = <<>> /\ <<>> \in Seq(A) /\ Len(<<>>) = 0
      BY <3>1
    <3>4. Distinct(<<>>) /\ Listing(<<>>) = {} /\ OutAfterParent(n, <<>>)
      BY DEF Distinct, Listing, OutAfterParent
    <3>5. WalkRight(n, A, walk[0], 0)
      BY <3>2, <3>3, <3>4 DEF WalkRight
    <3>. QED BY <2>1, <2>2, <3>5
  <2>3. CASE k # 0
    <3>1. k - 1 \in 0 .. N /\ k - 1 \in Nat /\ k - 1 \notin Bad /\ (k - 1) + 1 = k
      BY <1>0, <2>1, <2>3
    <3>2. walk[k] = Popped(n, walk[k - 1])
      BY <1>0, <1>1, <2>1, <2>3 DEF Walks
    <3>3. WalkRight(n, A, walk[k - 1], k - 1)
      BY <3>1
    <3>4. WalkRight(n, A, walk[k], (k - 1) + 1)
      BY <3>1, <3>2, <3>3, PopStep
    <3>. QED BY <2>1, <3>1, <3>4
  <2>. QED BY <2>2, <2>3
<1>3. WalkRight(n, A, walk[N], N)
  BY <1>0, <1>2
<1>. HIDE DEF s, N
<1>4. /\ s \in Seq(A) /\ Distinct(s) /\ OutAfterParent(n, s) /\ s \in Seq(Entity)
      /\ walk[N].stack \in Seq(A) /\ Listing(s) \cap Listing(walk[N].stack) = {}
      /\ walk[N].stack # <<>> => Len(s) = N
      /\ \A x \in A : n[x].parent \in Listing(s) \cup {NULL} <=> x \in Listing(s) \cup Listing(walk[N].stack)
  BY <1>0, <1>1, <1>3 DEF WalkRight
<1>5. walk[N].stack = <<>>
  <2>. SUFFICES ASSUME walk[N].stack # <<>> PROVE FALSE
    OBVIOUS
  <2>1. Head(walk[N].stack) \in A /\ Head(walk[N].stack) \in Listing(walk[N].stack)
    BY <1>4, SplitList
  <2>2. Head(walk[N].stack) \in Entity /\ Head(walk[N].stack) \notin Listing(s) /\ Len(s) = N
    BY <1>0, <1>4, <2>1
  <2>. QED BY <1>0, <1>4, <2>2, DistinctLength DEF N
<1>6. \A x \in A : n[x].parent \in Listing(s) \cup {NULL} <=> x \in Listing(s)
  <2>1. Listing(walk[N].stack) = {}
    <3>1. Listing(<<>>) = {}
      BY DEF Listing
    <3>. QED BY <1>5, <3>1
  <2>. QED BY <1>4, <2>1
<1>7. Listing(s) = A
  <2> DEFINE S == {x \in A : x \notin Listing(s)}
  <2>1. \A x \in S : n[x].parent \in S
    BY <1>0, <1>6
  <2>2. S \in SUBSET A
    OBVIOUS
  <2>3. S = {}
    <3>. HIDE DEF S
    <3>. QED BY <2>1, <2>2 DEF Tree, UpEnds
  <2>4. Listing(s) \subseteq A
    BY <1>4 DEF Listing
  <2>. QED BY <2>3, <2>4
<1>. QED BY <1>4, <1>7 DEF s

-----------------------------------------------------------------------------
\* The first and last, next and previous links mirror each other, and the walk
\* from the roots meets every adopted entity once, also inside a cascade.
THEOREM TreeStaysWellFormed == HierarchySpec => []TreeWellFormed
<1>1. HierarchyIInv => TreeWellFormed
  <2>. SUFFICES ASSUME HierarchyIInv PROVE TreeWellFormed
    OBVIOUS
  <2>0. /\ NULL \notin adopted /\ adopted \subseteq Entity /\ adopted \subseteq Ends /\ NULL \in Ends
        /\ Tree(node, adopted, NULL) /\ node \in Nodes /\ Good(node, adopted) /\ RowsRight
    BY HierarchyAssumption DEF HierarchyIInv, Good, Tree, Inside, Ends
  <2>1. HierarchyTypeOK
    <3>1. DOMAIN node = Entity \cup {NULL} /\ Ends = Entity \cup {NULL}
      BY <2>0 DEF Nodes, Ends
    <3>2. \A e \in Ends :
            /\ {node[e].parent, node[e].first_child, node[e].last_child,
                node[e].prev_sibling, node[e].next_sibling} \subseteq adopted \cup {NULL}
            /\ node[e].dormant_depth \in Nat
      BY <2>0 DEF Good, Tree, Inside, CoverRight
    <3>3. \A e \in Ends : e \notin adopted \cup {NULL} => node[e] = BlankNode
      <4>. SUFFICES ASSUME NEW e \in Ends, e \notin adopted \cup {NULL} PROVE node[e] = BlankNode
        OBVIOUS
      <4>1. e \in Entity \ adopted
        BY DEF Ends
      <4>. QED BY <2>0, <4>1, BlankRow
    <3>4. Range(despawning) \subseteq Alive
      BY <2>0 DEF RowsRight, Range
    <3>. QED BY <2>0, <3>1, <3>2, <3>3, <3>4 DEF HierarchyTypeOK, RowsRight
  <2>2. \A e \in adopted :
          LET n == node[e]  p == node[n.parent]
          IN  /\ IF n.next_sibling = NULL THEN p.last_child = e
                 ELSE node[n.next_sibling].prev_sibling = e /\ node[n.next_sibling].parent = n.parent
              /\ IF n.prev_sibling = NULL THEN p.first_child = e
                 ELSE node[n.prev_sibling].next_sibling = e
    BY <2>0 DEF Tree, Listed
  <2>3. \A e \in adopted \cup {NULL} : (node[e].first_child = NULL) = (node[e].last_child = NULL)
    BY <2>0 DEF Tree, Headed
  <2> DEFINE s == depth_first(node)
  <2>4. s \in Seq(adopted) /\ Distinct(s) /\ Listing(s) = adopted
    BY <2>0, DepthFirst
  <2>. HIDE DEF s
  <2>5. Range(s) = adopted
    <3>1. Range(s) = Listing(s)
      BY <2>4, RangeOf DEF Listing
    <3>. QED BY <2>4, <3>1
  <2>6. Len(s) = Cardinality(adopted)
    <3>1. IsFiniteSet(adopted)
      BY <2>0, HierarchyAssumption, FS_Subset
    <3>. QED BY <2>4, <3>1, DistinctLength
  <2>. QED BY <2>1, <2>2, <2>3, <2>5, <2>6 DEF TreeWellFormed, s
<1>. QED BY <1>1, HierarchyInvariant, PTL

-----------------------------------------------------------------------------
\* Transforms.  The marks as sets of nodes.
Dirty(n) == {d \in Ends : n[d].transform_dirty}
Below(n) == {d \in Ends : n[d].transform_dirty_below}

\* A mark is known to the parent; a clean matrix is the parent's times the local.
MarksRight(n, A) ==
  \A e \in A : e \in Dirty(n) \cup Below(n) /\ n[e].parent # NULL => n[e].parent \in Below(n)
WorldsRight(n, A, w, l) ==
  \A e \in A : e \notin Dirty(n) =>
    w[e] = Compose(IF n[e].parent = NULL THEN Identity ELSE w[n[e].parent], l[e])

TransformIInv ==
  /\ MarksRight(node, adopted) /\ WorldsRight(node, adopted, world, local)
  /\ any_transform_dirty \in BOOLEAN
  /\ Dirty(node) \cap adopted # {} => any_transform_dirty
  /\ world = [e \in Entity |-> world[e]]

\* How the marks move.
LEMMA SameDirty ==
  ASSUME NEW n, NEW m, \A d \in Ends : SameMarks(n, m, d)
  PROVE  Dirty(m) = Dirty(n) /\ Below(m) = Below(n)
  BY Zenon DEF SameMarks, Dirty, Below

\* mark_transform_dirty adds one dirty node and the path above it.
LEMMA MarkedDirty ==
  ASSUME NEW n, NEW m, NEW e \in Ends, Marked(n, m, e), MarkPath(n, e) \subseteq Ends
  PROVE  Dirty(m) = Dirty(n) \cup {e} /\ Below(m) = Below(n) \cup MarkPath(n, e)
<1> DEFINE P == MarkPath(n, e)
<1>1. \A d \in Ends : /\ m[d].transform_dirty = (n[d].transform_dirty \/ d = e)
                      /\ m[d].transform_dirty_below = (n[d].transform_dirty_below \/ d \in P)
  BY DEF Marked
<1>2. P \subseteq Ends
  OBVIOUS
<1>. HIDE DEF P
<1>3. \A d \in Ends : /\ d \in Dirty(m) <=> d \in Dirty(n) \/ d = e
                      /\ d \in Below(m) <=> d \in Below(n) \/ d \in P
  BY <1>1, Zenon DEF Dirty, Below
<1>4. Dirty(m) \subseteq Ends /\ Dirty(n) \subseteq Ends /\ Below(m) \subseteq Ends /\ Below(n) \subseteq Ends
  BY Zenon DEF Dirty, Below
<1>. QED BY <1>2, <1>3, <1>4 DEF P

\* Adoption adds one dirty node.
LEMMA AdoptedDirty ==
  ASSUME NEW n, NEW m, NEW e \in Ends, Adopted(n, m, e)
  PROVE  Dirty(m) = Dirty(n) \cup {e} /\ Below(m) = Below(n)
<1>1. \A d \in Ends : /\ m[d].transform_dirty = (n[d].transform_dirty \/ d = e)
                      /\ m[d].transform_dirty_below = n[d].transform_dirty_below
  BY DEF Adopted
<1>2. \A d \in Ends : (d \in Dirty(m) <=> d \in Dirty(n) \/ d = e) /\ (d \in Below(m) <=> d \in Below(n))
  BY <1>1, Zenon DEF Dirty, Below
<1>3. Dirty(m) \subseteq Ends /\ Dirty(n) \subseteq Ends /\ Below(m) \subseteq Ends /\ Below(n) \subseteq Ends
  BY Zenon DEF Dirty, Below
<1>. QED BY <1>2, <1>3

\* A propagation cleans the nodes it has visited.
LEMMA CleanedDirty ==
  ASSUME NEW n, NEW m, NEW fresh, NEW open, Cleaned(n, m, fresh, open)
  PROVE  Dirty(m) = Dirty(n) \ fresh /\ Below(m) = Below(n) \ open
<1>1. \A d \in Ends : /\ m[d].transform_dirty = (n[d].transform_dirty /\ d \notin fresh)
                      /\ m[d].transform_dirty_below = (n[d].transform_dirty_below /\ d \notin open)
  BY DEF Cleaned
<1>2. \A d \in Ends : /\ d \in Dirty(m) <=> d \in Dirty(n) /\ d \notin fresh
                      /\ d \in Below(m) <=> d \in Below(n) /\ d \notin open
  BY <1>1, Zenon DEF Dirty, Below
<1>3. Dirty(m) \subseteq Ends /\ Dirty(n) \subseteq Ends /\ Below(m) \subseteq Ends /\ Below(n) \subseteq Ends
  BY Zenon DEF Dirty, Below
<1>. QED BY <1>2, <1>3

\* The climb of a mark only stops at a root or below a marked node.
LEMMA MarkPathClosed ==
  ASSUME NEW n, NEW A, Tree(n, A, NULL), NEW e \in A
  PROVE  \A x \in MarkPath(n, e) \cup {e} :
           n[x].parent # NULL => n[x].parent \in MarkPath(n, e) \cup Below(n)
<1> DEFINE Unmarked(p) == {a \in {p} \ {NULL} : ~n[a].transform_dirty_below}
           P == MarkPath(n, e)
           Closed(S) == /\ Unmarked(n[e].parent) \ {NULL} \subseteq S
                        /\ \A d \in S : Unmarked(n[d].parent) \ {NULL} \subseteq S
<1>0. A \subseteq Entity /\ A \subseteq Ends /\ \A d \in A : n[d].parent \in A \cup {NULL}
  BY DEF Tree, Inside, Ends
<1>1. P = {x \in Entity : \A S \in SUBSET Entity : Closed(S) => x \in S}
  BY DEF MarkPath
<1>2. P \subseteq A
  BY MarkPathInside
<1>. HIDE DEF P, Closed
<1>3. ASSUME NEW x \in P \cup {e}, n[x].parent # NULL, n[x].parent \notin Below(n)
      PROVE  n[x].parent \in P
  <2> DEFINE a == n[x].parent
  <2>1. x \in A /\ a \in A /\ a \in Entity /\ a \in Ends
    BY <1>0, <1>2, <1>3
  <2>2. ~n[a].transform_dirty_below
    BY <1>3, <2>1, Zenon DEF Below
  <2>3. a \in Unmarked(n[x].parent) \ {NULL}
    BY <1>3, <2>2
  <2>. HIDE DEF a
  <2>4. ASSUME NEW S \in SUBSET Entity, Closed(S) PROVE a \in S
    <3>1. /\ Unmarked(n[e].parent) \ {NULL} \subseteq S
          /\ \A d \in S : Unmarked(n[d].parent) \ {NULL} \subseteq S
      BY <2>4 DEF Closed
    <3>2. x = e \/ x \in S
      BY <1>1, <1>3, <2>4
    <3>. HIDE DEF Unmarked
    <3>. QED BY <2>3, <3>1, <3>2
  <2>. QED BY <1>1, <2>1, <2>4 DEF a
<1>. QED BY <1>3 DEF P

\* Marking restores what a dirty node and its path need.
LEMMA MarksRestored ==
  ASSUME NEW n, NEW A, Tree(n, A, NULL), NEW e \in A, MarksRight(n, A \ {e}),
         NEW m, Marked(n, m, e)
  PROVE  /\ MarksRight(m, A) /\ Dirty(m) = Dirty(n) \cup {e}
         /\ \A d \in Ends : m[d].parent = n[d].parent
<1> DEFINE P == MarkPath(n, e)
<1>0. A \subseteq Entity /\ A \subseteq Ends /\ e \in Ends
  BY DEF Tree, Inside, Ends
<1>1. P \subseteq A /\ P \subseteq Ends
  BY <1>0, MarkPathInside
<1>2. Dirty(m) = Dirty(n) \cup {e} /\ Below(m) = Below(n) \cup P
  BY <1>0, <1>1, MarkedDirty
<1>3. \A d \in Ends : m[d].parent = n[d].parent
  BY DEF Marked, SameLinks
<1>4. \A x \in P \cup {e} : n[x].parent # NULL => n[x].parent \in P \cup Below(n)
  BY MarkPathClosed
<1>5. \A x \in A \ {e} : x \in Dirty(n) \cup Below(n) /\ n[x].parent # NULL => n[x].parent \in Below(n)
  BY DEF MarksRight
<1>. HIDE DEF P
<1>6. MarksRight(m, A)
  <2>. SUFFICES ASSUME NEW x \in A, x \in Dirty(m) \cup Below(m), m[x].parent # NULL
                PROVE  m[x].parent \in Below(m)
    BY DEF MarksRight
  <2>1. m[x].parent = n[x].parent
    BY <1>0, <1>3
  <2>. QED BY <1>2, <1>4, <1>5, <2>1
<1>. QED BY <1>2, <1>3, <1>6

\* A table with the same parents, and marks and matrices as good.
LEMMA WorldsKept ==
  ASSUME NEW n, NEW A, NEW w, NEW l, WorldsRight(n, A, w, l),
         NEW m, NEW B, NEW k, \A e \in B : e \notin Dirty(m) =>
           e \in A /\ e \notin Dirty(n) /\ m[e].parent = n[e].parent /\ k[e] = l[e]
  PROVE  WorldsRight(m, B, w, k)
<1>. SUFFICES ASSUME NEW e \in B, e \notin Dirty(m)
              PROVE  w[e] = Compose(IF m[e].parent = NULL THEN Identity ELSE w[m[e].parent], k[e])
  BY DEF WorldsRight
<1>1. e \in A /\ e \notin Dirty(n) /\ m[e].parent = n[e].parent /\ k[e] = l[e]
  OBVIOUS
<1>2. w[e] = Compose(IF n[e].parent = NULL THEN Identity ELSE w[n[e].parent], l[e])
  BY <1>1 DEF WorldsRight
<1>. QED BY <1>1, <1>2

\* A step that keeps parents, marks, matrices and locals.
LEMMA TransformSame ==
  ASSUME TransformIInv, adopted \subseteq Ends,
         \A d \in Ends : node'[d].parent = node[d].parent /\ SameMarks(node, node', d),
         adopted' = adopted, world' = world, local' = local, any_transform_dirty' = any_transform_dirty
  PROVE  TransformIInv'
<1>1. Dirty(node') = Dirty(node) /\ Below(node') = Below(node)
  BY SameDirty
<1>2. MarksRight(node', adopted')
  BY <1>1 DEF TransformIInv, MarksRight
<1>3. WorldsRight(node', adopted', world', local')
  <2>1. \A e \in adopted' : e \notin Dirty(node') =>
          e \in adopted /\ e \notin Dirty(node) /\ node'[e].parent = node[e].parent /\ local'[e] = local[e]
    BY <1>1
  <2>2. WorldsRight(node, adopted, world, local)
    BY DEF TransformIInv
  <2>. QED BY <2>1, <2>2, WorldsKept
<1>. QED BY <1>1, <1>2, <1>3 DEF TransformIInv

\* A stranger that joins is dirty and a root.
LEMMA EnteredTransforms ==
  ASSUME NEW n, NEW A, Good(n, A), NEW e \in Ends, NEW w, NEW l,
         MarksRight(n, A), WorldsRight(n, A, w, l)
  PROVE  LET m == IF e \notin A \cup {NULL} THEN adopt_node(n, e) ELSE n
             B == A \cup ({e} \ {NULL})
         IN  /\ MarksRight(m, B) /\ WorldsRight(m, B, w, l)
             /\ Dirty(m) \subseteq Dirty(n) \cup {e} /\ (e \in A \cup {NULL} => m = n)
<1> DEFINE m == IF e \notin A \cup {NULL} THEN adopt_node(n, e) ELSE n
           B == A \cup ({e} \ {NULL})
<1>1. CASE e \notin A \cup {NULL}
  <2>1. e \in Entity \ A /\ B = A \cup {e} /\ m = adopt_node(n, e)
    BY <1>1 DEF Ends
  <2>2. Adopted(n, m, e)
    <3>1. Adopted(n, adopt_node(n, e), e)
      BY <2>1, GoodAdopted
    <3>. QED BY <2>1, <3>1
  <2>. HIDE DEF m, B
  <2>3. Dirty(m) = Dirty(n) \cup {e} /\ Below(m) = Below(n)
    BY <2>2, AdoptedDirty
  <2>4. \A d \in Ends : m[d].parent = n[d].parent
    BY <2>2 DEF Adopted
  <2>5. A \subseteq Ends /\ n[e].parent = NULL
    <3>1. e \in Ends \ A /\ Inside(n, A) /\ Entity \subseteq Ends
      BY <1>1 DEF Good, Tree, Ends
    <3>. QED BY <3>1 DEF Inside
  <2>6. MarksRight(m, B)
    BY <2>1, <2>3, <2>4, <2>5 DEF MarksRight
  <2>7. WorldsRight(m, B, w, l)
    <3>1. \A x \in B : x \notin Dirty(m) =>
            x \in A /\ x \notin Dirty(n) /\ m[x].parent = n[x].parent /\ l[x] = l[x]
      BY <2>1, <2>3, <2>4, <2>5
    <3>. QED BY <3>1, WorldsKept
  <2>. QED BY <1>1, <2>3, <2>6, <2>7 DEF m, B
<1>2. CASE e \in A \cup {NULL}
  <2>1. m = n /\ B = A
    BY <1>2
  <2>. QED BY <1>2, <2>1
<1>. QED BY <1>1, <1>2

-----------------------------------------------------------------------------
\* The walk of propagate over the items of depth_first.
Visits(items, k, walk) ==
  walk = [i \in 0 .. k |-> IF i = 0 THEN [world |-> world, fresh |-> {}, open |-> {NULL}]
                                    ELSE visit(walk[i - 1], items[i])]

\* There is such a walk of every length.
LEMMA VisitsExist ==
  ASSUME NEW items, NEW k \in Nat
  PROVE  \E walk : Visits(items, k, walk)
<1> DEFINE Bad == {m \in Nat : ~\E walk : Visits(items, m, walk)}
           start == [world |-> world, fresh |-> {}, open |-> {NULL}]
<1>. SUFFICES ASSUME k \in Bad PROVE FALSE
  OBVIOUS
<1>1. PICK m \in Bad : \A l \in Bad : m <= l
  BY LeastOf
<1>2. CASE m = 0
  <2>1. Visits(items, 0, [l \in 0 .. 0 |-> start])
    BY DEF Visits
  <2>. QED BY <1>2, <2>1
<1>3. CASE m # 0
  <2>1. m - 1 \in Nat /\ m - 1 \notin Bad
    BY <1>1, <1>3
  <2>2. PICK g : Visits(items, m - 1, g)
    BY <2>1
  <2>. DEFINE h == [l \in 0 .. m |-> IF l = m THEN visit(g[m - 1], items[m]) ELSE g[l]]
  <2>3. ASSUME NEW l \in 0 .. m
        PROVE  h[l] = IF l = 0 THEN start ELSE visit(h[l - 1], items[l])
    <3>1. CASE l = m
      <4>1. h[l - 1] = g[m - 1] /\ l # 0
        BY <1>3, <3>1
      <4>. QED BY <3>1, <4>1
    <3>2. CASE l # m
      <4>1. l \in 0 .. m - 1 /\ h[l] = g[l] /\ (l # 0 => h[l - 1] = g[l - 1])
        BY <3>2
      <4>2. g[l] = IF l = 0 THEN start ELSE visit(g[l - 1], items[l])
        BY <2>2, <4>1 DEF Visits
      <4>. QED BY <4>1, <4>2
    <3>. QED BY <3>1, <3>2
  <2>4. h = [l \in 0 .. m |-> h[l]]
    OBVIOUS
  <2>5. Visits(items, m, h)
    BY <2>3, <2>4, Zenon DEF Visits
  <2>. QED BY <2>5
<1>. QED BY <1>2, <1>3

\* Propagated is the end of such a walk.
LEMMA PropagatedWalk ==
  ASSUME Len(depth_first(node)) \in Nat
  PROVE  LET s == depth_first(node)
         IN  \E walk : Visits(s, Len(s), walk) /\ Propagated = walk[Len(s)]
<1> DEFINE s == depth_first(node)
           walk == CHOOSE g : Visits(s, Len(s), g)
<1>1. Visits(s, Len(s), walk)
  BY VisitsExist
<1>2. Propagated = walk[Len(s)]
  BY DEF Propagated, Visits
<1>. QED BY <1>1, <1>2

\* What a node is after its visit: recomputed when its parent was or it is
\* dirty, open when also marked below, and only if its parent is open.
VisitRight(acc, e) ==
  LET p == node[e].parent
  IN  /\ e \in acc.fresh <=> p \in acc.open /\ (p \in acc.fresh \/ e \in Dirty(node))
      /\ e \in acc.open <=>
           p \in acc.open /\ (p \in acc.fresh \/ e \in Dirty(node) \/ e \in Below(node))
      /\ e \in acc.fresh =>
           acc.world[e] = Compose(IF p = NULL THEN Identity ELSE acc.world[p], local[e])

\* The walk after k items.
VisitsRight(s, acc, k) ==
  /\ acc.world = [e \in Entity |-> acc.world[e]]
  /\ acc.fresh \subseteq Entity /\ acc.open \subseteq Ends /\ NULL \in acc.open
  /\ \A e \in Entity : e \notin acc.fresh => acc.world[e] = world[e]
  /\ \A e \in Entity : e \in acc.fresh \cup acc.open => \E i \in 1 .. k : s[i] = e
  /\ \A i \in 1 .. k : VisitRight(acc, s[i])

\* One visit, field by field.
LEMMA VisitFields ==
  ASSUME NEW acc, NEW e \in Entity
  PROVE  LET p == node[e].parent
             pw == IF p = NULL THEN Identity ELSE acc.world[p]
             do == p \in acc.fresh \/ e \in Dirty(node)
             new == visit(acc, e)
         IN  /\ p \notin acc.open => new = acc
             /\ p \in acc.open =>
                  /\ new.world = IF do THEN [acc.world EXCEPT ![e] = Compose(pw, local[e])] ELSE acc.world
                  /\ new.fresh = IF do THEN acc.fresh \cup {e} ELSE acc.fresh
                  /\ new.open = IF do \/ e \in Below(node) THEN acc.open \cup {e} ELSE acc.open
<1>1. e \in Ends
  BY DEF Ends
<1>2. node[e].transform_dirty <=> e \in Dirty(node)
  BY <1>1, Zenon DEF Dirty
<1>3. node[e].transform_dirty_below <=> e \in Below(node)
  BY <1>1, Zenon DEF Below
<1> DEFINE p == node[e].parent
           pw == IF p = NULL THEN Identity ELSE acc.world[p]
           do == p \in acc.fresh \/ e \in Dirty(node)
           over == [world |-> IF do THEN [acc.world EXCEPT ![e] = Compose(pw, local[e])] ELSE acc.world,
                    fresh |-> IF do THEN acc.fresh \cup {e} ELSE acc.fresh,
                    open |-> IF do \/ e \in Below(node) THEN acc.open \cup {e} ELSE acc.open]
<1>4. visit(acc, e) = IF p \notin acc.open THEN acc ELSE over
  <2>1. CASE p \in acc.fresh \/ node[e].transform_dirty
    BY <1>2, <1>3, <2>1, Zenon DEF visit
  <2>2. CASE ~(p \in acc.fresh \/ node[e].transform_dirty)
    BY <1>2, <1>3, <2>2, Zenon DEF visit
  <2>. QED BY <2>1, <2>2
<1>. QED BY <1>4

\* One step of propagate: the next entity of the order is visited.
LEMMA VisitStep ==
  ASSUME HierarchyIInv, NEW s \in Seq(adopted), Distinct(s), OutAfterParent(node, s),
         NEW k \in Nat, k < Len(s), NEW acc, VisitsRight(s, acc, k)
  PROVE  VisitsRight(s, visit(acc, s[k + 1]), k + 1)
<1> DEFINE e == s[k + 1]
           p == node[e].parent
           pw == IF p = NULL THEN Identity ELSE acc.world[p]
           do == p \in acc.fresh \/ e \in Dirty(node)
           new == visit(acc, e)
<1>1. PICK c \in Nat : c = Len(s)
  OBVIOUS
<1>2. /\ NULL \notin Entity /\ adopted \subseteq Entity /\ adopted \subseteq Ends
      /\ \A x \in Ends : node[x].parent \in adopted \cup {NULL}
  BY Members
<1>3. \A i \in 1 .. c : s[i] \in adopted
  BY <1>1
<1>4. k + 1 \in 1 .. c /\ e \in adopted /\ e \in Entity /\ e # NULL
  BY <1>1, <1>2, <1>3
<1>5. /\ p \notin acc.open => new = acc
      /\ p \in acc.open =>
           /\ new.world = IF do THEN [acc.world EXCEPT ![e] = Compose(pw, local[e])] ELSE acc.world
           /\ new.fresh = IF do THEN acc.fresh \cup {e} ELSE acc.fresh
           /\ new.open = IF do \/ e \in Below(node) THEN acc.open \cup {e} ELSE acc.open
  BY <1>4, VisitFields
<1>6. /\ acc.world = [x \in Entity |-> acc.world[x]]
      /\ acc.fresh \subseteq Entity /\ acc.open \subseteq Ends /\ NULL \in acc.open
      /\ \A x \in Entity : x \notin acc.fresh => acc.world[x] = world[x]
      /\ \A x \in Entity : x \in acc.fresh \cup acc.open => \E i \in 1 .. k : s[i] = x
  BY DEF VisitsRight
<1>60. \A i \in 1 .. k : VisitRight(acc, s[i])
  BY DEF VisitsRight
<1>7. \A i \in 1 .. k : i \in 1 .. c /\ i \in 1 .. k + 1 /\ s[i] # e
  BY <1>1, <1>4 DEF Distinct
<1>8. e \notin acc.fresh /\ e \notin acc.open
  BY <1>4, <1>6, <1>7
<1>9. \A i \in 1 .. k + 1 : node[s[i]].parent # e
  <2>. SUFFICES ASSUME NEW i \in 1 .. k + 1, node[s[i]].parent = e PROVE FALSE
    OBVIOUS
  <2>1. i \in 1 .. c
    BY <1>1
  <2>2. PICK j \in 1 .. c : j < i /\ s[j] = e
    BY <1>1, <1>4, <2>1 DEF OutAfterParent
  <2>3. j \in 1 .. k
    BY <2>2
  <2>. QED BY <1>7, <2>2, <2>3
<1>10. p # e
  <2>1. k + 1 \in 1 .. k + 1
    OBVIOUS
  <2>. QED BY <1>9, <2>1
<1>. HIDE DEF e, p, pw, do, new
<1>11. /\ new.world = [x \in Entity |-> new.world[x]]
       /\ new.fresh = acc.fresh \/ new.fresh = acc.fresh \cup {e}
       /\ new.open = acc.open \/ new.open = acc.open \cup {e}
       /\ \A x \in Entity : x # e => new.world[x] = acc.world[x]
  <2>1. CASE p \in acc.open /\ do
    BY <1>4, <1>5, <1>6, <2>1
  <2>2. CASE ~(p \in acc.open /\ do)
    BY <1>5, <1>6, <2>2
  <2>. QED BY <2>1, <2>2
<1>12. \A x \in Ends : x # e => (x \in new.fresh <=> x \in acc.fresh) /\ (x \in new.open <=> x \in acc.open)
  BY <1>11
<1>13. \A x \in Entity : x \notin new.fresh => new.world[x] = world[x]
  <2>1. ASSUME e \notin new.fresh PROVE new.world[e] = world[e]
    <3>1. new.world = acc.world
      BY <1>5, <2>1
    <3>. QED BY <1>4, <1>6, <1>8, <3>1
  <2>2. ASSUME NEW x \in Entity, x # e, x \notin new.fresh PROVE new.world[x] = world[x]
    <3>1. x \notin acc.fresh
      BY <1>11, <2>2
    <3>. QED BY <1>6, <1>11, <2>2, <3>1
  <2>. QED BY <2>1, <2>2
<1>14. \A x \in Entity : x \in new.fresh \cup new.open => \E i \in 1 .. k + 1 : s[i] = x
  <2>1. k + 1 \in 1 .. k + 1
    OBVIOUS
  <2>2. ASSUME NEW x \in Entity, x \in new.fresh \cup new.open, x # e PROVE \E i \in 1 .. k + 1 : s[i] = x
    <3>1. x \in acc.fresh \cup acc.open
      BY <1>11, <2>2
    <3>. QED BY <1>6, <1>7, <3>1
  <2>. QED BY <2>1, <2>2 DEF e
<1>15. VisitRight(new, e)
  <2>1. p \in Ends /\ p # e /\ (p = NULL \/ p \in Entity)
    BY <1>2, <1>4, <1>10 DEF p, Ends
  <2>2. (p \in new.fresh <=> p \in acc.fresh) /\ (p \in new.open <=> p \in acc.open)
    BY <1>12, <2>1
  <2>3. e \in new.fresh <=> p \in acc.open /\ do
    BY <1>5, <1>8
  <2>4. e \in new.open <=> p \in acc.open /\ (do \/ e \in Below(node))
    BY <1>5, <1>8
  <2>5. pw = IF p = NULL THEN Identity ELSE new.world[p]
    BY <1>11, <2>1 DEF pw
  <2>6. e \in new.fresh => new.world[e] = Compose(pw, local[e])
    BY <1>4, <1>5, <1>6, <2>3
  <2>. QED BY <2>2, <2>3, <2>4, <2>5, <2>6 DEF VisitRight, p, do
<1>16. ASSUME NEW i \in 1 .. k PROVE VisitRight(new, s[i])
  <2> DEFINE d == s[i]
             q == node[d].parent
  <2>1. d \in Entity /\ d \in Ends /\ d # e
    BY <1>2, <1>3, <1>7
  <2>2. q \in Ends /\ q # e /\ (q = NULL \/ q \in Entity)
    BY <1>2, <1>7, <1>9, <2>1 DEF Ends
  <2>3. VisitRight(acc, d)
    BY <1>60
  <2>. HIDE DEF d
  <2>4. /\ d \in new.fresh <=> d \in acc.fresh
        /\ d \in new.open <=> d \in acc.open
        /\ q \in new.fresh <=> q \in acc.fresh
        /\ q \in new.open <=> q \in acc.open
    BY <1>12, <2>1, <2>2
  <2>5. new.world[d] = acc.world[d] /\ (q # NULL => new.world[q] = acc.world[q])
    BY <1>11, <2>1, <2>2
  <2>6. VisitRight(new, d)
    <3>1. /\ d \in acc.fresh <=> q \in acc.open /\ (q \in acc.fresh \/ d \in Dirty(node))
          /\ d \in acc.open <=> q \in acc.open /\ (q \in acc.fresh \/ d \in Dirty(node) \/ d \in Below(node))
          /\ d \in acc.fresh => acc.world[d] = Compose(IF q = NULL THEN Identity ELSE acc.world[q], local[d])
      BY <2>3 DEF VisitRight
    <3>2. d \in new.fresh => new.world[d] = Compose(IF q = NULL THEN Identity ELSE new.world[q], local[d])
      BY <2>4, <2>5, <3>1
    <3>. QED BY <2>4, <3>1, <3>2 DEF VisitRight
  <2>. QED BY <2>6 DEF d
<1>17. \A i \in 1 .. k + 1 : VisitRight(new, s[i])
  <2>1. \A i \in 1 .. k + 1 : i \in 1 .. k \/ i = k + 1
    OBVIOUS
  <2>. QED BY <1>15, <1>16, <2>1 DEF e
<1>18. new.fresh \subseteq Entity /\ new.open \subseteq Ends /\ NULL \in new.open
  BY <1>2, <1>4, <1>6, <1>11
<1>. QED BY <1>11, <1>13, <1>14, <1>17, <1>18 DEF VisitsRight, new, e

\* propagate recomputes exactly the dirty subtrees and leaves no mark.
LEMMA PropagatedRight ==
  ASSUME HierarchyIInv, TransformIInv
  PROVE  LET done == Propagated
         IN  /\ done.world = [e \in Entity |-> done.world[e]]
             /\ \A e \in adopted :
                  /\ done.world[e] = Compose(IF node[e].parent = NULL THEN Identity
                                             ELSE done.world[node[e].parent], local[e])
                  /\ e \in Dirty(node) => e \in done.fresh
                  /\ e \in Below(node) => e \in done.open
<1> DEFINE s == depth_first(node)
           done == Propagated
<1>0. /\ NULL \notin Entity /\ adopted \subseteq Entity /\ adopted \subseteq Ends
      /\ \A x \in adopted : node[x].parent \in adopted \cup {NULL}
      /\ Tree(node, adopted, NULL)
  BY Members
<1>1. s \in Seq(adopted) /\ Distinct(s) /\ Listing(s) = adopted /\ OutAfterParent(node, s)
  BY <1>0, DepthFirst
<1>2. PICK c \in Nat : c = Len(s)
  BY <1>1
<1>3. PICK walk : Visits(s, c, walk) /\ done = walk[c]
  BY <1>2, PropagatedWalk
<1>. HIDE DEF s, done
<1>4. \A k \in 0 .. c : VisitsRight(s, walk[k], k)
  <2> DEFINE Bad == {k \in 0 .. c : ~VisitsRight(s, walk[k], k)}
  <2>. SUFFICES ASSUME Bad # {} PROVE FALSE
    OBVIOUS
  <2>1. PICK k \in Bad : \A j \in Bad : k <= j
    <3>1. Bad \in SUBSET Nat
      OBVIOUS
    <3>. QED BY <3>1, LeastOf
  <2>2. CASE k = 0
    <3>1. walk[0] = [world |-> world, fresh |-> {}, open |-> {NULL}]
      BY <1>3 DEF Visits
    <3>2. walk[0].world = world /\ walk[0].fresh = {} /\ walk[0].open = {NULL}
      BY <3>1
    <3>3. VisitsRight(s, walk[0], 0)
      BY <1>0, <3>2 DEF VisitsRight, TransformIInv, Ends
    <3>. QED BY <2>1, <2>2, <3>3
  <2>3. CASE k # 0
    <3>1. k - 1 \in 0 .. c /\ k - 1 \in Nat /\ k - 1 \notin Bad /\ (k - 1) + 1 = k /\ k - 1 < Len(s)
      BY <1>2, <2>1, <2>3
    <3>2. walk[k] = visit(walk[k - 1], s[k])
      BY <1>3, <2>1, <2>3 DEF Visits
    <3>3. VisitsRight(s, walk[k - 1], k - 1)
      BY <3>1
    <3>4. VisitsRight(s, visit(walk[k - 1], s[(k - 1) + 1]), (k - 1) + 1)
      BY <1>1, <3>1, <3>3, VisitStep
    <3>. QED BY <2>1, <3>1, <3>2, <3>4
  <2>. QED BY <2>2, <2>3
<1>5. VisitsRight(s, done, c)
  BY <1>3, <1>4
<1>6. \A e \in adopted : VisitRight(done, e)
  BY <1>1, <1>2, <1>5 DEF VisitsRight, Listing
<1>7. /\ done.world = [e \in Entity |-> done.world[e]] /\ NULL \in done.open /\ done.fresh \subseteq Entity
      /\ \A e \in Entity : e \notin done.fresh => done.world[e] = world[e]
  BY <1>5 DEF VisitsRight
<1>8. \A e \in adopted :
        LET p == node[e].parent
        IN  /\ e \in done.fresh <=> p \in done.open /\ (p \in done.fresh \/ e \in Dirty(node))
            /\ e \in done.open <=>
                 p \in done.open /\ (p \in done.fresh \/ e \in Dirty(node) \/ e \in Below(node))
            /\ e \in done.fresh =>
                 done.world[e] = Compose(IF p = NULL THEN Identity ELSE done.world[p], local[e])
  BY <1>6 DEF VisitRight
<1>9. /\ \A e \in adopted : e \in Dirty(node) \cup Below(node) /\ node[e].parent # NULL => node[e].parent \in Below(node)
      /\ \A e \in adopted : e \notin Dirty(node) =>
           world[e] = Compose(IF node[e].parent = NULL THEN Identity ELSE world[node[e].parent], local[e])
  BY DEF TransformIInv, MarksRight, WorldsRight
<1>10. \A e \in adopted : e \in Dirty(node) \cup Below(node) => e \in done.open
  <2> DEFINE S == {e \in adopted : e \in Dirty(node) \cup Below(node) /\ e \notin done.open}
  <2>1. ASSUME NEW e \in S PROVE node[e].parent \in S
    <3>1. e \in adopted /\ e \in Dirty(node) \cup Below(node) /\ e \notin done.open
      OBVIOUS
    <3>2. node[e].parent \notin done.open
      BY <1>8, <3>1
    <3>3. node[e].parent # NULL
      BY <1>7, <3>2
    <3>. QED BY <1>0, <1>9, <3>1, <3>2, <3>3
  <2>2. S \in SUBSET adopted
    OBVIOUS
  <2>3. S = {}
    <3>. HIDE DEF S
    <3>. QED BY <1>0, <2>1, <2>2 DEF Tree, UpEnds
  <2>. QED BY <2>3
<1>11. \A e \in adopted : e \in Dirty(node) => e \in done.fresh
  BY <1>8, <1>10
<1>12. ASSUME NEW e \in adopted
       PROVE  done.world[e] = Compose(IF node[e].parent = NULL THEN Identity ELSE done.world[node[e].parent], local[e])
  <2> DEFINE p == node[e].parent
  <2>1. CASE e \in done.fresh
    BY <1>8, <2>1
  <2>2. CASE e \notin done.fresh
    <3>1. e \notin Dirty(node) /\ done.world[e] = world[e]
      BY <1>0, <1>7, <1>11, <2>2
    <3>2. p # NULL => p \in adopted /\ p \in Entity
      BY <1>0
    <3>3. p # NULL => p \notin done.fresh
      <4>. SUFFICES ASSUME p # NULL, p \in done.fresh PROVE FALSE
        OBVIOUS
      <4>1. p \in done.open
        BY <1>8, <3>2
      <4>. QED BY <1>8, <2>2, <4>1
    <3>4. p # NULL => done.world[p] = world[p]
      BY <1>7, <3>2, <3>3
    <3>. QED BY <1>9, <3>1, <3>4
  <2>. QED BY <2>1, <2>2
<1>. QED BY <1>7, <1>10, <1>11, <1>12 DEF done

-----------------------------------------------------------------------------
\* propagate leaves every matrix exact and no mark.
LEMMA PropagateTransforms ==
  ASSUME HierarchyIInv, TransformIInv, propagate
  PROVE  TransformIInv'
<1> DEFINE done == Propagated
<1>0. adopted \subseteq Ends /\ node \in Nodes /\ \A e \in adopted : node[e].parent \in adopted \cup {NULL}
  BY Members
<1>1. /\ node' = Clean(node, done.fresh, done.open) /\ world' = done.world /\ any_transform_dirty' = FALSE
      /\ adopted' = adopted /\ local' = local
  BY DEF propagate, Clean
<1>2. /\ done.world = [e \in Entity |-> done.world[e]]
      /\ \A e \in adopted :
           /\ done.world[e] = Compose(IF node[e].parent = NULL THEN Identity
                                      ELSE done.world[node[e].parent], local[e])
           /\ e \in Dirty(node) => e \in done.fresh
           /\ e \in Below(node) => e \in done.open
  BY PropagatedRight
<1>. HIDE DEF done
<1>3. Cleaned(node, node', done.fresh, done.open)
  BY <1>0, <1>1, CleanFields
<1>4. Dirty(node') = Dirty(node) \ done.fresh /\ Below(node') = Below(node) \ done.open
  BY <1>3, CleanedDirty
<1>5. \A e \in adopted : e \notin Dirty(node') /\ e \notin Below(node')
  BY <1>2, <1>4
<1>6. \A d \in Ends : node'[d].parent = node[d].parent
  BY <1>3 DEF Cleaned, SameLinks
<1>7. MarksRight(node', adopted')
  BY <1>1, <1>5 DEF MarksRight
<1>8. WorldsRight(node', adopted', world', local')
  BY <1>0, <1>1, <1>2, <1>6 DEF WorldsRight
<1>. QED BY <1>1, <1>2, <1>5, <1>7, <1>8 DEF TransformIInv

\* set_local dirties its entity.
LEMMA SetLocalTransforms ==
  ASSUME HierarchyIInv, TransformIInv, NEW e \in Entity, NEW l \in Local, set_local(e, l)
  PROVE  TransformIInv'
<1>0. adopted \subseteq Ends /\ adopted \subseteq Entity /\ Good(node, adopted) /\ Tree(node, adopted, NULL)
      /\ local \in [Entity -> Local]
  BY Members DEF HierarchyIInv, RowsRight
<1>1. /\ e \in adopted /\ adopted' = adopted /\ world' = world /\ any_transform_dirty' = TRUE
      /\ local' = [local EXCEPT ![e] = l] /\ node' = mark_transform_dirty(node, e)
  BY DEF set_local
<1>2. Marked(node, node', e)
  BY <1>0, <1>1, GoodMarked
<1>3. MarksRight(node, adopted) /\ WorldsRight(node, adopted, world, local)
  BY DEF TransformIInv
<1>4. MarksRight(node, adopted \ {e})
  BY <1>3 DEF MarksRight
<1>5. /\ MarksRight(node', adopted) /\ Dirty(node') = Dirty(node) \cup {e}
      /\ \A d \in Ends : node'[d].parent = node[d].parent
  BY <1>0, <1>1, <1>2, <1>4, MarksRestored
<1>6. \A d \in adopted : d \notin Dirty(node') =>
        d \in adopted /\ d \notin Dirty(node) /\ node'[d].parent = node[d].parent /\ local'[d] = local[d]
  BY <1>0, <1>1, <1>5
<1>7. WorldsRight(node', adopted, world, local')
  BY <1>3, <1>6, WorldsKept
<1>. QED BY <1>1, <1>5, <1>7 DEF TransformIInv

\* adopt dirties the new root.
LEMMA AdoptTransforms ==
  ASSUME HierarchyIInv, TransformIInv, NEW e \in Entity, adopt(e)
  PROVE  TransformIInv'
<1>1. /\ e \notin adopted /\ adopted' = adopted \cup {e} /\ node' = adopt_node(node, e)
      /\ world' = world /\ local' = local /\ any_transform_dirty' = TRUE
  BY DEF adopt
<1>2. e \in Ends /\ e # NULL /\ Good(node, adopted)
  BY Members DEF Ends, HierarchyIInv
<1>3. MarksRight(node, adopted) /\ WorldsRight(node, adopted, world, local)
  BY DEF TransformIInv
<1> DEFINE m == IF e \notin adopted \cup {NULL} THEN adopt_node(node, e) ELSE node
           B == adopted \cup ({e} \ {NULL})
<1>4. MarksRight(m, B) /\ WorldsRight(m, B, world, local)
  BY <1>2, <1>3, EnteredTransforms
<1>5. m = node' /\ B = adopted'
  BY <1>1, <1>2
<1>. HIDE DEF m, B
<1>6. MarksRight(node', adopted') /\ WorldsRight(node', adopted', world', local')
  BY <1>1, <1>4, <1>5
<1>. QED BY <1>1, <1>6 DEF TransformIInv

\* finish_despawn takes a leaf away.
LEMMA FinishTransforms ==
  ASSUME HierarchyIInv, TransformIInv, finish_despawn
  PROVE  TransformIInv'
<1> DEFINE e == Victim
<1>0. /\ adopted \subseteq Ends /\ Good(node, adopted) /\ NULL \notin adopted
      /\ MarksRight(node, adopted) /\ WorldsRight(node, adopted, world, local)
  BY Members DEF HierarchyIInv, TransformIInv
<1>1. /\ ~Idle /\ ~HasChild
      /\ node' = IF e \in adopted THEN [unlink(node, e) EXCEPT ![e] = BlankNode] ELSE node
      /\ adopted' = adopted \ {e}
      /\ world' = world /\ local' = local /\ any_transform_dirty' = any_transform_dirty
  BY DEF finish_despawn, transformVars
<1>2. e \in adopted => node[e].first_child = NULL
  BY <1>1 DEF HasChild
<1>. HIDE DEF e
<1>3. CASE e \in adopted
  <2> DEFINE m == [unlink(node, e) EXCEPT ![e] = BlankNode]
  <2>1. /\ \A d \in Ends \ {e} : m[d].parent = node[d].parent /\ SameCover(node, m, d) /\ SameMarks(node, m, d)
        /\ \A x \in adopted : node[x].parent # e
    BY <1>0, <1>2, <1>3, FinishTree
  <2>2. node' = m
    BY <1>1, <1>3
  <2>. HIDE DEF m
  <2>3. \A d \in Ends \ {e} : node'[d].parent = node[d].parent /\ SameMarks(node, node', d)
    BY <2>1, <2>2
  <2>4. \A d \in Ends \ {e} : (d \in Dirty(node') <=> d \in Dirty(node)) /\ (d \in Below(node') <=> d \in Below(node))
    BY <2>3, Zenon DEF SameMarks, Dirty, Below
  <2>5. \A x \in adopted : node[x].parent \in Ends
    BY Members DEF Ends
  <2>6. MarksRight(node', adopted')
    <3>. SUFFICES ASSUME NEW x \in adopted \ {e}, x \in Dirty(node') \cup Below(node'), node'[x].parent # NULL
                  PROVE  node'[x].parent \in Below(node')
      BY <1>1 DEF MarksRight
    <3>1. x \in Ends \ {e} /\ node'[x].parent = node[x].parent /\ node[x].parent \in Ends \ {e}
      BY <1>0, <2>1, <2>3, <2>5
    <3>2. x \in Dirty(node) \cup Below(node)
      BY <2>4, <3>1
    <3>3. node[x].parent \in Below(node)
      BY <1>0, <3>1, <3>2 DEF MarksRight
    <3>. QED BY <2>4, <3>1, <3>3
  <2>7. WorldsRight(node', adopted', world', local')
    <3>1. \A x \in adopted' : x \notin Dirty(node') =>
            x \in adopted /\ x \notin Dirty(node) /\ node'[x].parent = node[x].parent /\ local'[x] = local[x]
      BY <1>0, <1>1, <2>3, <2>4
    <3>2. WorldsRight(node', adopted', world, local')
      BY <1>0, <3>1, WorldsKept
    <3>. QED BY <1>1, <3>2
  <2>8. Dirty(node') \cap adopted' \subseteq Dirty(node) \cap adopted
    BY <1>0, <1>1, <2>4
  <2>. QED BY <1>1, <2>6, <2>7, <2>8 DEF TransformIInv
<1>4. CASE e \notin adopted
  <2>1. node' = node /\ adopted' = adopted
    BY <1>1, <1>4
  <2>2. \A d \in Ends : node'[d].parent = node[d].parent /\ SameMarks(node, node', d)
    BY <2>1 DEF SameMarks
  <2>. QED BY <1>0, <1>1, <2>1, <2>2, TransformSame
<1>. QED BY <1>3, <1>4

\* A scope touches neither parents nor marks.
LEMMA ScopeTransforms ==
  ASSUME HierarchyIInv, TransformIInv, NEW e \in Entity, activate(e) \/ deactivate(e)
  PROVE  TransformIInv'
<1>1. PICK delta \in {1, -1} : scope(e, delta) /\ e \in adopted
  BY DEF activate, deactivate
<1> DEFINE f == [node EXCEPT ![e].deactivated = delta > 0]
           S == collect_subtree(f, e)
<1>2. /\ node' = covered(f, S, delta) /\ adopted' = adopted /\ world' = world /\ local' = local
      /\ any_transform_dirty' = any_transform_dirty
  BY <1>1 DEF scope, transformVars
<1>3. Flagged(node, f, e, delta > 0)
  <2>1. (delta > 0) \in BOOLEAN
    OBVIOUS
  <2>. QED BY <2>1, Members, FlagFields
<1>. HIDE DEF f
<1>4. f \in Nodes /\ \A d \in Ends : SameLinks(node, f, d) /\ SameMarks(node, f, d)
  BY <1>3 DEF Flagged
<1>5. Tree(f, adopted, NULL)
  BY <1>4, Members, SameTree
<1>6. S \in SUBSET Entity /\ delta \in Int /\ row \in [Entity -> [Component -> RowState]]
  BY <1>1, <1>5, Subtree, Members DEF HierarchyIInv, RowsRight
<1>. HIDE DEF S
<1>7. Covered(f, node', S, delta)
  BY <1>2, <1>4, <1>6, CoveredFields
<1>8. \A d \in Ends : SameLinks(f, node', d) /\ SameMarks(f, node', d)
  BY <1>7 DEF Covered
<1>9. \A d \in Ends : node'[d].parent = node[d].parent /\ SameMarks(node, node', d)
  BY <1>4, <1>8 DEF SameLinks, SameMarks
<1>. QED BY <1>2, <1>9, Members, TransformSame

\* apply_reparent: the strangers are dirty roots, and the moved child is dirty
\* and marked on its new path; its subtree keeps its own marks.
LEMMA ReparentTransforms ==
  ASSUME HierarchyIInv, TransformIInv, NEW child \in Entity, NEW p \in Entity \cup {NULL},
         apply_reparent(child, p)
  PROVE  TransformIInv'
<1> DEFINE strangers == {child, p} \ (adopted \cup {NULL})
           B == adopted \cup {child}
           C == adopted \cup {child} \cup ({p} \ {NULL})
           entered == IF child \notin adopted \cup {NULL} THEN adopt_node(node, child) ELSE node
           n == IF p \notin B \cup {NULL} THEN adopt_node(entered, p) ELSE entered
           cycle == p # NULL /\ subtree_contains(n, child, p)
<1>1. /\ IF cycle THEN node' = n /\ row' = row ELSE reparent_to(n, child, p)
      /\ adopted' = C /\ local' = local /\ world' = world
      /\ any_transform_dirty' = (any_transform_dirty \/ strangers # {} \/ ~cycle)
  <2>1. strangers \cup adopted = C
    BY Members DEF apply_reparent, Alive
  <2>2. entered = IF child \in strangers THEN adopt_node(node, child) ELSE node
    OBVIOUS
  <2>3. n = IF p \in strangers \ {child} THEN adopt_node(entered, p) ELSE entered
    OBVIOUS
  <2>. HIDE DEF entered, n, C
  <2>. QED BY <2>1, <2>2, <2>3 DEF apply_reparent
<1>2. /\ NULL \notin Entity /\ child \in Ends /\ p \in Ends /\ adopted \subseteq Entity
      /\ node \in Nodes /\ Good(node, adopted) /\ adopted \subseteq Ends
      /\ row \in [Entity -> [Component -> RowState]]
      /\ MarksRight(node, adopted) /\ WorldsRight(node, adopted, world, local)
      /\ any_transform_dirty \in BOOLEAN /\ (Dirty(node) \cap adopted # {} => any_transform_dirty)
      /\ world = [x \in Entity |-> world[x]]
  BY Members DEF Ends, HierarchyIInv, RowsRight, TransformIInv
<1>3. /\ Good(entered, B)
      /\ MarksRight(entered, B) /\ WorldsRight(entered, B, world, local)
      /\ Dirty(entered) \subseteq Dirty(node) \cup {child} /\ (child \in adopted \cup {NULL} => entered = node)
  <2>1. B = adopted \cup ({child} \ {NULL})
    BY <1>2
  <2>2. Good(entered, B)
    BY <1>2, <2>1, GoodEntered
  <2>3. /\ MarksRight(entered, B) /\ WorldsRight(entered, B, world, local)
        /\ Dirty(entered) \subseteq Dirty(node) \cup {child} /\ (child \in adopted \cup {NULL} => entered = node)
    BY <1>2, <2>1, EnteredTransforms
  <2>. QED BY <2>2, <2>3
<1>. HIDE DEF entered
<1>4. /\ Good(n, C)
      /\ MarksRight(n, C) /\ WorldsRight(n, C, world, local)
      /\ (p \in B \cup {NULL} => n = entered)
  <2>1. C = B \cup ({p} \ {NULL})
    OBVIOUS
  <2>. HIDE DEF B, C
  <2>2. Good(n, C)
    BY <1>2, <1>3, <2>1, GoodEntered
  <2>. HIDE DEF n
  <2>3. n = IF p \notin B \cup {NULL} THEN adopt_node(entered, p) ELSE entered
    BY DEF n
  <2>4. p \in Ends
    BY <1>2
  <2>5. /\ MarksRight(n, C) /\ WorldsRight(n, C, world, local) /\ (p \in B \cup {NULL} => n = entered)
    BY <1>3, <2>1, <2>3, <2>4, EnteredTransforms
  <2>. QED BY <2>2, <2>5
<1>. HIDE DEF n
<1>5. child \in C /\ p \in C \cup {NULL} /\ C \subseteq Entity /\ C \subseteq Ends /\ adopted \subseteq C
  BY <1>2 DEF Ends
<1>6. CASE cycle
  <2>1. node' = n
    BY <1>1, <1>6
  <2>2. CASE strangers # {}
    <3>1. any_transform_dirty' = TRUE
      BY <1>1, <2>2
    <3>. QED BY <1>1, <1>2, <1>4, <2>1, <3>1 DEF TransformIInv
  <2>3. CASE strangers = {}
    <3>1. child \in adopted /\ p \in adopted \cup {NULL}
      BY <1>2, <2>3
    <3>2. C = adopted /\ n = node
      BY <1>3, <1>4, <3>1
    <3>3. any_transform_dirty' = any_transform_dirty
      BY <1>1, <1>2, <1>6, <2>3
    <3>4. node' = node /\ adopted' = adopted
      BY <1>1, <2>1, <3>2
    <3>. QED BY <1>1, <1>2, <3>3, <3>4 DEF TransformIInv
  <2>. QED BY <2>2, <2>3
<1>7. CASE ~cycle
  <2> DEFINE delta == n[p].dormant_depth - n[n[child].parent].dormant_depth
             m == link_last(unlink(n, child), child, p)
             S == IF delta = 0 THEN {} ELSE collect_subtree(m, child)
             k == covered(m, S, delta)
  <2>1. node' = mark_transform_dirty(k, child) /\ any_transform_dirty' = TRUE
    BY <1>1, <1>7 DEF reparent_to
  <2>2. Good(k, C) /\ Covered(m, k, S, delta) /\ MovedBelow(n, m, child, p)
    BY <1>2, <1>4, <1>5, <1>7, GoodMoved
  <2>. HIDE DEF m, S, delta, k, C, cycle
  <2>3. Marked(k, node', child) /\ Tree(k, C, NULL)
    BY <1>5, <2>1, <2>2, GoodMarked DEF Good
  <2>4. \A d \in Ends : /\ k[d].parent = IF d = child THEN p ELSE n[d].parent
                        /\ SameMarks(n, k, d)
    <3>1. \A d \in Ends : SameLinks(m, k, d) /\ SameMarks(m, k, d)
      BY <2>2 DEF Covered
    <3>2. \A d \in Ends : m[d].parent = (IF d = child THEN p ELSE n[d].parent) /\ SameMarks(n, m, d)
      BY <2>2 DEF MovedBelow
    <3>. QED BY <3>1, <3>2 DEF SameLinks, SameMarks
  <2>5. Dirty(k) = Dirty(n) /\ Below(k) = Below(n)
    BY <2>4, SameDirty
  <2>6. MarksRight(k, C \ {child})
    BY <1>4, <1>5, <2>4, <2>5 DEF MarksRight
  <2>7. /\ MarksRight(node', C) /\ Dirty(node') = Dirty(k) \cup {child}
        /\ \A d \in Ends : node'[d].parent = k[d].parent
    BY <1>5, <2>3, <2>6, MarksRestored
  <2>8. WorldsRight(node', C, world, local)
    <3>1. \A d \in C : d \notin Dirty(node') =>
            d \in C /\ d \notin Dirty(n) /\ node'[d].parent = n[d].parent /\ local[d] = local[d]
      BY <1>5, <2>4, <2>5, <2>7
    <3>2. WorldsRight(n, C, world, local)
      BY <1>4
    <3>. QED BY <3>1, <3>2, WorldsKept
  <2>. QED BY <1>1, <1>2, <2>1, <2>7, <2>8 DEF TransformIInv
<1>. QED BY <1>6, <1>7

\* The other handlers leave the transforms and the tree alone.
LEMMA TransformStep ==
  ASSUME HierarchyIInv, TransformIInv, [HierarchyNext]_hierarchyVars
  PROVE  TransformIInv'
<1>0. adopted \subseteq Ends
  BY Members
<1>1. ASSUME node' = node, adopted' = adopted, world' = world, local' = local,
             any_transform_dirty' = any_transform_dirty
      PROVE  TransformIInv'
  <2>1. \A d \in Ends : node'[d].parent = node[d].parent /\ SameMarks(node, node', d)
    BY <1>1 DEF SameMarks
  <2>. QED BY <1>0, <1>1, <2>1, TransformSame
<1>2. CASE UNCHANGED hierarchyVars
  BY <1>1, <1>2 DEF hierarchyVars, treeVars, transformVars
<1>3. CASE HierarchyNext
  <2>1. ASSUME NEW e \in Entity, spawn(e) \/ despawn(e) PROVE TransformIInv'
    BY <1>1, <2>1 DEF spawn, despawn, treeVars, transformVars
  <2>2. ASSUME NEW e \in Entity, adopt(e) PROVE TransformIInv'
    BY <2>2, AdoptTransforms
  <2>3. ASSUME NEW e \in Entity, activate(e) \/ deactivate(e) PROVE TransformIInv'
    BY <2>3, ScopeTransforms
  <2>4. ASSUME NEW e \in Entity, NEW c \in Component, NEW bit \in {"off", "on"},
               emplace(e, c, bit) \/ set_active(e, c, bit)
        PROVE  TransformIInv'
    BY <1>1, <2>4 DEF emplace, set_active, treeVars, transformVars
  <2>5. ASSUME NEW child \in Entity, NEW p \in Entity \cup {NULL}, apply_reparent(child, p)
        PROVE  TransformIInv'
    BY <2>5, ReparentTransforms
  <2>6. ASSUME NEW e \in Entity, NEW l \in Local, set_local(e, l) PROVE TransformIInv'
    BY <2>6, SetLocalTransforms
  <2>7. CASE propagate
    BY <2>7, PropagateTransforms
  <2>8. CASE rebuild_order
    BY <1>1, <2>8 DEF rebuild_order, treeVars, transformVars
  <2>9. CASE cascade
    BY <1>1, <2>9 DEF cascade, treeVars, transformVars
  <2>10. CASE finish_despawn
    BY <2>10, FinishTransforms
  <2>. QED BY <1>3, <2>1, <2>2, <2>3, <2>4, <2>5, <2>6, <2>7, <2>8, <2>9, <2>10 DEF HierarchyNext, Cascading
<1>. QED BY <1>2, <1>3

\* The marks and matrices stay right: a mark is always known to the parent.
THEOREM TransformInvariant == HierarchySpec => []TransformIInv
<1>1. HierarchyInit => TransformIInv
  <2>. SUFFICES ASSUME HierarchyInit PROVE TransformIInv
    OBVIOUS
  <2>1. adopted = {} /\ world = [e \in Entity |-> Identity] /\ any_transform_dirty = FALSE
    BY DEF HierarchyInit
  <2>. QED BY <2>1 DEF TransformIInv, MarksRight, WorldsRight
<1>2. HierarchyIInv /\ TransformIInv /\ [HierarchyNext]_hierarchyVars => TransformIInv'
  BY TransformStep
<1>. QED BY <1>1, <1>2, HierarchyInvariant, PTL DEF HierarchySpec

\* Every clean matrix is its parent's composed with the local, and every dirty
\* node is on a path propagate will take (mark_transform_dirty, propagate).
THEOREM TransformsStayFresh == HierarchySpec => []TransformsFresh
<1>1. HierarchyIInv /\ TransformIInv => TransformsFresh
  <2>. SUFFICES ASSUME HierarchyIInv, TransformIInv, NEW e \in adopted
                PROVE  IF node[e].transform_dirty
                       THEN /\ any_transform_dirty
                            /\ \A a \in AncestorsOrSelf(node, e) \ {e} : node[a].transform_dirty_below
                       ELSE world[e] = Compose(IF node[e].parent = NULL THEN Identity
                                               ELSE world[node[e].parent], local[e])
    BY Zenon DEF TransformsFresh
  <2>0. adopted \subseteq Entity /\ adopted \subseteq Ends /\ Tree(node, adopted, NULL)
        /\ \A x \in adopted : node[x].parent \in adopted \cup {NULL}
    BY Members
  <2>1. node[e].transform_dirty <=> e \in Dirty(node)
    BY <2>0, Zenon DEF Dirty
  <2>2. CASE e \in Dirty(node)
    <3> DEFINE T == AncestorsOrSelf(node, e)
               S == {x \in adopted : x = e \/ x \in Below(node)}
    <3>1. any_transform_dirty
      BY <2>2 DEF TransformIInv
    <3>2. \A x \in S : node[x].parent \in S \cup {NULL}
      BY <2>0, <2>2 DEF TransformIInv, MarksRight
    <3>3. T \subseteq S
      <4>1. /\ \A R \in SUBSET Entity : e \in R /\ (\A x \in R : node[x].parent \in R \cup {NULL}) => T \subseteq R
        BY <2>0, Path
      <4>2. S \in SUBSET Entity /\ e \in S
        BY <2>0
      <4>. HIDE DEF T, S
      <4>. QED BY <3>2, <4>1, <4>2
    <3>4. \A a \in T \ {e} : a \in Below(node)
      BY <3>3
    <3>5. \A a \in T \ {e} : node[a].transform_dirty_below
      BY <3>4, Zenon DEF Below
    <3>. QED BY <2>1, <2>2, <3>1, <3>5, Zenon
  <2>3. CASE e \notin Dirty(node)
    <3>1. world[e] = Compose(IF node[e].parent = NULL THEN Identity ELSE world[node[e].parent], local[e])
      BY <2>3 DEF TransformIInv, WorldsRight
    <3>. QED BY <2>1, <2>3, <3>1, Zenon
  <2>. QED BY <2>2, <2>3
<1>. QED BY <1>1, HierarchyInvariant, TransformInvariant, PTL

-----------------------------------------------------------------------------
\* The cached order.  What lies above a node is the node and what lies above
\* its parent.
LEMMA PathUp ==
  ASSUME NEW n, NEW A, Tree(n, A, NULL), NEW x \in A
  PROVE  /\ n[x].parent = NULL => AncestorsOrSelf(n, x) = {x}
         /\ n[x].parent # NULL =>
              n[x].parent \in A /\ AncestorsOrSelf(n, x) = {x} \cup AncestorsOrSelf(n, n[x].parent)
<1> DEFINE T(e) == AncestorsOrSelf(n, e)
           p == n[x].parent
<1>0. A \subseteq Entity /\ NULL \notin A /\ p \in A \cup {NULL}
  BY HierarchyAssumption DEF Tree, Inside, Ends
<1>1. \A e \in A :
        /\ T(e) \in SUBSET A /\ e \in T(e) /\ \A y \in T(e) : n[y].parent \in T(e) \cup {NULL}
        /\ \A S \in SUBSET Entity : e \in S /\ (\A y \in S : n[y].parent \in S \cup {NULL}) => T(e) \subseteq S
  BY Path
<1>. HIDE DEF T
<1>2. CASE p = NULL
  <2>1. T(x) \subseteq {x}
    <3>1. {x} \in SUBSET Entity /\ \A y \in {x} : n[y].parent \in {x} \cup {NULL}
      BY <1>0, <1>2
    <3>. QED BY <1>1, <3>1
  <2>2. T(x) = {x}
    BY <1>1, <2>1
  <2>. QED BY <1>2, <2>2 DEF T
<1>3. CASE p # NULL
  <2>1. p \in A
    BY <1>0, <1>3
  <2> DEFINE R == {x} \cup T(p)
  <2>2. T(x) \subseteq R
    <3>1. R \in SUBSET Entity /\ x \in R /\ \A y \in R : n[y].parent \in R \cup {NULL}
      BY <1>0, <1>1, <2>1
    <3>. HIDE DEF R
    <3>. QED BY <1>1, <3>1
  <2>3. T(p) \subseteq T(x)
    <3>1. T(x) \in SUBSET Entity /\ p \in T(x) /\ \A y \in T(x) : n[y].parent \in T(x) \cup {NULL}
      BY <1>0, <1>1, <1>3
    <3>. HIDE DEF p
    <3>. QED BY <1>1, <2>1, <3>1
  <2>4. T(x) = {x} \cup T(p)
    BY <1>1, <2>2, <2>3
  <2>. QED BY <1>3, <2>1, <2>4 DEF T
<1>. QED BY <1>2, <1>3

\* Above is an order: transitive, without cycles, and any two nodes above
\* another are one above the other.
LEMMA PathOrder ==
  ASSUME NEW n, NEW A, Tree(n, A, NULL)
  PROVE  /\ \A x, y \in A : y \in AncestorsOrSelf(n, x) => AncestorsOrSelf(n, y) \subseteq AncestorsOrSelf(n, x)
         /\ \A x \in A : n[x].parent # NULL => x \notin AncestorsOrSelf(n, n[x].parent)
         /\ \A x, y \in A : x \in AncestorsOrSelf(n, y) /\ y \in AncestorsOrSelf(n, x) => x = y
         /\ \A a, x, y \in A : x \in AncestorsOrSelf(n, a) /\ y \in AncestorsOrSelf(n, a) =>
              x \in AncestorsOrSelf(n, y) \/ y \in AncestorsOrSelf(n, x)
<1> DEFINE T(e) == AncestorsOrSelf(n, e)
<1>0. /\ A \subseteq Entity /\ NULL \notin A
      /\ \A S \in SUBSET A : (\A e \in S : n[e].parent \in S) => S = {}
  BY HierarchyAssumption DEF Tree, Inside, Ends, UpEnds
<1>1. \A e \in A :
        /\ T(e) \in SUBSET A /\ e \in T(e) /\ \A y \in T(e) : n[y].parent \in T(e) \cup {NULL}
        /\ \A S \in SUBSET Entity : e \in S /\ (\A y \in S : n[y].parent \in S \cup {NULL}) => T(e) \subseteq S
  BY Path
<1>2. \A x \in A : /\ n[x].parent = NULL => T(x) = {x}
                   /\ n[x].parent # NULL => n[x].parent \in A /\ T(x) = {x} \cup T(n[x].parent)
  BY PathUp
<1>. HIDE DEF T
<1>3. ASSUME NEW x \in A, NEW y \in A, y \in T(x) PROVE T(y) \subseteq T(x)
  <2>1. T(x) \in SUBSET Entity
    BY <1>0, <1>1
  <2>. QED BY <1>1, <1>3, <2>1
<1>4. ASSUME NEW x \in A, n[x].parent # NULL, x \in T(n[x].parent) PROVE FALSE
  <2> DEFINE p == n[x].parent
             S == {y \in T(p) : x \in T(y)}
  <2>0. p \in A
    BY <1>2, <1>4
  <2>1. S \in SUBSET A /\ p \in S
    BY <1>1, <1>4, <2>0
  <2>2. ASSUME NEW y \in S PROVE n[y].parent \in S
    <3>1. y \in A /\ y \in T(p) /\ x \in T(y)
      BY <2>1, <2>2
    <3>2. CASE y = x
      BY <2>1, <3>2
    <3>3. CASE y # x
      <4>1. n[y].parent # NULL /\ x \in T(n[y].parent)
        BY <1>2, <3>1, <3>3
      <4>2. n[y].parent \in T(p)
        BY <1>1, <2>0, <3>1, <4>1
      <4>. QED BY <4>1, <4>2
    <3>. QED BY <3>2, <3>3
  <2>. HIDE DEF S
  <2>. QED BY <1>0, <2>1, <2>2
<1>5. ASSUME NEW x \in A, NEW y \in A, x \in T(y), y \in T(x), x # y PROVE FALSE
  <2>1. n[y].parent # NULL /\ n[y].parent \in A /\ x \in T(n[y].parent)
    BY <1>2, <1>5
  <2>2. y \in T(n[y].parent)
    BY <1>3, <1>5, <2>1
  <2>. QED BY <1>4, <2>1, <2>2
<1>6. \A a, x, y \in A : x \in T(a) /\ y \in T(a) => x \in T(y) \/ y \in T(x)
  <2> DEFINE B == {a \in A : \E x, y \in A : x \in T(a) /\ y \in T(a) /\ x \notin T(y) /\ y \notin T(x)}
  <2>1. ASSUME NEW a \in B PROVE n[a].parent \in B
    <3>0. a \in A
      OBVIOUS
    <3>1. PICK x \in A, y \in A : x \in T(a) /\ y \in T(a) /\ x \notin T(y) /\ y \notin T(x)
      OBVIOUS
    <3>2. x # a /\ y # a
      BY <3>1
    <3>3. n[a].parent # NULL
      BY <1>2, <3>0, <3>1, <3>2
    <3>4. n[a].parent \in A /\ x \in T(n[a].parent) /\ y \in T(n[a].parent)
      BY <1>2, <3>0, <3>1, <3>2, <3>3
    <3>. QED BY <3>1, <3>4
  <2>2. B \in SUBSET A
    OBVIOUS
  <2>3. B = {}
    <3>. HIDE DEF B
    <3>. QED BY <1>0, <2>1, <2>2
  <2>. QED BY <2>3
<1>. QED BY <1>3, <1>4, <1>5, <1>6 DEF T

\* Two children of one parent are above no common node.
LEMMA SiblingsApart ==
  ASSUME NEW n, NEW A, Tree(n, A, NULL), NEW a \in A, NEW c \in A, NEW d \in A,
         n[c].parent = n[d].parent, c \in AncestorsOrSelf(n, a), d \in AncestorsOrSelf(n, a)
  PROVE  c = d
<1>1. ASSUME NEW x \in A, NEW y \in A, n[x].parent = n[y].parent, x \in AncestorsOrSelf(n, y) PROVE x = y
  <2>. SUFFICES ASSUME x # y PROVE FALSE
    OBVIOUS
  <2>1. n[y].parent # NULL /\ x \in AncestorsOrSelf(n, n[y].parent)
    BY <1>1, PathUp
  <2>2. n[x].parent # NULL /\ x \in AncestorsOrSelf(n, n[x].parent)
    BY <1>1, <2>1
  <2>. QED BY <2>2, PathOrder
<1>2. c \in AncestorsOrSelf(n, d) \/ d \in AncestorsOrSelf(n, c)
  BY PathOrder
<1>. QED BY <1>1, <1>2

\* Of two subtrees under one parent, a is in the older and b in the younger.
Ahead(n, a, b) ==
  \E p \in Ends : \E i, j \in DOMAIN children(n, p) :
    /\ i < j
    /\ subtree_contains(n, children(n, p)[i], a)
    /\ subtree_contains(n, children(n, p)[j], b)
Preceding(n, a, b) == (a # b /\ subtree_contains(n, a, b)) \/ Ahead(n, a, b)

\* What Ahead says of the tree.
LEMMA AheadBranches ==
  ASSUME NEW n, NEW A, Tree(n, A, NULL), NEW a \in A, NEW b \in A, Ahead(n, a, b)
  PROVE  \E p \in Ends : \E i, j \in 1 .. Len(children(n, p)) :
           LET c == children(n, p)[i]  d == children(n, p)[j]
           IN  /\ i \in Nat /\ j \in Nat /\ i < j /\ c # d /\ c \in A /\ d \in A
               /\ n[c].parent = p /\ n[d].parent = p
               /\ c \in AncestorsOrSelf(n, a) /\ d \in AncestorsOrSelf(n, b)
<1>1. PICK p \in Ends : \E i, j \in DOMAIN children(n, p) :
        i < j /\ subtree_contains(n, children(n, p)[i], a) /\ subtree_contains(n, children(n, p)[j], b)
  BY DEF Ahead
<1>2. /\ children(n, p) \in Seq(A) /\ Distinct(children(n, p))
      /\ \A x \in A : x \in Listing(children(n, p)) <=> n[x].parent = p
  BY ChildrenListed
<1> DEFINE s == children(n, p)
<1>. HIDE DEF s
<1>3. s \in Seq(A) /\ Distinct(s) /\ \A x \in A : x \in Listing(s) <=> n[x].parent = p
  BY <1>2 DEF s
<1>4. PICK i \in DOMAIN s, j \in DOMAIN s :
        i < j /\ subtree_contains(n, s[i], a) /\ subtree_contains(n, s[j], b)
  BY <1>1 DEF s
<1>5. /\ i \in 1 .. Len(s) /\ j \in 1 .. Len(s) /\ i \in Nat /\ j \in Nat /\ i # j
      /\ s[i] \in A /\ s[j] \in A
  BY <1>3, <1>4
<1>6. s[i] # s[j] /\ s[i] \in Listing(s) /\ s[j] \in Listing(s)
  BY <1>3, <1>5 DEF Distinct, Listing
<1>7. n[s[i]].parent = p /\ n[s[j]].parent = p
  BY <1>3, <1>5, <1>6
<1>. QED BY <1>4, <1>5, <1>6, <1>7 DEF s, subtree_contains

\* Ahead never holds on one path.
LEMMA AheadApart ==
  ASSUME NEW n, NEW A, Tree(n, A, NULL), NEW a \in A, NEW b \in A, Ahead(n, a, b), NEW z \in A
  PROVE  ~(a \in AncestorsOrSelf(n, z) /\ b \in AncestorsOrSelf(n, z))
<1>. SUFFICES ASSUME a \in AncestorsOrSelf(n, z), b \in AncestorsOrSelf(n, z) PROVE FALSE
  OBVIOUS
<1>1. PICK p \in Ends : \E i, j \in 1 .. Len(children(n, p)) :
           LET c == children(n, p)[i]  d == children(n, p)[j]
           IN  /\ i \in Nat /\ j \in Nat /\ i < j /\ c # d /\ c \in A /\ d \in A
               /\ n[c].parent = p /\ n[d].parent = p
               /\ c \in AncestorsOrSelf(n, a) /\ d \in AncestorsOrSelf(n, b)
  BY AheadBranches
<1>2. PICK c \in A, d \in A : /\ c # d /\ n[c].parent = p /\ n[d].parent = p
                              /\ c \in AncestorsOrSelf(n, a) /\ d \in AncestorsOrSelf(n, b)
  BY <1>1
<1>3. c \in AncestorsOrSelf(n, z) /\ d \in AncestorsOrSelf(n, z)
  BY <1>2, PathOrder
<1>. QED BY <1>2, <1>3, SiblingsApart

\* No two nodes are ahead of each other.
LEMMA AheadAsymmetric ==
  ASSUME NEW n, NEW A, Tree(n, A, NULL), NEW a \in A, NEW b \in A, Ahead(n, a, b)
  PROVE  ~Ahead(n, b, a)
<1>. SUFFICES ASSUME Ahead(n, b, a) PROVE FALSE
  OBVIOUS
<1>1. PICK p \in Ends : \E i, j \in 1 .. Len(children(n, p)) :
           LET c == children(n, p)[i]  d == children(n, p)[j]
           IN  /\ i \in Nat /\ j \in Nat /\ i < j /\ c # d /\ c \in A /\ d \in A
               /\ n[c].parent = p /\ n[d].parent = p
               /\ c \in AncestorsOrSelf(n, a) /\ d \in AncestorsOrSelf(n, b)
  BY AheadBranches
<1>2. PICK q \in Ends : \E i, j \in 1 .. Len(children(n, q)) :
           LET c == children(n, q)[i]  d == children(n, q)[j]
           IN  /\ i \in Nat /\ j \in Nat /\ i < j /\ c # d /\ c \in A /\ d \in A
               /\ n[c].parent = q /\ n[d].parent = q
               /\ c \in AncestorsOrSelf(n, b) /\ d \in AncestorsOrSelf(n, a)
  BY AheadBranches
<1> DEFINE s == children(n, p)
           t == children(n, q)
<1>3. PICK i \in 1 .. Len(s), j \in 1 .. Len(s) :
        /\ i \in Nat /\ j \in Nat /\ i < j /\ s[i] # s[j] /\ s[i] \in A /\ s[j] \in A
        /\ n[s[i]].parent = p /\ n[s[j]].parent = p
        /\ s[i] \in AncestorsOrSelf(n, a) /\ s[j] \in AncestorsOrSelf(n, b)
  BY <1>1
<1>4. PICK k \in 1 .. Len(t), l \in 1 .. Len(t) :
        /\ k \in Nat /\ l \in Nat /\ k < l /\ t[k] # t[l] /\ t[k] \in A /\ t[l] \in A
        /\ n[t[k]].parent = q /\ n[t[l]].parent = q
        /\ t[k] \in AncestorsOrSelf(n, b) /\ t[l] \in AncestorsOrSelf(n, a)
  BY <1>2
<1>5. Distinct(s)
  BY ChildrenListed
<1>. HIDE DEF s, t
<1>6. CASE p = q
  <2>1. s[i] = t[l]
    BY <1>3, <1>4, <1>6, SiblingsApart
  <2>2. s[j] = t[k]
    BY <1>3, <1>4, <1>6, SiblingsApart
  <2>3. s = t
    BY <1>6 DEF s, t
  <2>4. i = l /\ j = k
    BY <1>3, <1>4, <1>5, <2>1, <2>2, <2>3 DEF Distinct
  <2>. QED BY <1>3, <1>4, <2>4
<1>7. CASE p # q
  <2>1. s[i] # t[l] /\ s[j] # t[k]
    BY <1>3, <1>4, <1>7
  <2>2. s[i] \in AncestorsOrSelf(n, t[l]) \/ t[l] \in AncestorsOrSelf(n, s[i])
    BY <1>3, <1>4, PathOrder
  <2>3. ASSUME s[i] \in AncestorsOrSelf(n, t[l]) PROVE FALSE
    <3>1. q \in A /\ s[i] \in AncestorsOrSelf(n, q)
      BY <1>3, <1>4, <2>1, <2>3, PathUp
    <3>2. q \in AncestorsOrSelf(n, t[k])
      <4>1. n[t[k]].parent # NULL
        BY <1>4, <3>1, HierarchyAssumption DEF Tree, Inside
      <4>2. AncestorsOrSelf(n, t[k]) = {t[k]} \cup AncestorsOrSelf(n, q)
        BY <1>4, <4>1, PathUp
      <4>3. q \in AncestorsOrSelf(n, q)
        BY <3>1, Path
      <4>. QED BY <4>2, <4>3
    <3>3. s[i] \in AncestorsOrSelf(n, b)
      <4>1. s[i] \in AncestorsOrSelf(n, t[k])
        BY <1>3, <1>4, <3>1, <3>2, PathOrder
      <4>. QED BY <1>3, <1>4, <4>1, PathOrder
    <3>. QED BY <1>3, <3>3, SiblingsApart
  <2>4. ASSUME t[l] \in AncestorsOrSelf(n, s[i]) PROVE FALSE
    <3>1. p \in A /\ t[l] \in AncestorsOrSelf(n, p)
      BY <1>3, <1>4, <2>1, <2>4, PathUp
    <3>2. p \in AncestorsOrSelf(n, s[j])
      <4>1. n[s[j]].parent # NULL
        BY <1>3, <3>1, HierarchyAssumption DEF Tree, Inside
      <4>2. AncestorsOrSelf(n, s[j]) = {s[j]} \cup AncestorsOrSelf(n, p)
        BY <1>3, <4>1, PathUp
      <4>3. p \in AncestorsOrSelf(n, p)
        BY <3>1, Path
      <4>. QED BY <4>2, <4>3
    <3>3. t[l] \in AncestorsOrSelf(n, b)
      <4>1. t[l] \in AncestorsOrSelf(n, s[j])
        BY <1>3, <1>4, <3>1, <3>2, PathOrder
      <4>. QED BY <1>3, <1>4, <4>1, PathOrder
    <3>. QED BY <1>4, <3>3, SiblingsApart
  <2>. QED BY <2>2, <2>3, <2>4
<1>. QED BY <1>6, <1>7

\* Tree order is a strict order.
LEMMA PrecedingStrict ==
  ASSUME NEW n, NEW A, Tree(n, A, NULL), NEW a \in A, NEW b \in A, Preceding(n, a, b)
  PROVE  a # b /\ ~Preceding(n, b, a)
<1>0. a \in AncestorsOrSelf(n, a) /\ b \in AncestorsOrSelf(n, b)
  BY Path
<1>1. CASE a # b /\ a \in AncestorsOrSelf(n, b)
  <2>1. b \notin AncestorsOrSelf(n, a)
    BY <1>1, PathOrder
  <2>2. ~Ahead(n, b, a)
    BY <1>0, <1>1, AheadApart
  <2>. QED BY <1>1, <2>1, <2>2 DEF Preceding, subtree_contains
<1>2. CASE Ahead(n, a, b)
  <2>1. a # b
    BY <1>0, <1>2, AheadApart
  <2>2. b \notin AncestorsOrSelf(n, a)
    BY <1>0, <1>2, AheadApart
  <2>3. ~Ahead(n, b, a)
    BY <1>2, AheadAsymmetric
  <2>. QED BY <2>1, <2>2, <2>3 DEF Preceding, subtree_contains
<1>. QED BY <1>1, <1>2 DEF Preceding, subtree_contains

\* What precedes a node precedes its children, and the node does; children
\* stand in their order.
LEMMA PrecedingDown ==
  ASSUME NEW n, NEW A, Tree(n, A, NULL), NEW x \in A, NEW c \in A, n[c].parent = x
  PROVE  /\ Preceding(n, x, c)
         /\ \A a \in A : Preceding(n, a, x) => Preceding(n, a, c)
         /\ \A b \in A : Ahead(n, x, b) => Ahead(n, c, b)
<1>1. x # NULL /\ AncestorsOrSelf(n, c) = {c} \cup AncestorsOrSelf(n, x) /\ x \in AncestorsOrSelf(n, x)
      /\ c \notin AncestorsOrSelf(n, x)
  <2>1. x # NULL
    BY HierarchyAssumption DEF Tree, Inside
  <2>. QED BY <2>1, PathUp, Path, PathOrder
<1>2. Preceding(n, x, c)
  BY <1>1 DEF Preceding, subtree_contains
<1>3. \A y : subtree_contains(n, y, x) => subtree_contains(n, y, c)
  BY <1>1 DEF subtree_contains
<1>4. \A a \in A : Ahead(n, a, x) => Ahead(n, a, c)
  BY <1>3 DEF Ahead
<1>5. \A b \in A : Ahead(n, x, b) => Ahead(n, c, b)
  BY <1>3 DEF Ahead
<1>6. \A a \in A : a # x /\ subtree_contains(n, a, x) => a # c /\ subtree_contains(n, a, c)
  BY <1>1, <1>3 DEF subtree_contains
<1>. QED BY <1>2, <1>4, <1>5, <1>6 DEF Preceding

\* Of two children the older is ahead.
LEMMA ChildrenAhead ==
  ASSUME NEW n, NEW A, Tree(n, A, NULL), NEW p \in Ends
  PROVE  \A i, j \in 1 .. Len(children(n, p)) : i < j => Ahead(n, children(n, p)[i], children(n, p)[j])
<1>1. children(n, p) \in Seq(A)
  BY ChildrenListed
<1>2. \A x \in A : subtree_contains(n, x, x)
  BY Path DEF subtree_contains
<1>3. DOMAIN children(n, p) = 1 .. Len(children(n, p))
      /\ \A i \in 1 .. Len(children(n, p)) : children(n, p)[i] \in A
  BY <1>1
<1>. QED BY <1>2, <1>3 DEF Ahead

\* The walk passes the nodes in tree order, and its stack holds what is ahead
\* in the order of the subtrees.
OrderRight(n, w) ==
  /\ \A i, j \in 1 .. Len(w.out) : i < j => Preceding(n, w.out[i], w.out[j])
  /\ \A a \in Listing(w.out), b \in Listing(w.stack) : Preceding(n, a, b)
  /\ \A i, j \in 1 .. Len(w.stack) : i < j => Ahead(n, w.stack[i], w.stack[j])

\* Stacked lists are in order when each is and the first is ahead of the second.
LEMMA JoinAhead ==
  ASSUME NEW n, NEW A, NEW s \in Seq(A), NEW t \in Seq(A),
         \A i, j \in 1 .. Len(s) : i < j => Ahead(n, s[i], s[j]),
         \A i, j \in 1 .. Len(t) : i < j => Ahead(n, t[i], t[j]),
         \A a \in Listing(s), b \in Listing(t) : Ahead(n, a, b)
  PROVE  \A i, j \in 1 .. Len(s \o t) : i < j => Ahead(n, (s \o t)[i], (s \o t)[j])
<1>1. PICK a \in Nat, b \in Nat : a = Len(s) /\ b = Len(t)
  OBVIOUS
<1> DEFINE u == s \o t
<1>2. /\ Len(u) = a + b /\ \A i \in 1 .. a : u[i] = s[i]
      /\ \A i \in 1 .. a + b : i > a => u[i] = t[i - a]
  BY <1>1
<1>. HIDE DEF u
<1>3. ASSUME NEW i \in 1 .. a + b, NEW j \in 1 .. a + b, i < j PROVE Ahead(n, u[i], u[j])
  <2>1. CASE j <= a
    <3>1. i \in 1 .. a /\ j \in 1 .. a
      BY <1>3, <2>1
    <3>. QED BY <1>1, <1>2, <1>3, <3>1
  <2>2. CASE i > a
    <3>1. i - a \in 1 .. b /\ j - a \in 1 .. b /\ i - a < j - a /\ j > a
      BY <1>3, <2>2
    <3>. QED BY <1>1, <1>2, <2>2, <3>1
  <2>3. CASE i <= a /\ j > a
    <3>1. i \in 1 .. a /\ j - a \in 1 .. b
      BY <1>3, <2>3
    <3>2. u[i] \in Listing(s) /\ u[j] \in Listing(t)
      BY <1>1, <1>2, <2>3, <3>1 DEF Listing
    <3>. QED BY <3>2
  <2>. QED BY <2>1, <2>2, <2>3
<1>. QED BY <1>2, <1>3 DEF u

\* A list in tree order can be continued by what all of it precedes.
LEMMA AppendPreceding ==
  ASSUME NEW n, NEW A, NEW s \in Seq(A), NEW h \in A,
         \A i, j \in 1 .. Len(s) : i < j => Preceding(n, s[i], s[j]),
         \A a \in Listing(s) : Preceding(n, a, h)
  PROVE  \A i, j \in 1 .. Len(Append(s, h)) : i < j => Preceding(n, Append(s, h)[i], Append(s, h)[j])
<1>1. PICK c \in Nat : c = Len(s)
  OBVIOUS
<1> DEFINE t == Append(s, h)
<1>2. Len(t) = c + 1 /\ t[c + 1] = h /\ \A i \in 1 .. c : t[i] = s[i]
  BY <1>1
<1>. HIDE DEF t
<1>3. ASSUME NEW i \in 1 .. c + 1, NEW j \in 1 .. c + 1, i < j PROVE Preceding(n, t[i], t[j])
  <2>1. i \in 1 .. c /\ t[i] = s[i]
    BY <1>2, <1>3
  <2>2. CASE j = c + 1
    <3>1. s[i] \in Listing(s)
      BY <1>1, <2>1 DEF Listing
    <3>. QED BY <1>2, <2>1, <2>2, <3>1
  <2>3. CASE j # c + 1
    <3>1. j \in 1 .. c /\ t[j] = s[j]
      BY <1>2, <2>3
    <3>. QED BY <1>1, <1>3, <2>1, <3>1
  <2>. QED BY <2>2, <2>3
<1>. QED BY <1>2, <1>3 DEF t

\* One step of the walk keeps the order.
LEMMA PopOrder ==
  ASSUME NEW n, NEW A, Tree(n, A, NULL), NEW k \in Nat, NEW w, WalkRight(n, A, w, k), OrderRight(n, w)
  PROVE  OrderRight(n, Popped(n, w))
<1>0. A \subseteq Ends
  BY DEF Tree, Inside, Ends
<1>1. CASE w.stack = <<>>
  BY <1>1 DEF Popped
<1>2. CASE w.stack # <<>>
  <2> DEFINE out == w.out
             stack == w.stack
             h == Head(stack)
             rest == Tail(stack)
             kids == children(n, h)
             pushed == kids \o rest
             grown == Append(out, h)
             m == [stack |-> pushed, out |-> grown]
  <2>1. Popped(n, w) = m
    BY <1>2 DEF Popped
  <2>2. m.stack = pushed /\ m.out = grown
    OBVIOUS
  <2>3. /\ out \in Seq(A) /\ stack \in Seq(A) /\ stack # <<>>
        /\ \A i, j \in 1 .. Len(out) : i < j => Preceding(n, out[i], out[j])
        /\ \A a \in Listing(out), b \in Listing(stack) : Preceding(n, a, b)
        /\ \A i, j \in 1 .. Len(stack) : i < j => Ahead(n, stack[i], stack[j])
    BY <1>2 DEF WalkRight, OrderRight
  <2>. HIDE DEF m, out, stack
  <2>4. h \in A /\ rest \in Seq(A) /\ Listing(stack) = {h} \cup Listing(rest)
    BY <2>3, SplitList
  <2>5. /\ \A b \in Listing(rest) : Ahead(n, h, b)
        /\ \A i, j \in 1 .. Len(rest) : i < j => Ahead(n, rest[i], rest[j])
    <3>1. PICK c \in Nat : Len(stack) = c + 1
      <4>1. Len(stack) \in Nat /\ Len(stack) # 0
        BY <2>3
      <4>2. Len(stack) - 1 \in Nat /\ Len(stack) = (Len(stack) - 1) + 1
        BY <4>1
      <4>. QED BY <4>2
    <3>2. Len(rest) = c /\ h = stack[1] /\ \A i \in 1 .. c : rest[i] = stack[i + 1]
      BY <2>3, <3>1
    <3>. HIDE DEF h, rest
    <3>3. \A i \in 1 .. c : Ahead(n, h, rest[i])
      <4>. SUFFICES ASSUME NEW i \in 1 .. c PROVE Ahead(n, h, rest[i])
        OBVIOUS
      <4>1. 1 \in 1 .. c + 1 /\ i + 1 \in 1 .. c + 1 /\ 1 < i + 1
        OBVIOUS
      <4>. QED BY <2>3, <3>1, <3>2, <4>1
    <3>4. ASSUME NEW i \in 1 .. c, NEW j \in 1 .. c, i < j PROVE Ahead(n, rest[i], rest[j])
      <4>1. i + 1 \in 1 .. c + 1 /\ j + 1 \in 1 .. c + 1 /\ i + 1 < j + 1
        BY <3>4
      <4>. QED BY <2>3, <3>1, <3>2, <4>1
    <3>. QED BY <3>2, <3>3, <3>4 DEF Listing
  <2>. HIDE DEF h, rest
  <2>6. /\ kids \in Seq(A) /\ \A x \in A : x \in Listing(kids) <=> n[x].parent = h
        /\ \A i, j \in 1 .. Len(kids) : i < j => Ahead(n, kids[i], kids[j])
    <3>1. h \in Ends
      BY <1>0, <2>4
    <3>. QED BY <3>1, ChildrenListed, ChildrenAhead
  <2>. HIDE DEF kids
  <2>7. Listing(kids) \subseteq A /\ Listing(rest) \subseteq A /\ Listing(out) \subseteq A
    BY <2>3, <2>4, <2>6 DEF Listing
  <2>8. \A x \in Listing(kids) :
          /\ Preceding(n, h, x)
          /\ \A a \in A : Preceding(n, a, h) => Preceding(n, a, x)
          /\ \A b \in A : Ahead(n, h, b) => Ahead(n, x, b)
    <3>. SUFFICES ASSUME NEW x \in Listing(kids)
                  PROVE  /\ Preceding(n, h, x)
                         /\ \A a \in A : Preceding(n, a, h) => Preceding(n, a, x)
                         /\ \A b \in A : Ahead(n, h, b) => Ahead(n, x, b)
      OBVIOUS
    <3>1. x \in A /\ n[x].parent = h
      BY <2>6, <2>7
    <3>. QED BY <2>4, <3>1, PrecedingDown
  <2>9. Listing(grown) = Listing(out) \cup {h} /\ Listing(pushed) = Listing(kids) \cup Listing(rest)
    BY <2>3, <2>4, <2>6, LongerList, JoinLists
  <2>10. \A i, j \in 1 .. Len(grown) : i < j => Preceding(n, grown[i], grown[j])
    <3>1. \A a \in Listing(out) : Preceding(n, a, h)
      BY <2>3, <2>4
    <3>. QED BY <2>3, <2>4, <3>1, AppendPreceding
  <2>11. \A i, j \in 1 .. Len(pushed) : i < j => Ahead(n, pushed[i], pushed[j])
    <3>1. \A a \in Listing(kids), b \in Listing(rest) : Ahead(n, a, b)
      BY <2>5, <2>7, <2>8
    <3>. QED BY <2>4, <2>5, <2>6, <3>1, JoinAhead
  <2>12. \A a \in Listing(grown), b \in Listing(pushed) : Preceding(n, a, b)
    <3>. SUFFICES ASSUME NEW a \in Listing(grown), NEW b \in Listing(pushed) PROVE Preceding(n, a, b)
      OBVIOUS
    <3>. HIDE DEF grown, pushed
    <3>1. CASE a \in Listing(out) /\ b \in Listing(kids)
      BY <2>3, <2>4, <2>7, <2>8, <3>1
    <3>2. CASE a \in Listing(out) /\ b \in Listing(rest)
      BY <2>3, <2>4, <3>2
    <3>3. CASE a = h /\ b \in Listing(kids)
      BY <2>8, <3>3
    <3>4. CASE a = h /\ b \in Listing(rest)
      BY <2>5, <3>4 DEF Preceding
    <3>. QED BY <2>9, <3>1, <3>2, <3>3, <3>4
  <2>. HIDE DEF grown, pushed
  <2>. QED BY <2>1, <2>2, <2>10, <2>11, <2>12 DEF OrderRight
<1>. QED BY <1>1, <1>2

\* depth_first lists the nodes in tree order.
LEMMA DepthFirstOrder ==
  ASSUME NEW n, NEW A, Tree(n, A, NULL)
  PROVE  LET s == depth_first(n)
         IN  \A i, j \in 1 .. Len(s) : i < j => Preceding(n, s[i], s[j])
<1> DEFINE N == Cardinality(Entity)
           s == depth_first(n)
<1>0. N \in Nat /\ NULL \in Ends /\ A \subseteq Ends
  BY HierarchyAssumption, FS_CardinalityType DEF Tree, Inside, Ends
<1>1. PICK walk : Walks(n, N, walk) /\ s = walk[N].out
  BY DepthWalk
<1>. HIDE DEF N, s
<1>2. \A k \in 0 .. N : WalkRight(n, A, walk[k], k) /\ OrderRight(n, walk[k])
  <2> DEFINE Bad == {k \in 0 .. N : ~(WalkRight(n, A, walk[k], k) /\ OrderRight(n, walk[k]))}
  <2>. SUFFICES ASSUME Bad # {} PROVE FALSE
    OBVIOUS
  <2>1. PICK k \in Bad : \A j \in Bad : k <= j
    <3>1. Bad \in SUBSET Nat
      OBVIOUS
    <3>. QED BY <3>1, LeastOf
  <2>2. CASE k = 0
    <3> DEFINE r == children(n, NULL)
    <3>1. walk[0] = [stack |-> r, out |-> <<>>]
      BY <1>0, <1>1 DEF Walks
    <3>2. /\ r \in Seq(A) /\ Distinct(r) /\ \A x \in A : x \in Listing(r) <=> n[x].parent = NULL
          /\ \A i, j \in 1 .. Len(r) : i < j => Ahead(n, r[i], r[j])
      BY <1>0, ChildrenListed, ChildrenAhead
    <3>. HIDE DEF r
    <3>3. walk[0].stack = r /\ walk[0].out = <<>> /\ <<>> \in Seq(A) /\ Len(<<>>) = 0
      BY <3>1
    <3>4. Distinct(<<>>) /\ Listing(<<>>) = {} /\ OutAfterParent(n, <<>>)
      BY DEF Distinct, Listing, OutAfterParent
    <3>5. WalkRight(n, A, walk[0], 0)
      BY <3>2, <3>3, <3>4 DEF WalkRight
    <3>6. OrderRight(n, walk[0])
      BY <3>2, <3>3, <3>4 DEF OrderRight
    <3>. QED BY <2>1, <2>2, <3>5, <3>6
  <2>3. CASE k # 0
    <3>1. k - 1 \in 0 .. N /\ k - 1 \in Nat /\ k - 1 \notin Bad /\ (k - 1) + 1 = k
      BY <1>0, <2>1, <2>3
    <3>2. walk[k] = Popped(n, walk[k - 1])
      BY <1>0, <1>1, <2>1, <2>3 DEF Walks
    <3>3. WalkRight(n, A, walk[k - 1], k - 1) /\ OrderRight(n, walk[k - 1])
      BY <3>1
    <3>4. WalkRight(n, A, walk[k], (k - 1) + 1)
      BY <3>1, <3>2, <3>3, PopStep
    <3>5. OrderRight(n, walk[k])
      BY <3>1, <3>2, <3>3, PopOrder
    <3>. QED BY <2>1, <3>1, <3>4, <3>5
  <2>. QED BY <2>2, <2>3
<1>3. OrderRight(n, walk[N])
  BY <1>0, <1>2
<1>. QED BY <1>1, <1>3 DEF OrderRight, s

-----------------------------------------------------------------------------
\* The order depends on the links only: the paths to the roots
LEMMA SameAbove ==
  ASSUME NEW n, NEW m, NEW A, Tree(n, A, NULL), Tree(m, A, NULL), \A d \in Ends : SameLinks(n, m, d),
         NEW e \in A
  PROVE  AncestorsOrSelf(m, e) = AncestorsOrSelf(n, e)
<1> DEFINE T == AncestorsOrSelf(n, e)
           U == AncestorsOrSelf(m, e)
<1>0. A \subseteq Entity /\ A \subseteq Ends /\ \A d \in A : m[d].parent = n[d].parent
  BY DEF Tree, Inside, Ends, SameLinks
<1>1. /\ T \in SUBSET A /\ e \in T /\ \A x \in T : n[x].parent \in T \cup {NULL}
      /\ \A S \in SUBSET Entity : e \in S /\ (\A x \in S : n[x].parent \in S \cup {NULL}) => T \subseteq S
  BY Path
<1>2. /\ U \in SUBSET A /\ e \in U /\ \A x \in U : m[x].parent \in U \cup {NULL}
      /\ \A S \in SUBSET Entity : e \in S /\ (\A x \in S : m[x].parent \in S \cup {NULL}) => U \subseteq S
  BY Path
<1>. HIDE DEF T, U
<1>3. T \subseteq U
  BY <1>0, <1>1, <1>2
<1>4. U \subseteq T
  BY <1>0, <1>1, <1>2
<1>. QED BY <1>3, <1>4 DEF T, U

\* ... the lists of children
LEMMA SameChildren ==
  ASSUME NEW n, NEW m, NEW A, Tree(n, A, NULL), \A d \in Ends : SameLinks(n, m, d), NEW p \in Ends
  PROVE  children(m, p) = children(n, p)
<1> DEFINE N == Cardinality(Entity)
<1>0. /\ N \in Nat /\ A \subseteq Ends
      /\ \A d \in Ends : n[d].prev_sibling \in Ends /\ n[d].last_child \in Ends
      /\ \A d \in Ends : m[d].prev_sibling = n[d].prev_sibling /\ m[d].last_child = n[d].last_child
  BY HierarchyAssumption, FS_CardinalityType DEF Tree, Inside, Ends, SameLinks
<1>1. PICK f : Siblings(n, p, N, f) /\ children(n, p) = f[N].out
  BY ChildrenWalk
<1>2. PICK g : Siblings(m, p, N, g) /\ children(m, p) = g[N].out
  BY ChildrenWalk
<1>. HIDE DEF N
<1>3. \A k \in 0 .. N : g[k] = f[k] /\ f[k].at \in Ends
  <2> DEFINE Bad == {k \in 0 .. N : ~(g[k] = f[k] /\ f[k].at \in Ends)}
  <2>. SUFFICES ASSUME Bad # {} PROVE FALSE
    OBVIOUS
  <2>1. PICK k \in Bad : \A j \in Bad : k <= j
    <3>1. Bad \in SUBSET Nat
      BY <1>0
    <3>. QED BY <3>1, LeastOf
  <2>2. CASE k = 0
    <3>1. f[0] = [at |-> n[p].last_child, out |-> <<>>] /\ g[0] = [at |-> m[p].last_child, out |-> <<>>]
      BY <1>0, <1>1, <1>2 DEF Siblings
    <3>2. g[0] = f[0] /\ f[0].at \in Ends
      BY <1>0, <3>1
    <3>. QED BY <2>1, <2>2, <3>2
  <2>3. CASE k # 0
    <3>1. k \in 0 .. N /\ k - 1 \in 0 .. N /\ k - 1 \notin Bad
      BY <1>0, <2>1, <2>3
    <3>2. g[k - 1] = f[k - 1] /\ f[k - 1].at \in Ends
      BY <3>1
    <3>3. f[k] = Sibling(n, f[k - 1])
      BY <1>0, <1>1, <2>3, <3>1 DEF Siblings
    <3>4. g[k] = Sibling(m, g[k - 1])
      BY <1>0, <1>2, <2>3, <3>1 DEF Siblings
    <3> DEFINE l == f[k - 1]
    <3>5. l.at \in Ends /\ f[k] = Sibling(n, l) /\ g[k] = Sibling(m, l)
      BY <3>2, <3>3, <3>4
    <3>. HIDE DEF l
    <3>6. g[k] = f[k] /\ f[k].at \in Ends
      <4>1. CASE l.at = NULL
        BY <3>5, <4>1 DEF Sibling
      <4>2. CASE l.at # NULL
        <5> DEFINE a == l.at
        <5>1. /\ f[k] = [at |-> n[a].prev_sibling, out |-> <<a>> \o l.out]
              /\ g[k] = [at |-> m[a].prev_sibling, out |-> <<a>> \o l.out]
          BY <3>5, <4>2, Zenon DEF Sibling
        <5>2. m[a].prev_sibling = n[a].prev_sibling /\ n[a].prev_sibling \in Ends
          BY <1>0, <3>5
        <5>3. f[k].at = n[a].prev_sibling
          BY <5>1
        <5>. QED BY <5>1, <5>2, <5>3
      <4>. QED BY <4>1, <4>2
    <3>. QED BY <2>1, <3>6
  <2>. QED BY <2>2, <2>3
<1>. QED BY <1>0, <1>1, <1>2, <1>3

\* ... and the order.
LEMMA SamePreceding ==
  ASSUME NEW n, NEW m, NEW A, Tree(n, A, NULL), Tree(m, A, NULL), \A d \in Ends : SameLinks(n, m, d),
         NEW a \in A, NEW b \in A
  PROVE  Preceding(m, a, b) <=> Preceding(n, a, b)
<1>1. \A x : (subtree_contains(m, x, a) <=> subtree_contains(n, x, a))
          /\ (subtree_contains(m, x, b) <=> subtree_contains(n, x, b))
  BY SameAbove DEF subtree_contains
<1>2. \A p \in Ends : children(m, p) = children(n, p)
  BY SameChildren
<1>3. Ahead(m, a, b) <=> Ahead(n, a, b)
  BY <1>1, <1>2 DEF Ahead
<1>. QED BY <1>1, <1>3 DEF Preceding

\* The cached indices are the tree order.
Indexed(n, A, o) ==
  o # <<>> =>
    /\ Range(o) = A
    /\ \A i, j \in DOMAIN o : i < j <=> Preceding(n, o[i], o[j])
OrderIInv == Indexed(node, adopted, order)

\* What moves no link keeps them.
LEMMA IndicesKept ==
  ASSUME NEW n, NEW m, NEW A, Tree(n, A, NULL), Tree(m, A, NULL), \A d \in Ends : SameLinks(n, m, d),
         NEW o, Indexed(n, A, o)
  PROVE  Indexed(m, A, o)
<1>. SUFFICES ASSUME o # <<>> PROVE Indexed(m, A, o)
  BY DEF Indexed
<1>1. Range(o) = A /\ \A i, j \in DOMAIN o : i < j <=> Preceding(n, o[i], o[j])
  BY DEF Indexed
<1>2. \A i \in DOMAIN o : o[i] \in A
  BY <1>1 DEF Range
<1>3. \A i, j \in DOMAIN o : Preceding(m, o[i], o[j]) <=> Preceding(n, o[i], o[j])
  BY <1>2, SamePreceding
<1>. QED BY <1>1, <1>3 DEF Indexed

\* The walk of rebuild_order is the tree order.
LEMMA WalkIndexed ==
  ASSUME NEW n, NEW A, Tree(n, A, NULL)
  PROVE  Indexed(n, A, depth_first(n))
<1> DEFINE s == depth_first(n)
<1>1. s \in Seq(A) /\ Distinct(s) /\ Listing(s) = A
  BY DepthFirst
<1>2. \A i, j \in 1 .. Len(s) : i < j => Preceding(n, s[i], s[j])
  BY DepthFirstOrder
<1>. HIDE DEF s
<1>3. DOMAIN s = 1 .. Len(s) /\ 1 .. Len(s) \subseteq Nat /\ \A i \in 1 .. Len(s) : s[i] \in A
  BY <1>1
<1>4. Range(s) = A
  BY <1>1, RangeOf DEF Listing
<1>5. ASSUME NEW i \in 1 .. Len(s), NEW j \in 1 .. Len(s), Preceding(n, s[i], s[j]) PROVE i < j
  <2>1. s[i] # s[j] /\ ~Preceding(n, s[j], s[i])
    BY <1>3, <1>5, PrecedingStrict
  <2>2. i # j /\ ~(j < i)
    BY <1>2, <2>1
  <2>. QED BY <1>3, <2>2
<1>6. \A i, j \in DOMAIN s : i < j <=> Preceding(n, s[i], s[j])
  BY <1>2, <1>3, <1>5
<1>. QED BY <1>4, <1>6 DEF Indexed, s

\* The handlers that keep the indices move no link.
LEMMA OrderKept ==
  ASSUME HierarchyIInv, HierarchyIInv', OrderIInv, order' = order, adopted' = adopted,
         \A d \in Ends : SameLinks(node, node', d)
  PROVE  OrderIInv'
<1>1. Tree(node, adopted, NULL) /\ Tree(node', adopted, NULL)
  BY DEF HierarchyIInv, Good
<1>2. Indexed(node, adopted, order)
  BY DEF OrderIInv
<1>3. Indexed(node', adopted, order)
  BY <1>1, <1>2, IndicesKept
<1>. QED BY <1>3 DEF OrderIInv

\* A reparent that moves nothing changes nothing; any other makes them stale.
LEMMA ReparentOrder ==
  ASSUME HierarchyIInv, NEW child \in Entity, NEW p \in Entity \cup {NULL}, apply_reparent(child, p)
  PROVE  (node' = node /\ adopted' = adopted /\ order' = order) \/ order' = <<>>
<1> DEFINE strangers == {child, p} \ (adopted \cup {NULL})
           entered == IF child \in strangers THEN adopt_node(node, child) ELSE node
           n == IF p \in strangers \ {child} THEN adopt_node(entered, p) ELSE entered
           cycle == p # NULL /\ subtree_contains(n, child, p)
<1>1. /\ adopted' = adopted \cup strangers
      /\ cycle => node' = n
      /\ order' = IF cycle /\ strangers = {} THEN order ELSE <<>>
  BY DEF apply_reparent
<1>2. strangers = {} => n = node
  OBVIOUS
<1>. HIDE DEF strangers, n, cycle
<1>. QED BY <1>1, <1>2

\* Every step keeps the indices, rebuilds them or makes them stale.
LEMMA OrderStep ==
  ASSUME HierarchyIInv, HierarchyIInv', OrderIInv, [HierarchyNext]_hierarchyVars
  PROVE  OrderIInv'
<1>0. /\ adopted \subseteq Ends /\ adopted \subseteq Entity /\ NULL \notin Entity /\ node \in Nodes
      /\ Good(node, adopted) /\ Tree(node, adopted, NULL)
  BY Members DEF HierarchyIInv
<1>1. ASSUME node' = node, adopted' = adopted, order' = order PROVE OrderIInv'
  BY <1>1 DEF OrderIInv
<1>2. ASSUME order' = <<>> PROVE OrderIInv'
  BY <1>2 DEF OrderIInv, Indexed
<1>3. CASE UNCHANGED hierarchyVars
  BY <1>1, <1>3 DEF hierarchyVars, treeVars
<1>4. CASE HierarchyNext
  <2>1. ASSUME NEW e \in Entity, spawn(e) \/ despawn(e) PROVE OrderIInv'
    BY <1>1, <2>1 DEF spawn, despawn, treeVars
  <2>2. ASSUME NEW e \in Entity, adopt(e) PROVE OrderIInv'
    BY <1>2, <2>2 DEF adopt
  <2>3. ASSUME NEW e \in Entity, activate(e) \/ deactivate(e) PROVE OrderIInv'
    <3>1. PICK delta \in {1, -1} : scope(e, delta) /\ e \in adopted
      BY <2>3 DEF activate, deactivate
    <3> DEFINE f == [node EXCEPT ![e].deactivated = delta > 0]
               S == collect_subtree(f, e)
    <3>2. node' = covered(f, S, delta) /\ adopted' = adopted /\ order' = order
      BY <3>1 DEF scope
    <3>3. Flagged(node, f, e, delta > 0)
      <4>1. (delta > 0) \in BOOLEAN
        OBVIOUS
      <4>. QED BY <4>1, <1>0, FlagFields
    <3>. HIDE DEF f
    <3>4. f \in Nodes /\ \A d \in Ends : SameLinks(node, f, d)
      BY <3>3 DEF Flagged
    <3>5. Tree(f, adopted, NULL)
      BY <1>0, <3>4, SameTree
    <3>6. S \in SUBSET Entity /\ delta \in Int /\ row \in [Entity -> [Component -> RowState]]
      BY <1>0, <3>1, <3>5, Subtree DEF HierarchyIInv, RowsRight
    <3>. HIDE DEF S
    <3>7. Covered(f, node', S, delta)
      BY <3>2, <3>4, <3>6, CoveredFields
    <3>8. \A d \in Ends : SameLinks(f, node', d)
      BY <3>7 DEF Covered
    <3>9. \A d \in Ends : SameLinks(node, node', d)
      BY <3>4, <3>8 DEF SameLinks
    <3>. QED BY <3>2, <3>9, OrderKept
  <2>4. ASSUME NEW e \in Entity, NEW c \in Component, NEW bit \in {"off", "on"},
               emplace(e, c, bit) \/ set_active(e, c, bit)
        PROVE  OrderIInv'
    BY <1>1, <2>4 DEF emplace, set_active, treeVars
  <2>5. ASSUME NEW child \in Entity, NEW p \in Entity \cup {NULL}, apply_reparent(child, p)
        PROVE  OrderIInv'
    BY <2>5, <1>1, <1>2, ReparentOrder
  <2>6. ASSUME NEW e \in Entity, NEW l \in Local, set_local(e, l) PROVE OrderIInv'
    <3>1. e \in adopted /\ node' = mark_transform_dirty(node, e) /\ adopted' = adopted /\ order' = order
      BY <2>6 DEF set_local
    <3>2. Marked(node, node', e)
      BY <1>0, <3>1, GoodMarked
    <3>. QED BY <3>1, <3>2, OrderKept DEF Marked
  <2>7. CASE propagate
    <3> DEFINE done == Propagated
    <3>1. node' = Clean(node, done.fresh, done.open) /\ adopted' = adopted /\ order' = order
      BY <2>7 DEF propagate, Clean
    <3>. HIDE DEF done
    <3>2. Cleaned(node, node', done.fresh, done.open)
      BY <1>0, <3>1, CleanFields
    <3>. QED BY <3>1, <3>2, OrderKept DEF Cleaned
  <2>8. CASE rebuild_order
    <3>1. node' = node /\ adopted' = adopted /\ order' = depth_first(node)
      BY <2>8 DEF rebuild_order, treeVars
    <3>2. Indexed(node, adopted, depth_first(node))
      BY <1>0, WalkIndexed
    <3>. QED BY <3>1, <3>2 DEF OrderIInv
  <2>9. CASE cascade
    BY <1>1, <2>9 DEF cascade, treeVars
  <2>10. CASE finish_despawn
    <3>1. CASE Victim \in adopted
      BY <1>2, <2>10, <3>1 DEF finish_despawn
    <3>2. CASE Victim \notin adopted
      BY <1>1, <2>10, <3>2 DEF finish_despawn
    <3>. QED BY <3>1, <3>2
  <2>. QED BY <1>4, <2>1, <2>2, <2>3, <2>4, <2>5, <2>6, <2>7, <2>8, <2>9, <2>10 DEF HierarchyNext, Cascading
<1>. QED BY <1>3, <1>4

\* Whenever the indices are cached they are the tree order: parents before
\* children, older subtrees before younger (order_index, rebuild_order).
THEOREM OrderStaysFresh == HierarchySpec => []OrderFresh
<1>1. HierarchyInit => OrderIInv
  BY DEF HierarchyInit, OrderIInv, Indexed
<1>2. HierarchyIInv /\ HierarchyIInv' /\ OrderIInv /\ [HierarchyNext]_hierarchyVars => OrderIInv'
  BY OrderStep
<1>3. OrderIInv => OrderFresh
  BY DEF OrderIInv, Indexed, OrderFresh, Precedes, Preceding, Ahead, Ends
<1>. QED BY <1>1, <1>2, <1>3, HierarchyInvariant, PTL DEF HierarchySpec

-----------------------------------------------------------------------------
\* The lists of children as an ordered forest.  A list without repetition from
\* which a member is removed: what stands behind it moves up.
LEMMA RemovedMember ==
  ASSUME NEW T, NEW s \in Seq(T), Distinct(s), NEW j \in 1 .. Len(s)
  PROVE  LET r == RemoveFirst(s, s[j])
         IN  /\ r \in Seq(T) /\ Len(r) = Len(s) - 1
             /\ \A i \in 1 .. Len(s) - 1 : r[i] = IF i < j THEN s[i] ELSE s[i + 1]
<1>1. PICK c \in Nat : c = Len(s)
  OBVIOUS
<1> DEFINE I == {i \in 1 .. Len(s) : s[i] = s[j]}
<1>2. I = {j}
  BY DEF Distinct
<1>3. Min(I) = j
  BY <1>1, <1>2 DEF Min
<1>4. SelectInSeq(s, LAMBDA v : v = s[j]) = j
  <2>1. SelectInSeq(s, LAMBDA v : v = s[j]) = IF I # {} THEN Min(I) ELSE 0
    BY DEF SelectInSeq
  <2>. QED BY <1>2, <1>3, <2>1
<1>5. RemoveFirst(s, s[j]) = SubSeq(s, 1, j - 1) \o SubSeq(s, j + 1, c)
  <2>1. RemoveFirst(s, s[j]) = RemoveAt(s, SelectInSeq(s, LAMBDA v : v = s[j]))
    BY DEF RemoveFirst
  <2>. QED BY <1>1, <1>4, <2>1 DEF RemoveAt
<1>6. j \in 1 .. c /\ \A i \in 1 .. c : s[i] \in T
  BY <1>1
<1> DEFINE a == SubSeq(s, 1, j - 1)
           b == SubSeq(s, j + 1, c)
<1>7. a \in Seq(T) /\ Len(a) = j - 1 /\ \A i \in 1 .. j - 1 : a[i] = s[i]
  BY <1>1, <1>6
<1>8. b \in Seq(T) /\ Len(b) = c - j /\ \A i \in 1 .. c - j : b[i] = s[i + j]
  BY <1>1, <1>6
<1>. HIDE DEF a, b
<1> DEFINE r == a \o b
<1>9. /\ r \in Seq(T) /\ Len(r) = c - 1
      /\ \A i \in 1 .. c - 1 : r[i] = IF i < j THEN a[i] ELSE b[i - (j - 1)]
  <2>1. PICK la \in Nat, lb \in Nat : la = j - 1 /\ lb = c - j
    BY <1>6
  <2>2. la + lb = c - 1 /\ Len(a) = la /\ Len(b) = lb /\ a \in Seq(T) /\ b \in Seq(T)
    BY <1>6, <1>7, <1>8, <2>1
  <2>3. r \in Seq(T) /\ Len(r) = la + lb
    BY <2>2
  <2>4. ASSUME NEW i \in 1 .. la + lb PROVE r[i] = IF i <= la THEN a[i] ELSE b[i - la]
    BY <2>2
  <2>. HIDE DEF r
  <2>. QED BY <1>6, <2>1, <2>2, <2>3, <2>4
<1>. HIDE DEF r
<1>10. ASSUME NEW i \in 1 .. c - 1 PROVE r[i] = IF i < j THEN s[i] ELSE s[i + 1]
  <2>1. CASE i < j
    BY <1>6, <1>7, <1>9, <2>1
  <2>2. CASE ~(i < j)
    <3>1. i - (j - 1) \in 1 .. c - j /\ (i - (j - 1)) + j = i + 1
      BY <1>6, <2>2
    <3>. QED BY <1>8, <1>9, <2>2, <3>1
  <2>. QED BY <2>1, <2>2
<1>. QED BY <1>1, <1>5, <1>9, <1>10 DEF r, a, b

\* ... and nothing happens to a list it is not in.
LEMMA RemovedStranger ==
  ASSUME NEW s, NEW e, e \notin Listing(s)
  PROVE  RemoveFirst(s, e) = s
BY DEF RemoveFirst, Listing

\* A list of siblings: each once, and each links to the one before it.
Row(n, A, p, s) ==
  /\ s \in Seq(A) /\ Distinct(s)
  /\ \A x \in A : x \in Listing(s) <=> n[x].parent = p
  /\ \A i \in 1 .. Len(s) : n[s[i]].prev_sibling = IF i = 1 THEN NULL ELSE s[i - 1]

\* There is one such list.
LEMMA RowPrefix ==
  ASSUME NEW n, NEW A, NULL \notin A, NEW p, NEW s, NEW t, Row(n, A, p, s), Row(n, A, p, t)
  PROVE  Len(s) <= Len(t) /\ \A i \in 1 .. Len(s) : t[i] = s[i]
<1>1. PICK c \in Nat, d \in Nat : c = Len(s) /\ d = Len(t)
  BY DEF Row
<1>2. /\ \A i \in 1 .. c : s[i] \in A /\ n[s[i]].prev_sibling = IF i = 1 THEN NULL ELSE s[i - 1]
      /\ \A i \in 1 .. d : t[i] \in A /\ n[t[i]].prev_sibling = IF i = 1 THEN NULL ELSE t[i - 1]
      /\ \A i, j \in 1 .. d : t[i] = t[j] => i = j
      /\ \A i \in 1 .. c : \E j \in 1 .. d : t[j] = s[i]
  <2>1. \A i \in 1 .. c : s[i] \in A /\ n[s[i]].prev_sibling = IF i = 1 THEN NULL ELSE s[i - 1]
    BY <1>1 DEF Row
  <2>2. \A i \in 1 .. d : t[i] \in A /\ n[t[i]].prev_sibling = IF i = 1 THEN NULL ELSE t[i - 1]
    BY <1>1 DEF Row
  <2>3. \A i, j \in 1 .. d : t[i] = t[j] => i = j
    BY <1>1 DEF Row, Distinct
  <2>4. ASSUME NEW i \in 1 .. c PROVE \E j \in 1 .. d : t[j] = s[i]
    <3>1. s[i] \in Listing(s) /\ s[i] \in A
      BY <1>1, <2>1 DEF Listing
    <3>2. s[i] \in Listing(t)
      BY <3>1 DEF Row
    <3>. QED BY <1>1, <3>2 DEF Listing
  <2>. QED BY <2>1, <2>2, <2>3, <2>4
<1> DEFINE Bad == {i \in 1 .. c : ~(i \in 1 .. d /\ t[i] = s[i])}
<1>3. Bad = {}
  <2>. SUFFICES ASSUME Bad # {} PROVE FALSE
    OBVIOUS
  <2>1. PICK i \in Bad : \A k \in Bad : i <= k
    <3>1. Bad \in SUBSET Nat
      OBVIOUS
    <3>. QED BY <3>1, LeastOf
  <2>2. PICK j \in 1 .. d : t[j] = s[i]
    BY <1>2
  <2>3. i \in 1 .. c /\ ~(i \in 1 .. d /\ t[i] = s[i]) /\ \A k \in 1 .. c : k < i => k \in 1 .. d /\ t[k] = s[k]
    BY <2>1
  <2>. HIDE DEF Bad
  <2>4. CASE i = 1
    <3>1. n[t[j]].prev_sibling = NULL
      BY <1>2, <2>2, <2>3, <2>4
    <3>2. j # 1 => t[j - 1] = NULL /\ j - 1 \in 1 .. d
      BY <1>2, <3>1
    <3>3. j = 1
      BY <1>2, <3>2
    <3>. QED BY <2>2, <2>3, <2>4, <3>3
  <2>5. CASE i # 1
    <3>1. i - 1 \in 1 .. c /\ i - 1 < i /\ i \in Nat
      BY <2>3, <2>5
    <3>2. i - 1 \in 1 .. d /\ t[i - 1] = s[i - 1] /\ s[i - 1] \in A
      BY <1>2, <2>3, <3>1
    <3>3. n[s[i]].prev_sibling = t[i - 1]
      BY <1>2, <2>3, <2>5, <3>2
    <3>4. n[t[j]].prev_sibling = t[i - 1] /\ t[i - 1] # NULL
      BY <2>2, <3>2, <3>3
    <3>5. j # 1 /\ j - 1 \in 1 .. d /\ t[j - 1] = t[i - 1]
      BY <1>2, <3>4
    <3>6. j - 1 = i - 1
      BY <1>2, <3>2, <3>5
    <3>7. j = i
      BY <2>3, <3>6
    <3>. QED BY <2>2, <2>3, <3>7
  <2>. QED BY <2>4, <2>5
<1>4. \A i \in 1 .. c : i \in 1 .. d /\ t[i] = s[i]
  BY <1>3
<1>5. c <= d
  <2>. HIDE DEF Bad
  <2>. QED BY <1>4
<1>. QED BY <1>1, <1>4, <1>5

\* What one table and one parent say is one list.
LEMMA RowUnique ==
  ASSUME NEW n, NEW A, NULL \notin A, NEW p, NEW s, NEW t, Row(n, A, p, s), Row(n, A, p, t)
  PROVE  s = t
<1>1. Len(s) <= Len(t) /\ \A i \in 1 .. Len(s) : t[i] = s[i]
  BY RowPrefix
<1>2. Len(t) <= Len(s)
  BY RowPrefix
<1>3. s \in Seq(A) /\ t \in Seq(A)
  BY DEF Row
<1>4. Len(s) = Len(t)
  BY <1>1, <1>2, <1>3
<1>. QED BY <1>1, <1>3, <1>4

\* ... which children is.
LEMMA ChildrenRow ==
  ASSUME NEW n, NEW A, Tree(n, A, NULL), NEW p \in Ends
  PROVE  Row(n, A, p, children(n, p)) /\ \A s : Row(n, A, p, s) => s = children(n, p)
<1>1. Row(n, A, p, children(n, p))
  BY ChildrenListed DEF Row
<1>2. NULL \notin A
  BY HierarchyAssumption DEF Tree, Inside
<1>. QED BY <1>1, <1>2, RowUnique

\* unlink takes a node out of its list: the next sibling links to the previous.
LEMMA RowUnlinked ==
  ASSUME NEW n, NEW A, Tree(n, A, NULL), NEW e \in A, NEW q \in Ends, NEW s, Row(n, A, q, s), NEW u,
         \A d \in A \ {e} :
           /\ u[d].parent = n[d].parent
           /\ u[d].prev_sibling = IF d = n[e].next_sibling THEN n[e].prev_sibling ELSE n[d].prev_sibling
  PROVE  Row(u, A \ {e}, q, RemoveFirst(s, e))
<1> DEFINE next == n[e].next_sibling
           r == RemoveFirst(s, e)
<1>0. /\ NULL \notin A /\ n[e].prev_sibling # e /\ n[e].parent \in Ends
      /\ next # NULL => n[next].prev_sibling = e /\ n[next].parent = n[e].parent
      /\ \A d \in A : n[d].prev_sibling = e => d = next
  <2>1. NULL \notin A /\ A \subseteq Ends
    BY HierarchyAssumption DEF Tree, Inside, Ends
  <2>2. n[e].prev_sibling # e
    BY TreeApart
  <2>. QED BY <2>1, <2>2 DEF Tree, Inside, Listed, Ends
<1>1. PICK c \in Nat : c = Len(s)
  BY DEF Row
<1>2. /\ s \in Seq(A) /\ Distinct(s) /\ \A x \in A : x \in Listing(s) <=> n[x].parent = q
      /\ \A i \in 1 .. c : s[i] \in A /\ n[s[i]].prev_sibling = IF i = 1 THEN NULL ELSE s[i - 1]
  BY <1>1 DEF Row
<1>3. \A i, k \in 1 .. c : s[i] = s[k] => i = k
  BY <1>1, <1>2 DEF Distinct
<1>4. CASE e \notin Listing(s)
  <2>1. r = s
    BY <1>4, RemovedStranger
  <2>. HIDE DEF r
  <2>2. \A i \in 1 .. c : s[i] \in Listing(s) /\ s[i] # e
    BY <1>1, <1>4 DEF Listing
  <2>3. s \in Seq(A \ {e})
    BY <1>1, <1>2, <2>2
  <2>4. \A i \in 1 .. c : s[i] # next
    BY <1>0, <1>2, <1>4, <2>2
  <2>5. \A x \in A \ {e} : x \in Listing(s) <=> u[x].parent = q
    BY <1>2
  <2>6. \A i \in 1 .. c : u[s[i]].prev_sibling = IF i = 1 THEN NULL ELSE s[i - 1]
    BY <1>2, <2>2, <2>4
  <2>. QED BY <1>1, <1>2, <2>1, <2>3, <2>5, <2>6 DEF Row, r
<1>5. CASE e \in Listing(s)
  <2>1. PICK j \in 1 .. c : s[j] = e
    BY <1>1, <1>5 DEF Listing
  <2>2. /\ r \in Seq(A) /\ Len(r) = c - 1
        /\ \A i \in 1 .. c - 1 : r[i] = IF i < j THEN s[i] ELSE s[i + 1]
    BY <1>1, <1>2, <2>1, RemovedMember
  <2>. HIDE DEF r
  <2>3. \A i \in 1 .. c - 1 : r[i] \in A /\ r[i] # e
    BY <1>2, <1>3, <2>1, <2>2
  <2>4. r \in Seq(A \ {e})
    BY <2>2, <2>3
  <2>5. Distinct(r)
    <3>1. ASSUME NEW i \in 1 .. c - 1, NEW k \in 1 .. c - 1, r[i] = r[k] PROVE i = k
      BY <1>3, <2>1, <2>2, <3>1
    <3>. QED BY <2>2, <3>1 DEF Distinct
  <2>6. Listing(r) = Listing(s) \ {e}
    <3>1. ASSUME NEW i \in 1 .. c - 1 PROVE r[i] \in Listing(s) \ {e}
      <4>1. \E k \in 1 .. c : r[i] = s[k]
        BY <2>1, <2>2
      <4>. QED BY <1>1, <2>3, <4>1 DEF Listing
    <3>2. ASSUME NEW k \in 1 .. c, s[k] # e PROVE \E i \in 1 .. c - 1 : r[i] = s[k]
      <4>1. CASE k < j
        BY <2>1, <2>2, <4>1
      <4>2. CASE k > j
        <5>1. k - 1 \in 1 .. c - 1 /\ ~(k - 1 < j) /\ (k - 1) + 1 = k
          BY <2>1, <4>2
        <5>. QED BY <2>2, <5>1
      <4>. QED BY <2>1, <3>2, <4>1, <4>2
    <3>3. Listing(r) = {r[i] : i \in 1 .. c - 1} /\ Listing(s) = {s[k] : k \in 1 .. c}
      BY <1>1, <2>2 DEF Listing
    <3>. QED BY <3>1, <3>2, <3>3
  <2>7. \A x \in A \ {e} : x \in Listing(r) <=> u[x].parent = q
    BY <1>2, <2>6
  <2>8. ASSUME NEW i \in 1 .. c - 1 PROVE u[r[i]].prev_sibling = IF i = 1 THEN NULL ELSE r[i - 1]
    <3>1. CASE i < j
      <4>1. r[i] = s[i] /\ i \in 1 .. c /\ (i # 1 => i - 1 \in 1 .. c /\ r[i - 1] = s[i - 1])
        BY <2>1, <2>2, <3>1
      <4>2. s[i] # next
        <5>1. s[i] = next => n[s[i]].prev_sibling = s[j]
          BY <1>0, <1>2, <2>1, <4>1
        <5>2. i # 1 => s[i - 1] # s[j]
          BY <1>3, <2>1, <3>1, <4>1
        <5>. QED BY <1>0, <1>2, <2>1, <4>1, <5>1, <5>2
      <4>. QED BY <1>2, <2>3, <4>1, <4>2
    <3>2. CASE i = j
      <4>1. r[i] = s[i + 1] /\ i + 1 \in 1 .. c /\ i + 1 # 1 /\ (i + 1) - 1 = j
        BY <2>1, <2>2, <3>2
      <4>2. n[r[i]].prev_sibling = e
        BY <1>2, <2>1, <4>1
      <4>3. r[i] = next
        BY <1>0, <2>3, <4>2
      <4>4. u[r[i]].prev_sibling = n[e].prev_sibling
        BY <2>3, <4>3
      <4>5. n[e].prev_sibling = IF j = 1 THEN NULL ELSE s[j - 1]
        BY <1>2, <2>1
      <4>6. j # 1 => r[i - 1] = s[j - 1]
        BY <2>1, <2>2, <3>2
      <4>. QED BY <3>2, <4>4, <4>5, <4>6
    <3>3. CASE i > j
      <4>1. /\ r[i] = s[i + 1] /\ i + 1 \in 1 .. c /\ i + 1 # 1 /\ (i + 1) - 1 = i /\ i \in 1 .. c /\ i # 1
            /\ i - 1 \in 1 .. c - 1 /\ ~(i - 1 < j) /\ (i - 1) + 1 = i
        BY <2>1, <2>2, <3>3
      <4>2. n[r[i]].prev_sibling = s[i] /\ r[i - 1] = s[i]
        BY <1>2, <2>2, <4>1
      <4>3. s[i] # e
        BY <1>3, <2>1, <3>3, <4>1
      <4>4. r[i] # next
        BY <1>0, <1>2, <2>3, <4>2, <4>3
      <4>. QED BY <2>3, <4>1, <4>2, <4>4
    <3>. QED BY <2>1, <3>1, <3>2, <3>3
  <2>. QED BY <2>2, <2>4, <2>5, <2>7, <2>8 DEF Row, r
<1>. QED BY <1>4, <1>5

\* link_last puts a node behind the last of a list.
LEMMA RowLinked ==
  ASSUME NEW n, NEW A, NEW e \in A, Tree(n, A, e), NEW p \in Ends, NEW q \in Ends,
         NEW s, Row(n, A \ {e}, q, s), NEW m,
         m[e].parent = p, m[e].prev_sibling = n[p].last_child,
         \A d \in A \ {e} : m[d].parent = n[d].parent /\ m[d].prev_sibling = n[d].prev_sibling
  PROVE  Row(m, A, q, IF q = p THEN Append(s, e) ELSE s)
<1>0. /\ NULL \notin A /\ n[p].last_child \in (A \ {e}) \cup {NULL}
      /\ n[p].last_child # NULL => n[n[p].last_child].parent = p /\ n[n[p].last_child].next_sibling = NULL
      /\ \A d \in A \ {e} : n[d].prev_sibling # NULL => n[n[d].prev_sibling].next_sibling = d
      /\ e \in A
  BY HierarchyAssumption DEF Tree, Inside, Headed, Listed, Ends
<1>1. n[p].last_child = NULL => \A x \in A \ {e} : n[x].parent # p
  BY NoChildren
<1>2. PICK c \in Nat : c = Len(s)
  BY DEF Row
<1>3. /\ s \in Seq(A) /\ Distinct(s) /\ \A x \in A \ {e} : x \in Listing(s) <=> n[x].parent = q
      /\ \A i \in 1 .. c : s[i] \in A \ {e} /\ n[s[i]].prev_sibling = IF i = 1 THEN NULL ELSE s[i - 1]
      /\ Listing(s) = {s[i] : i \in 1 .. c}
  BY <1>2 DEF Row, Listing
<1>4. CASE q # p
  <2>1. \A x \in A : x \in Listing(s) <=> m[x].parent = q
    BY <1>3, <1>4
  <2>2. \A i \in 1 .. c : m[s[i]].prev_sibling = IF i = 1 THEN NULL ELSE s[i - 1]
    BY <1>3
  <2>. QED BY <1>2, <1>3, <1>4, <2>1, <2>2 DEF Row
<1>5. CASE q = p
  <2>1. n[p].last_child = IF c = 0 THEN NULL ELSE s[c]
    <3>1. CASE n[p].last_child = NULL
      <4>1. c = 0
        BY <1>1, <1>3, <1>5, <3>1
      <4>. QED BY <3>1, <4>1
    <3>2. CASE n[p].last_child # NULL
      <4>1. PICK k \in 1 .. c : s[k] = n[p].last_child
        BY <1>0, <1>3, <1>5, <3>2
      <4>2. k = c
        <5>. SUFFICES ASSUME k # c PROVE FALSE
          OBVIOUS
        <5>1. k + 1 \in 1 .. c /\ k + 1 # 1 /\ (k + 1) - 1 = k
          OBVIOUS
        <5>2. s[k + 1] \in A \ {e} /\ n[s[k + 1]].prev_sibling = s[k]
          BY <1>3, <5>1
        <5>. QED BY <1>0, <1>3, <3>2, <4>1, <5>2
      <4>. QED BY <4>1, <4>2
    <3>. QED BY <3>1, <3>2
  <2> DEFINE t == Append(s, e)
  <2>2. t \in Seq(A) /\ Len(t) = c + 1 /\ t[c + 1] = e /\ \A i \in 1 .. c : t[i] = s[i]
    BY <1>2, <1>3
  <2>. HIDE DEF t
  <2>3. Distinct(t)
    <3>1. \A i, k \in 1 .. c : s[i] = s[k] => i = k
      BY <1>2, <1>3 DEF Distinct
    <3>2. ASSUME NEW i \in 1 .. c + 1, NEW k \in 1 .. c + 1, t[i] = t[k] PROVE i = k
      <4>1. (i \in 1 .. c \/ i = c + 1) /\ (k \in 1 .. c \/ k = c + 1)
        OBVIOUS
      <4>. QED BY <1>3, <2>2, <3>1, <3>2, <4>1
    <3>. QED BY <2>2, <3>2 DEF Distinct
  <2>4. Listing(t) = Listing(s) \cup {e}
    <3>1. Listing(t) = {t[i] : i \in 1 .. c + 1}
      BY <2>2 DEF Listing
    <3>2. \A i \in 1 .. c + 1 : i \in 1 .. c \/ i = c + 1
      OBVIOUS
    <3>3. c + 1 \in 1 .. c + 1 /\ \A i \in 1 .. c : i \in 1 .. c + 1
      OBVIOUS
    <3>. QED BY <1>3, <2>2, <3>1, <3>2, <3>3
  <2>5. \A x \in A : x \in Listing(t) <=> m[x].parent = q
    BY <1>3, <1>5, <2>4
  <2>6. ASSUME NEW i \in 1 .. c + 1 PROVE m[t[i]].prev_sibling = IF i = 1 THEN NULL ELSE t[i - 1]
    <3>1. CASE i = c + 1
      <4>1. c # 0 => t[c] = s[c]
        BY <2>2
      <4>. QED BY <2>1, <2>2, <3>1, <4>1
    <3>2. CASE i # c + 1
      <4>1. i \in 1 .. c /\ (i # 1 => i - 1 \in 1 .. c)
        BY <3>2
      <4>. QED BY <1>3, <2>2, <4>1
    <3>. QED BY <3>1, <3>2
  <2>. QED BY <1>5, <2>2, <2>3, <2>5, <2>6 DEF Row, t
<1>. QED BY <1>4, <1>5

-----------------------------------------------------------------------------
\* The lists of all parents: what the hierarchy shows of itself.
Offspring(n) == [p \in Ends |-> children(n, p)]

\* The forest's own copies of the library operators.
LEMMA SameRemoval ==
  ASSUME NEW s, NEW e
  PROVE  Shape!RemoveFirst(s, e) = RemoveFirst(s, e) /\ Shape!Range(s) = Range(s)
BY DEF Shape!RemoveFirst, RemoveFirst, Shape!RemoveAt, RemoveAt, Shape!SelectInSeq, SelectInSeq,
       Shape!Min, Min, Shape!Range, Range

\* What a list holds.
LEMMA OffspringRange ==
  ASSUME NEW n, NEW A, Tree(n, A, NULL), NEW p \in Ends
  PROVE  Range(Offspring(n)[p]) = {x \in A : n[x].parent = p}
<1>1. Offspring(n)[p] = children(n, p)
  BY DEF Offspring
<1>2. /\ children(n, p) \in Seq(A)
      /\ \A x \in A : x \in Listing(children(n, p)) <=> n[x].parent = p
  BY ChildrenListed
<1>3. Range(children(n, p)) = Listing(children(n, p))
  BY <1>2, RangeOf DEF Listing
<1>4. Listing(children(n, p)) \subseteq A
  BY <1>2 DEF Listing
<1>. QED BY <1>1, <1>2, <1>3, <1>4

\* All lists together hold the adopted.
LEMMA OffspringMembers ==
  ASSUME NEW n, NEW A, Tree(n, A, NULL)
  PROVE  UNION {Range(Offspring(n)[p]) : p \in Ends} = A
<1>1. \A p \in Ends : Range(Offspring(n)[p]) = {x \in A : n[x].parent = p}
  BY OffspringRange
<1>2. \A x \in A : n[x].parent \in Ends
  BY DEF Tree, Inside, Ends
<1>. QED BY <1>1, <1>2

\* No link moved, no list did.
LEMMA OffspringSame ==
  ASSUME NEW n, NEW m, NEW A, Tree(n, A, NULL), \A d \in Ends : SameLinks(n, m, d)
  PROVE  Offspring(m) = Offspring(n)
BY SameChildren DEF Offspring

\* Below a node stand its descendants.
LEMMA UnderIs ==
  ASSUME NEW n, NEW A, Tree(n, A, NULL), NEW e \in A, NEW p \in A \cup {NULL}
  PROVE  p \in Shape!Under(Offspring(n), e) <=> p # NULL /\ subtree_contains(n, e, p)
<1> DEFINE ch == Offspring(n)
           U == {d \in Entity : \A S \in SUBSET Entity :
                   e \in S /\ (\A s \in S : Range(ch[s]) \subseteq S) => d \in S}
<1>0. NULL \notin Entity /\ A \subseteq Entity /\ A \subseteq Ends /\ Entity \subseteq Ends
      /\ \A x \in A : n[x].parent \in A \cup {NULL}
  BY HierarchyAssumption DEF Tree, Inside, Ends
<1>1. Shape!Under(ch, e) = U
  BY SameRemoval DEF Shape!Under
<1>2. \A s \in Entity : Range(ch[s]) = {x \in A : n[x].parent = s}
  BY <1>0, OffspringRange
<1>3. ASSUME NEW x \in A PROVE x \in AncestorsOrSelf(n, x)
  BY Path
<1>. HIDE DEF ch
<1>4. ASSUME p \in U PROVE p # NULL /\ subtree_contains(n, e, p)
  <2> DEFINE S == {x \in A : e \in AncestorsOrSelf(n, x)}
  <2>1. S \in SUBSET Entity /\ e \in S
    BY <1>0, <1>3
  <2>2. ASSUME NEW s \in S PROVE Range(ch[s]) \subseteq S
    <3>. SUFFICES ASSUME NEW x \in A, n[x].parent = s PROVE x \in S
      BY <1>0, <1>2
    <3>1. s \in A /\ s # NULL /\ e \in AncestorsOrSelf(n, s)
      BY <1>0
    <3>2. AncestorsOrSelf(n, x) = {x} \cup AncestorsOrSelf(n, s)
      BY <3>1, PathUp
    <3>. QED BY <3>1, <3>2
  <2>. HIDE DEF S
  <2>3. p \in S
    BY <1>4, <2>1, <2>2
  <2>. QED BY <1>0, <1>4, <2>3 DEF S, subtree_contains
<1>5. ASSUME p # NULL, e \in AncestorsOrSelf(n, p) PROVE p \in U
  <2>. SUFFICES ASSUME NEW V \in SUBSET Entity, e \in V, \A s \in V : Range(ch[s]) \subseteq V
                PROVE  p \in V
    BY <1>0, <1>5
  <2> DEFINE S == {x \in A : e \in AncestorsOrSelf(n, x) /\ x \notin V}
  <2>1. ASSUME NEW x \in S PROVE n[x].parent \in S
    <3>1. x \in A /\ x # e /\ x \notin V /\ e \in AncestorsOrSelf(n, x)
      OBVIOUS
    <3>2. n[x].parent # NULL /\ e \in AncestorsOrSelf(n, n[x].parent) /\ n[x].parent \in A
      BY <3>1, PathUp
    <3>3. n[x].parent \notin V
      BY <1>0, <1>2, <3>1, <3>2
    <3>. QED BY <3>2, <3>3
  <2>2. S \in SUBSET A
    OBVIOUS
  <2>3. S = {}
    <3>. HIDE DEF S
    <3>. QED BY <2>1, <2>2 DEF Tree, UpEnds
  <2>. QED BY <1>5, <2>3
<1>. HIDE DEF U
<1>. QED BY <1>1, <1>4, <1>5 DEF ch, subtree_contains

\* adopt appends to the roots.
LEMMA AdoptedLists ==
  ASSUME NEW n, NEW A, Tree(n, A, NULL), NEW e \in Entity \ A
  PROVE  Offspring(adopt_node(n, e)) = [Offspring(n) EXCEPT ![NULL] = Append(@, e)]
<1> DEFINE m == adopt_node(n, e)
           B == A \cup {e}
<1>0. NULL \in Ends /\ A \subseteq Ends /\ e \in Ends
  BY DEF Tree, Inside, Ends
<1>1. Tree(n, B, e) /\ B \ {e} = A /\ e \in B
  BY EnterTree
<1>2. /\ Tree(m, B, NULL) /\ \A d \in Ends : m[d].parent = n[d].parent
      /\ \A d \in Ends : m[d].prev_sibling = IF d = e THEN n[NULL].last_child ELSE n[d].prev_sibling
  BY AdoptTree DEF Adopted
<1>3. n[e].parent = NULL
  BY <1>1 DEF Tree, Afloat
<1>. HIDE DEF m, B
<1>4. /\ m[e].parent = NULL /\ m[e].prev_sibling = n[NULL].last_child
      /\ \A d \in B \ {e} : m[d].parent = n[d].parent /\ m[d].prev_sibling = n[d].prev_sibling
  BY <1>0, <1>1, <1>2, <1>3
<1>5. ASSUME NEW q \in Ends
      PROVE  children(m, q) = IF q = NULL THEN Append(children(n, q), e) ELSE children(n, q)
  <2> DEFINE s == children(n, q)
  <2>1. Row(n, B \ {e}, q, s)
    BY <1>1, ChildrenRow
  <2>. HIDE DEF s
  <2>2. Row(m, B, q, IF q = NULL THEN Append(s, e) ELSE s)
    BY <1>0, <1>1, <1>4, <2>1, RowLinked
  <2>. QED BY <1>2, <2>2, ChildrenRow DEF s
<1>. QED BY <1>0, <1>5 DEF Offspring, m

\* A move takes the node out of its list and appends it to the new one.
LEMMA MovedLists ==
  ASSUME NEW n, NEW A, Tree(n, A, NULL), NEW e \in A, NEW p \in A \cup {NULL},
         p # NULL => ~subtree_contains(n, e, p)
  PROVE  Offspring(link_last(unlink(n, e), e, p)) = Shape!MoveLast(Offspring(n), e, p)
<1> DEFINE u == unlink(n, e)
           m == link_last(u, e, p)
<1>0. NULL \in Ends /\ A \subseteq Ends /\ e \in Ends /\ p \in Ends /\ NULL \notin A
  BY HierarchyAssumption DEF Tree, Inside, Ends
<1>1. Unlinked(n, u, e) /\ Tree(u, A, e)
  BY UnlinkTree
<1>2. Tree(m, A, NULL) /\ LinkedLast(u, m, e, p)
  BY MoveTree
<1>. HIDE DEF u, m
<1>3. \A d \in A \ {e} :
        /\ u[d].parent = n[d].parent
        /\ u[d].prev_sibling = IF d = n[e].next_sibling THEN n[e].prev_sibling ELSE n[d].prev_sibling
  BY <1>0, <1>1 DEF Unlinked
<1>4. /\ m[e].parent = p /\ m[e].prev_sibling = u[p].last_child
      /\ \A d \in A \ {e} : m[d].parent = u[d].parent /\ m[d].prev_sibling = u[d].prev_sibling
  BY <1>0, <1>2 DEF LinkedLast
<1>5. ASSUME NEW q \in Ends
      PROVE  children(m, q) = IF q = p THEN Append(RemoveFirst(children(n, q), e), e)
                                       ELSE RemoveFirst(children(n, q), e)
  <2>1. Row(n, A, q, children(n, q))
    BY ChildrenRow
  <2>2. Row(u, A \ {e}, q, RemoveFirst(children(n, q), e))
    BY <1>3, <2>1, RowUnlinked
  <2> DEFINE r == RemoveFirst(children(n, q), e)
  <2>. HIDE DEF r
  <2>3. Row(u, A \ {e}, q, r)
    BY <2>2 DEF r
  <2>4. Row(m, A, q, IF q = p THEN Append(r, e) ELSE r)
    BY <1>0, <1>1, <1>4, <2>3, RowLinked
  <2>. QED BY <1>2, <2>4, ChildrenRow DEF r
<1>6. Shape!MoveLast(Offspring(n), e, p) =
        [q \in Ends |-> IF q = p THEN Append(RemoveFirst(children(n, q), e), e)
                                 ELSE RemoveFirst(children(n, q), e)]
  BY SameRemoval DEF Shape!MoveLast, Offspring
<1>7. Offspring(m) = [q \in Ends |-> children(m, q)]
  BY DEF Offspring
<1>. QED BY <1>5, <1>6, <1>7 DEF m, u

\* finish_despawn takes a leaf out of its list.
LEMMA FinishedLists ==
  ASSUME NEW n, NEW A, Good(n, A), NEW e \in A, n[e].first_child = NULL
  PROVE  LET m == [unlink(n, e) EXCEPT ![e] = BlankNode]
         IN  /\ children(n, e) = <<>>
             /\ Offspring(m) = [q \in Ends |-> RemoveFirst(children(n, q), e)]
<1> DEFINE u == unlink(n, e)
           m == [u EXCEPT ![e] = BlankNode]
<1>0. Tree(n, A, NULL) /\ NULL \in Ends /\ A \subseteq Ends /\ e \in Ends /\ NULL \notin A
  BY HierarchyAssumption DEF Good, Tree, Inside, Ends
<1>1. Unlinked(n, u, e) /\ Tree(u, A, e)
  BY <1>0, UnlinkTree
<1>2. Tree(m, A \ {e}, NULL) /\ \A x \in A : n[x].parent # e
  BY FinishTree DEF Good
<1>7. \A d \in Ends \ {e} : m[d] = u[d]
  <2>1. u \in Nodes
    BY <1>1 DEF Tree
  <2>. HIDE DEF u
  <2>. QED BY <2>1 DEF Nodes
<1>. HIDE DEF u, m
<1>3. \A d \in A \ {e} :
        /\ m[d].parent = n[d].parent
        /\ m[d].prev_sibling = IF d = n[e].next_sibling THEN n[e].prev_sibling ELSE n[d].prev_sibling
  BY <1>0, <1>1, <1>7 DEF Unlinked
<1>4. ASSUME NEW q \in Ends PROVE children(m, q) = RemoveFirst(children(n, q), e)
  <2>1. Row(n, A, q, children(n, q))
    BY <1>0, ChildrenRow
  <2>2. Row(m, A \ {e}, q, RemoveFirst(children(n, q), e))
    BY <1>0, <1>3, <2>1, RowUnlinked
  <2>. QED BY <1>2, <2>2, ChildrenRow
<1>5. children(n, e) = <<>>
  <2>0. /\ children(n, e) \in Seq(A)
        /\ \A x \in A : x \in Listing(children(n, e)) <=> n[x].parent = e
    BY <1>0, ChildrenListed
  <2>1. children(n, e) \in Seq(A) /\ \A x \in A : x \notin Listing(children(n, e))
    BY <1>2, <2>0
  <2>2. Len(children(n, e)) = 0
    <3>. SUFFICES ASSUME Len(children(n, e)) # 0 PROVE FALSE
      OBVIOUS
    <3>1. 1 \in 1 .. Len(children(n, e)) /\ children(n, e)[1] \in A
      BY <2>1
    <3>. QED BY <2>1, <3>1 DEF Listing
  <2>. QED BY <2>1, <2>2
<1>6. Offspring(m) = [q \in Ends |-> children(m, q)]
  BY DEF Offspring
<1>. QED BY <1>4, <1>5, <1>6 DEF m, u

\* A stranger enters as the last root, anyone else stays where it is.
LEMMA EnteredLists ==
  ASSUME NEW n, NEW A, Good(n, A), NEW e \in Entity
  PROVE  LET m == IF e \notin A THEN adopt_node(n, e) ELSE n
         IN  Good(m, A \cup {e}) /\ Offspring(m) = Shape!Enter(Offspring(n), e)
<1> DEFINE ch == Offspring(n)
<1>0. Tree(n, A, NULL) /\ DOMAIN ch = Ends
  BY DEF Good, Offspring
<1>1. UNION {Range(ch[p]) : p \in DOMAIN ch} = A
  BY <1>0, OffspringMembers
<1>2. Shape!Enter(ch, e) = IF e \in A THEN ch ELSE [ch EXCEPT ![NULL] = Append(@, e)]
  <2>1. UNION {Shape!Range(ch[p]) : p \in DOMAIN ch} = UNION {Range(ch[p]) : p \in DOMAIN ch}
    BY SameRemoval
  <2>. HIDE DEF ch
  <2>. QED BY <1>1, <2>1 DEF Shape!Enter
<1>. HIDE DEF ch
<1>3. CASE e \in A
  <2>1. A \cup {e} = A
    BY <1>3
  <2>. QED BY <1>2, <1>3, <2>1 DEF ch
<1>4. CASE e \notin A
  <2>1. Offspring(adopt_node(n, e)) = [ch EXCEPT ![NULL] = Append(@, e)]
    BY <1>0, <1>4, AdoptedLists DEF ch
  <2>2. Good(adopt_node(n, e), A \cup {e})
    BY <1>4, GoodAdopted
  <2>. QED BY <1>2, <1>4, <2>1, <2>2 DEF ch
<1>. QED BY <1>3, <1>4

\* apply_reparent attaches: strangers enter, a cycle stops there, a move ends
\* as the last child of the new parent.
LEMMA ReparentShape ==
  ASSUME HierarchyIInv, NEW child \in Entity, NEW p \in Entity \cup {NULL}, apply_reparent(child, p)
  PROVE  LET first == Shape!Enter(Offspring(node), child)
             entered == IF p = NULL THEN first ELSE Shape!Enter(first, p)
         IN  Offspring(node') = IF p \in Shape!Under(entered, child) THEN entered
                                ELSE Shape!MoveLast(entered, child, p)
<1> DEFINE strangers == {child, p} \ (adopted \cup {NULL})
           B == adopted \cup {child}
           C == adopted \cup {child} \cup ({p} \ {NULL})
           entered == IF child \notin adopted THEN adopt_node(node, child) ELSE node
           n == IF p \notin B \cup {NULL} THEN adopt_node(entered, p) ELSE entered
           cycle == p # NULL /\ subtree_contains(n, child, p)
           first == Shape!Enter(Offspring(node), child)
           last == IF p = NULL THEN first ELSE Shape!Enter(first, p)
<1>1. IF cycle THEN node' = n ELSE reparent_to(n, child, p)
  <2>1. child # NULL
    BY Members
  <2>2. entered = IF child \in strangers THEN adopt_node(node, child) ELSE node
    BY <2>1
  <2>3. n = IF p \in strangers \ {child} THEN adopt_node(entered, p) ELSE entered
    OBVIOUS
  <2>. HIDE DEF entered, n
  <2>. QED BY <2>2, <2>3 DEF apply_reparent
<1>2. /\ NULL \notin Entity /\ child \in Ends /\ p \in Ends /\ adopted \subseteq Entity
      /\ Good(node, adopted) /\ row \in [Entity -> [Component -> RowState]]
  BY Members DEF Ends, HierarchyIInv, RowsRight
<1>3. Good(entered, B) /\ Offspring(entered) = first
  BY <1>2, EnteredLists
<1>. HIDE DEF entered, first
<1>4. Good(n, C) /\ Offspring(n) = last
  <2>1. CASE p = NULL
    <3>1. C = B /\ n = entered /\ last = first
      BY <1>2, <2>1
    <3>. QED BY <1>3, <3>1
  <2>2. CASE p # NULL
    <3>1. C = B \cup {p} /\ p \in Entity /\ last = Shape!Enter(first, p)
          /\ n = IF p \notin B THEN adopt_node(entered, p) ELSE entered
      BY <2>2
    <3>. HIDE DEF B, C, n, last
    <3>2. Good(n, B \cup {p}) /\ Offspring(n) = Shape!Enter(Offspring(entered), p)
      BY <1>3, <3>1, EnteredLists
    <3>. QED BY <1>3, <3>1, <3>2
  <2>. QED BY <2>1, <2>2
<1>. HIDE DEF n, last
<1>5. child \in C /\ p \in C \cup {NULL} /\ Tree(n, C, NULL)
  BY <1>2, <1>4 DEF Good
<1>. HIDE DEF C
<1>6. p \in Shape!Under(last, child) <=> cycle
  <2>1. p \in Shape!Under(Offspring(n), child) <=> p # NULL /\ subtree_contains(n, child, p)
    BY <1>5, UnderIs
  <2>. QED BY <1>4, <2>1
<1>7. CASE cycle
  <2>1. node' = n
    BY <1>1, <1>7
  <2>2. Offspring(node') = last
    BY <1>4, <2>1
  <2>. QED BY <1>6, <1>7, <2>2 DEF last, first
<1>8. CASE ~cycle
  <2> DEFINE delta == n[p].dormant_depth - n[n[child].parent].dormant_depth
             m == link_last(unlink(n, child), child, p)
             S == IF delta = 0 THEN {} ELSE collect_subtree(m, child)
             k == covered(m, S, delta)
  <2>1. node' = mark_transform_dirty(k, child)
    BY <1>1, <1>8 DEF reparent_to
  <2>2. Good(k, C) /\ Covered(m, k, S, delta)
    BY <1>2, <1>4, <1>5, <1>8, GoodMoved
  <2>3. Offspring(m) = Shape!MoveLast(Offspring(n), child, p)
    BY <1>5, <1>8, MovedLists
  <2>4. Tree(m, C, NULL)
    BY <1>5, <1>8, MoveTree
  <2>. HIDE DEF m, S, delta, k, cycle
  <2>5. \A d \in Ends : SameLinks(m, k, d)
    BY <2>2 DEF Covered
  <2>6. Tree(k, C, NULL) /\ \A d \in Ends : SameLinks(k, node', d)
    <3>1. Marked(k, node', child) /\ Tree(k, C, NULL)
      BY <1>5, <2>1, <2>2, GoodMarked DEF Good
    <3>. QED BY <3>1 DEF Marked
  <2>7. Offspring(k) = Offspring(m)
    BY <2>4, <2>5, OffspringSame
  <2>8. Offspring(node') = Offspring(k)
    BY <2>6, OffspringSame
  <2>9. Offspring(node') = Shape!MoveLast(last, child, p)
    BY <1>4, <2>3, <2>7, <2>8
  <2>. QED BY <1>6, <1>8, <2>9 DEF last, first
<1>. QED BY <1>7, <1>8

\* adopt enters a new last root.
LEMMA AdoptShape ==
  ASSUME HierarchyIInv, NEW e \in Entity, adopt(e)
  PROVE  e \notin UNION {Range(Offspring(node)[p]) : p \in Ends}
         /\ Offspring(node') = Shape!Enter(Offspring(node), e)
<1>1. e \notin adopted /\ node' = adopt_node(node, e)
  BY DEF adopt
<1>2. Good(node, adopted) /\ Tree(node, adopted, NULL)
  BY DEF HierarchyIInv, Good
<1>3. UNION {Range(Offspring(node)[p]) : p \in Ends} = adopted
  BY <1>2, OffspringMembers
<1>4. Offspring(adopt_node(node, e)) = Shape!Enter(Offspring(node), e)
  BY <1>1, <1>2, EnteredLists
<1>. QED BY <1>1, <1>3, <1>4

\* finish_despawn removes a leaf, or nothing when the victim was no node.
LEMMA FinishShape ==
  ASSUME HierarchyIInv, finish_despawn
  PROVE  \/ Offspring(node') = Offspring(node)
         \/ \E e \in Entity : /\ Offspring(node)[e] = <<>>
                              /\ Offspring(node') = [q \in Ends |-> RemoveFirst(Offspring(node)[q], e)]
<1>1. CASE Victim \notin adopted
  <2>1. node' = node
    BY <1>1 DEF finish_despawn
  <2>. QED BY <2>1
<1>2. CASE Victim \in adopted
  <2>1. PICK e \in adopted : e = Victim
    BY <1>2
  <2>2. node' = [unlink(node, e) EXCEPT ![e] = BlankNode] /\ node[e].first_child = NULL
    BY <1>2, <2>1 DEF finish_despawn, HasChild
  <2>3. Good(node, adopted) /\ e \in Entity /\ e \in Ends
    BY <2>1, Members DEF HierarchyIInv
  <2>4. /\ children(node, e) = <<>>
        /\ Offspring(node') = [q \in Ends |-> RemoveFirst(children(node, q), e)]
    <3>1. Good(node, adopted) /\ e \in adopted /\ node[e].first_child = NULL
      BY <2>2, <2>3
    <3>2. /\ children(node, e) = <<>>
          /\ Offspring([unlink(node, e) EXCEPT ![e] = BlankNode]) = [q \in Ends |-> RemoveFirst(children(node, q), e)]
      BY ONLY <3>1, FinishedLists
    <3>. QED BY ONLY <2>2, <3>2
  <2>5. Offspring(node)[e] = <<>> /\ \A q \in Ends : Offspring(node)[q] = children(node, q)
    BY <2>3, <2>4 DEF Offspring
  <2>6. Offspring(node') = [q \in Ends |-> RemoveFirst(Offspring(node)[q], e)]
    BY <2>4, <2>5
  <2>. QED BY <2>3, <2>5, <2>6
<1>. QED BY <1>1, <1>2

\* Every step is a step of the forest or leaves all lists alone.
LEMMA ShapeStep ==
  ASSUME HierarchyIInv, [HierarchyNext]_hierarchyVars
  PROVE  \/ Offspring(node') = Offspring(node)
         \/ \E e \in Entity : /\ e \notin UNION {Range(Offspring(node)[p]) : p \in Ends}
                              /\ Offspring(node') = Shape!Enter(Offspring(node), e)
         \/ \E e \in Entity : /\ Offspring(node)[e] = <<>>
                              /\ Offspring(node') = [q \in Ends |-> RemoveFirst(Offspring(node)[q], e)]
         \/ \E e \in Entity, p \in Entity \cup {NULL} :
              LET first == Shape!Enter(Offspring(node), e)
                  entered == IF p = NULL THEN first ELSE Shape!Enter(first, p)
              IN  Offspring(node') = IF p \in Shape!Under(entered, e) THEN entered
                                     ELSE Shape!MoveLast(entered, e, p)
<1> DEFINE Stays == Offspring(node') = Offspring(node)
           Adopts == \E e \in Entity :
                       /\ e \notin UNION {Range(Offspring(node)[p]) : p \in Ends}
                       /\ Offspring(node') = Shape!Enter(Offspring(node), e)
           Removes == \E e \in Entity :
                        /\ Offspring(node)[e] = <<>>
                        /\ Offspring(node') = [q \in Ends |-> RemoveFirst(Offspring(node)[q], e)]
           Attaches == \E e \in Entity, p \in Entity \cup {NULL} :
                         LET first == Shape!Enter(Offspring(node), e)
                             entered == IF p = NULL THEN first ELSE Shape!Enter(first, p)
                         IN  Offspring(node') = IF p \in Shape!Under(entered, e) THEN entered
                                                ELSE Shape!MoveLast(entered, e, p)
<1>0. /\ adopted \subseteq Ends /\ adopted \subseteq Entity /\ NULL \notin Entity /\ node \in Nodes
      /\ Good(node, adopted) /\ Tree(node, adopted, NULL)
  BY Members DEF HierarchyIInv
<1>1. ASSUME node' = node PROVE Stays
  BY <1>1
<1>2. ASSUME \A d \in Ends : SameLinks(node, node', d) PROVE Stays
  BY <1>0, <1>2, OffspringSame
<1>3. ASSUME NEW e \in Entity, adopt(e) PROVE Adopts
  BY <1>3, AdoptShape
<1>4. ASSUME NEW child \in Entity, NEW p \in Entity \cup {NULL}, apply_reparent(child, p) PROVE Attaches
  BY <1>4, ReparentShape
<1>5. ASSUME finish_despawn PROVE Stays \/ Removes
  BY <1>5, FinishShape
<1>. SUFFICES Stays \/ Adopts \/ Removes \/ Attaches
  OBVIOUS
<1>. HIDE DEF Stays, Adopts, Removes, Attaches
<1>6. CASE UNCHANGED hierarchyVars
  BY <1>1, <1>6 DEF hierarchyVars, treeVars
<1>7. CASE HierarchyNext
  <2>1. ASSUME NEW e \in Entity, spawn(e) \/ despawn(e) PROVE Stays
    BY <1>1, <2>1 DEF spawn, despawn, treeVars
  <2>2. ASSUME NEW e \in Entity, activate(e) \/ deactivate(e) PROVE Stays
    <3>1. PICK delta \in {1, -1} : scope(e, delta) /\ e \in adopted
      BY <2>2 DEF activate, deactivate
    <3> DEFINE f == [node EXCEPT ![e].deactivated = delta > 0]
               S == collect_subtree(f, e)
    <3>2. node' = covered(f, S, delta)
      BY <3>1 DEF scope
    <3>3. Flagged(node, f, e, delta > 0)
      <4>1. (delta > 0) \in BOOLEAN
        OBVIOUS
      <4>. QED BY <4>1, <1>0, FlagFields
    <3>. HIDE DEF f
    <3>4. f \in Nodes /\ \A d \in Ends : SameLinks(node, f, d)
      BY <3>3 DEF Flagged
    <3>5. Tree(f, adopted, NULL)
      BY <1>0, <3>4, SameTree
    <3>6. S \in SUBSET Entity /\ delta \in Int /\ row \in [Entity -> [Component -> RowState]]
      BY <1>0, <3>1, <3>5, Subtree DEF HierarchyIInv, RowsRight
    <3>. HIDE DEF S
    <3>7. Covered(f, node', S, delta)
      BY <3>2, <3>4, <3>6, CoveredFields
    <3>8. \A d \in Ends : SameLinks(f, node', d)
      BY <3>7 DEF Covered
    <3>9. \A d \in Ends : SameLinks(node, node', d)
      BY <3>4, <3>8 DEF SameLinks
    <3>. QED BY <3>9, <1>2
  <2>3. ASSUME NEW e \in Entity, NEW c \in Component, NEW bit \in {"off", "on"},
               emplace(e, c, bit) \/ set_active(e, c, bit)
        PROVE  Stays
    BY <1>1, <2>3 DEF emplace, set_active, treeVars
  <2>4. ASSUME NEW e \in Entity, NEW l \in Local, set_local(e, l) PROVE Stays
    <3>1. e \in adopted /\ node' = mark_transform_dirty(node, e)
      BY <2>4 DEF set_local
    <3>2. Marked(node, node', e)
      BY <1>0, <3>1, GoodMarked
    <3>. QED BY <3>2, <1>2 DEF Marked
  <2>5. CASE propagate
    <3> DEFINE done == Propagated
    <3>1. node' = Clean(node, done.fresh, done.open)
      BY <2>5 DEF propagate, Clean
    <3>. HIDE DEF done
    <3>2. Cleaned(node, node', done.fresh, done.open)
      BY <1>0, <3>1, CleanFields
    <3>. QED BY <3>2, <1>2 DEF Cleaned
  <2>6. CASE rebuild_order
    BY <1>1, <2>6 DEF rebuild_order, treeVars
  <2>7. CASE cascade
    BY <1>1, <2>7 DEF cascade, treeVars
  <2>. QED BY <1>3, <1>4, <1>5, <1>7, <2>1, <2>2, <2>3, <2>4, <2>5, <2>6, <2>7 DEF HierarchyNext, Cascading
<1>. QED BY <1>6, <1>7

\* Nobody has a child at the start.
LEMMA ShapeStart ==
  ASSUME HierarchyInit
  PROVE  Offspring(node) = [p \in Ends |-> <<>>]
<1>1. Tree(node, {}, NULL) /\ node = [e \in Entity \cup {NULL} |-> BlankNode]
  BY GoodInit DEF HierarchyInit, Good
<1>2. ASSUME NEW p \in Ends PROVE children(node, p) = <<>>
  <2>1. children(node, p) \in Seq({})
    BY <1>1, ChildrenListed
  <2>2. Len(children(node, p)) = 0
    <3>. SUFFICES ASSUME Len(children(node, p)) # 0 PROVE FALSE
      OBVIOUS
    <3>1. children(node, p)[1] \in {}
      BY <2>1
    <3>. QED BY <3>1
  <2>. QED BY <2>1, <2>2
<1>. QED BY <1>2 DEF Offspring

\* What the lists of children show is the ordered forest of the contract: new
\* roots and moved nodes go last, a cycle is a no-op, only leaves leave
\* (adopt, apply_reparent, on_despawn).
THEOREM ForestRefined == HierarchySpec => ForestKept
<1> DEFINE ch == [p \in Entity \cup {NULL} |-> children(node, p)]
<1>1. HierarchyInit => Shape!Init
  BY ShapeStart DEF Shape!Init, Offspring, Ends
<1>2. HierarchyIInv /\ [HierarchyNext]_hierarchyVars => [Shape!Next]_ch
  <2>. SUFFICES ASSUME HierarchyIInv, [HierarchyNext]_hierarchyVars
                PROVE  Shape!Next \/ ch' = ch
    OBVIOUS
  <2>1. ch = Offspring(node) /\ ch' = Offspring(node') /\ DOMAIN ch = Ends /\ Ends = Entity \cup {NULL}
    BY DEF Offspring, Ends
  <2>2. ASSUME NEW e \in Entity, e \notin UNION {Range(Offspring(node)[p]) : p \in Ends},
               Offspring(node') = Shape!Enter(Offspring(node), e)
        PROVE  Shape!Adopt(e)
    <3>1. e \notin UNION {Shape!Range(ch[p]) : p \in Entity \cup {NULL}}
      BY <2>1, <2>2, SameRemoval
    <3>. QED BY <2>1, <2>2, <3>1 DEF Shape!Adopt, Shape!Members
  <2>3. ASSUME NEW e \in Entity, Offspring(node)[e] = <<>>,
               Offspring(node') = [q \in Ends |-> RemoveFirst(Offspring(node)[q], e)]
        PROVE  Shape!RemoveLeaf(e)
    <3>1. Offspring(node') = [q \in DOMAIN ch |-> Shape!RemoveFirst(ch[q], e)]
      BY <2>1, <2>3, SameRemoval
    <3>. QED BY <2>1, <2>3, <3>1 DEF Shape!RemoveLeaf
  <2>4. ASSUME NEW e \in Entity, NEW p \in Entity \cup {NULL},
               LET first == Shape!Enter(Offspring(node), e)
                   entered == IF p = NULL THEN first ELSE Shape!Enter(first, p)
               IN  Offspring(node') = IF p \in Shape!Under(entered, e) THEN entered
                                      ELSE Shape!MoveLast(entered, e, p)
        PROVE  Shape!Attach(e, p)
    BY <2>1, <2>4 DEF Shape!Attach
  <2>. QED BY <2>1, <2>2, <2>3, <2>4, ShapeStep DEF Shape!Next
<1>. QED BY <1>1, <1>2, HierarchyInvariant, PTL DEF HierarchySpec, ForestKept, Shape!Spec
=============================================================================
