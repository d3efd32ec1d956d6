-------------------------------- MODULE Views --------------------------------
(***************************************************************************)
(* View::each (core/ecs/view.h): iteration over several component pools,   *)
(* driven by the smallest one, whose activity bits are read a word at a    *)
(* time.  The visit callback is the environment: between two visits it may *)
(* toggle any row, or run another view.                                    *)
(***************************************************************************)
EXTENDS SparseSet, FiniteSetsExt

CONSTANTS
  Component,   \* component types, one pool each
  WordSize,    \* rows per word of activity bits (64)
  MaxRunning   \* bound on nested views

ASSUME ViewAssumption == WordSize \in Nat \ {0} /\ MaxRunning \in Nat

VARIABLES
  pools,       \* the pool of every component
  running      \* the views being iterated, innermost last

viewVars == <<pools, running>>

\* A query names its components in order and says whether inactive rows count.
Query ==
  {<<c>> : c \in Component} \cup {q \in Component \X Component : q[1] # q[2]}

ViewInit ==
  /\ pools = [c \in Component |-> EmptySet]
  /\ running = <<>>

\* driver_index: the first smallest of the queried pools.
driver_index(query) ==
  CHOOSE i \in DOMAIN query :
    /\ \A j \in DOMAIN query : Len(pools[query[i]].dense) <= Len(pools[query[j]].dense)
    /\ \A j \in 1 .. i - 1 : Len(pools[query[j]].dense) > Len(pools[query[i]].dense)

\* Membership and activity test of one pool.
joins(pool, e, inactive) ==
  contains(pool, e) /\ (inactive \/ pool.bits[pool.sparse[e]])

Joining(pool, inactive) == {e \in Entity : joins(pool, e, inactive)}
Matches(query, inactive, at) ==
  {e \in Entity : \A i \in DOMAIN query : joins(at[query[i]], e, inactive)}

Scan == running[Len(running)]
Driver == pools[Scan.query[Scan.driver]]

\* What the running views could have seen so far, after the bits changed.
Settle(frames) ==
  [k \in DOMAIN frames |->
     [frames[k] EXCEPT
        !.steady = @ \cap Matches(frames[k].query, frames[k].inactive, pools'),
        !.seen = [i \in DOMAIN @ |-> @[i] \cup Joining(pools'[frames[k].query[i]], frames[k].inactive)]]]

-----------------------------------------------------------------------------
\* Structural changes are refused while a view runs.
view_emplace(c, e, v, bit) ==
  /\ running = <<>> /\ ~contains(pools[c], e)
  /\ pools' = [pools EXCEPT ![c] = insert(@, e, v, bit)]
  /\ UNCHANGED running

view_erase(c, e) ==
  /\ running = <<>> /\ contains(pools[c], e)
  /\ pools' = [pools EXCEPT ![c] = remove(@, e)]
  /\ UNCHANGED running

\* Toggles are not, from inside a callback or outside any view.
view_set_active(c, e, bit) ==
  /\ contains(pools[c], e)
  /\ pools' = [pools EXCEPT ![c] = set_row_active(pools[c], pools[c].sparse[e], bit)]
  /\ running' = Settle(running)

\* each(): enter the iteration scope and pick the driver.  The last
\* three fields are for the properties: the entities that matched ever since
\* the scan began, those that joined in each pool at some time since, and the
\* callbacks made.
begin_each(query, inactive) ==
  /\ Len(running) < MaxRunning
  /\ running' = Append(running,
       [query |-> query, inactive |-> inactive, driver |-> driver_index(query),
        base |-> 0, word |-> {},
        steady |-> Matches(query, inactive, pools),
        seen |-> [i \in DOMAIN query |-> Joining(pools[query[i]], inactive)],
        visited |-> <<>>])
  /\ UNCHANGED pools

\* Mutant: the rows of a last word that is not full are not scanned.
load_full_word ==
  /\ running # <<>> /\ Scan.word = {} /\ Scan.base < Len(Driver.dense)
  /\ LET rows == IF Scan.base + WordSize <= Len(Driver.dense)
                   THEN Scan.base + 1 .. Scan.base + WordSize ELSE {} IN
     running' = [running EXCEPT ![Len(running)] =
       [Scan EXCEPT !.word = {p \in rows : Scan.inactive \/ Driver.bits[p]},
                    !.base = @ + WordSize]]
  /\ UNCHANGED pools

\* scan_active_rows: load the next word, the bits beyond the last row masked.
load_word ==
  /\ running # <<>> /\ Scan.word = {} /\ Scan.base < Len(Driver.dense)
  /\ LET rows == Scan.base + 1 .. Min({Scan.base + WordSize, Len(Driver.dense)}) IN
     running' = [running EXCEPT ![Len(running)] =
       [Scan EXCEPT !.word = {p \in rows : Scan.inactive \/ Driver.bits[p]},
                    !.base = @ + WordSize]]
  /\ UNCHANGED pools

\* Mutant: the join asks for a row and not for its activity.
visit_row_ignoring_activity ==
  /\ running # <<>> /\ Scan.word # {}
  /\ LET p == Min(Scan.word)
         e == Driver.dense[p]
         joined == \A i \in DOMAIN Scan.query \ {Scan.driver} : joins(pools[Scan.query[i]], e, TRUE) IN
     running' = [running EXCEPT ![Len(running)] =
       [Scan EXCEPT !.word = @ \ {p},
                    !.visited = IF joined THEN Append(@, e) ELSE @]]
  /\ UNCHANGED pools

\* ... then take its rows in order; those that join in the other pools are
\* visited: the driver's own bit is not read again.
visit_row ==
  /\ running # <<>> /\ Scan.word # {}
  /\ LET p == Min(Scan.word)
         e == Driver.dense[p]
         joined == \A i \in DOMAIN Scan.query \ {Scan.driver} :
                     joins(pools[Scan.query[i]], e, Scan.inactive) IN
     running' = [running EXCEPT ![Len(running)] =
       [Scan EXCEPT !.word = @ \ {p},
                    !.visited = IF joined THEN Append(@, e) ELSE @]]
  /\ UNCHANGED pools

AtEnd == running # <<>> /\ Scan.word = {} /\ Scan.base >= Len(Driver.dense)

end_each ==
  /\ AtEnd
  /\ running' = SubSeq(running, 1, Len(running) - 1)
  /\ UNCHANGED pools

ViewNext ==
  \/ \E c \in Component, e \in Entity :
       \/ \E v \in Value, bit \in BOOLEAN : view_emplace(c, e, v, bit)
       \/ view_erase(c, e)
       \/ \E bit \in BOOLEAN : view_set_active(c, e, bit)
  \/ \E query \in Query, inactive \in BOOLEAN : begin_each(query, inactive)
  \/ load_word \/ visit_row \/ end_each

ViewSpec == ViewInit /\ [][ViewNext]_viewVars

-----------------------------------------------------------------------------
\* An entity that matches the query from the start of the scan to its end is
\* visited, whatever the callbacks toggle or nest: a row can only be missed if
\* the packed rows move under the scan, which the iteration lock forbids.  Visits
\* follow the driver's packed order, so none is repeated either.
NoRowMissed ==
  /\ AtEnd => \A e \in Scan.steady : \E n \in DOMAIN Scan.visited : Scan.visited[n] = e
  /\ \A k \in DOMAIN running :
       LET driver == pools[running[k].query[running[k].driver]] IN
       \A m, n \in DOMAIN running[k].visited :
         m < n => driver.sparse[running[k].visited[m]] < driver.sparse[running[k].visited[n]]

\* An entity that was inactive in one of the queried pools for the whole scan
\* is never visited: systems do not see the components of inactive states.
InactiveNeverVisited ==
  \A k \in DOMAIN running : \A n \in DOMAIN running[k].visited :
    \A i \in DOMAIN running[k].query : running[k].visited[n] \in running[k].seen[i]
=============================================================================
