--------------------------------- MODULE Heap ---------------------------------
(***************************************************************************)
(* What kmalloc and kfree promise, without the free list of src/c/mem.c:   *)
(* memory is some regions, of which areas are handed out; a request gets   *)
(* the start of the lowest gap between areas that is large enough, and     *)
(* fails only when there is none.                                          *)
(***************************************************************************)
EXTENDS Naturals

CONSTANTS Regions,   \* the memory: a set of [start, end]
          Requests   \* the lengths of the areas asked for

VARIABLES areas,     \* the areas handed out: a set of [start, end]
          result     \* the start of the last one asked for, 0 for none

\* The places inside a region where something begins or ends.
Edges(r) == {r.start, r.end} \cup
            {b \in UNION {{a.start, a.end} : a \in areas} : r.start <= b /\ b <= r.end}

\* The maximal gaps between areas.
Gaps == {g \in UNION {[start : Edges(r), end : Edges(r)] : r \in Regions} :
            /\ g.start < g.end
            /\ \A a \in areas : a.end <= g.start \/ g.end <= a.start}

Fits(n) == {g.start : g \in {h \in Gaps : h.start + n <= h.end}}

Init == areas = {} /\ result = 0

Allocate(n) ==
    /\ Fits(n) # {}
    /\ \E s \in Fits(n) :
         /\ \A t \in Fits(n) : s <= t
         /\ areas' = areas \cup {[start |-> s, end |-> s + n]}
         /\ result' = s

Fail(n) == Fits(n) = {} /\ result' = 0 /\ UNCHANGED areas

Free(a) == areas' = areas \ {a} /\ UNCHANGED result

Next == \/ \E n \in Requests : Allocate(n) \/ Fail(n)
        \/ \E a \in areas : Free(a)

Spec == Init /\ [][Next]_<<areas, result>>
=============================================================================
