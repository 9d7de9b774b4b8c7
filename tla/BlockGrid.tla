-------------------------------- MODULE BlockGrid ------------------------------
(***************************************************************************)
(* What a column of blocks promises, whatever its packing: a block that is *)
(* set is there and no other block changes, and a client that is sent the  *)
(* column displays the blocks that are there.  A section that has seen too *)
(* many block states forgets the properties of its blocks and keeps their  *)
(* ids.                                                                    *)
(***************************************************************************)
EXTENDS Integers

CONSTANTS Sections, Index, States, Air

VARIABLES
    cells,     \* the block states
    shown      \* the ids the client displays

Spot == Sections \X Index
Plain(b) == [b EXCEPT !.props = 0]

Init ==
    /\ \E first \in [Sections -> States] : cells = [p \in Spot |-> first[p[1]]]
    /\ shown = [p \in Spot |-> Air.id]

Put(p, b) == cells' = [cells EXCEPT ![p] = b] /\ UNCHANGED shown

Forget(p, b) ==
    /\ cells' = [q \in Spot |->
            IF q = p THEN Plain(b) ELSE IF q[1] = p[1] THEN Plain(cells[q]) ELSE cells[q]]
    /\ UNCHANGED shown

Show == shown' = [p \in Spot |-> cells[p].id] /\ UNCHANGED cells

Next == Show \/ \E p \in Spot, b \in States : Put(p, b) \/ Forget(p, b)

Spec == Init /\ [][Next]_<<cells, shown>>
=============================================================================
