-------------------------------- MODULE Column --------------------------------
(***************************************************************************)
(* One chunk as the server keeps it (chunk.rs): its sections, which are    *)
(* made when a block is first set in them, the flag `dirty`, and the bytes *)
(* of the packet it was last sent in, which set_block throws away.  One    *)
(* client stands for all: send_chunk_data_cached sends the cached bytes    *)
(* when there are any and encodes the chunk otherwise (connection.rs).     *)
(***************************************************************************)
EXTENDS Palette

CONSTANTS
    Sections,      \* section_index of each section, bottom to top
    MaxSets        \* bound: calls of set_block

ASSUME ColumnAssumption == Sections \subseteq Nat /\ MaxSets \in Nat

VARIABLES
    column,        \* sections: a container each, or Absent
    dirty,
    cached,        \* cached_packet: {} or one packet
    shown,         \* what the client displays
    sets           \* bound

column_vars == <<column, dirty, cached, shown, sets>>

Absent == [Single(Air) EXCEPT !.mode = "absent"]
Spot == Sections \X Index
Present(col) == {s \in Sections : col[s] # Absent}

GetBlock(col, p) == IF p[1] \in Present(col) THEN Get(col[p[1]], p[2]) ELSE Air

ColumnInit ==
    /\ column \in [Sections -> {Absent} \cup {Single(b) : b \in States}]
    /\ dirty = TRUE
    /\ cached = {}
    /\ shown = [p \in Spot |-> Air.id]
    /\ sets = 0

(* Section::new: air.                                                      *)
Made(s) == IF column[s] = Absent THEN Single(Air) ELSE column[s]

KeepsPacket == cached     \* mutant
Invalidated == {}

SetBlock(p, b) ==
    /\ sets < MaxSets
    /\ sets' = sets + 1
    /\ cached' = Invalidated
    /\ column' = [column EXCEPT ![p[1]] = Set(Made(p[1]), p[2], b)]
    /\ dirty' = TRUE
    /\ UNCHANGED shown

-----------------------------------------------------------------------------
(* count_non_air.                                                          *)
NonAir(c) == {i \in Index : Get(c, i).id # Air.id}

(* to_chunk_data: the sections there are; the light masks name them.       *)
ChunkData(col) ==
    [s \in Present(col) |-> [blocks |-> EncodeNetwork(col[s]), solid |-> NonAir(col[s]) # {}]]

Displayed(packet) ==
    [p \in Spot |-> IF p[1] \in DOMAIN packet THEN Get(DecodeNetwork(packet[p[1]].blocks), p[2]).id
                                               ELSE Air.id]

SendChunk ==
    /\ cached' = IF cached # {} THEN cached ELSE {ChunkData(column)}
    /\ shown' = Displayed(CHOOSE packet \in cached' : TRUE)
    /\ UNCHANGED <<column, dirty, sets>>

ColumnNext == SendChunk \/ \E p \in Spot, b \in States : SetBlock(p, b)
ColumnSpec == ColumnInit /\ [][ColumnNext]_column_vars

-----------------------------------------------------------------------------
(* Every variable has its type.                                            *)
ColumnTypeOK ==
    /\ \A s \in Present(column) : IsContainer(column[s])
    /\ dirty \in BOOLEAN
    /\ \A packet \in cached : DOMAIN packet \subseteq Sections
    /\ shown \in [Spot -> {b.id : b \in States}]
    /\ sets \in 0..MaxSets

Promise == INSTANCE BlockGrid WITH cells <- [p \in Spot |-> GetBlock(column, p)]

(* However many block states a section has seen, whatever widths its words *)
(* went through and however sends and edits alternate, each set_block      *)
(* changes one block and each packet shows every block.                    *)
ImplementsCells == Promise!Spec
===============================================================================
