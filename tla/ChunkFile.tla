------------------------------ MODULE ChunkFile ------------------------------
(***************************************************************************)
(* The file of one chunk in the Linear format (chunk_store.rs): what       *)
(* save_chunk_linear writes and what load_from_disk_linear makes of it.    *)
(* The bytes are digits to the base Byte, little end first: an i32 or u32  *)
(* has four, a u16 two, a word as many as it needs.  LZ4 is external and   *)
(* gives back the bytes it was given.                                      *)
(***************************************************************************)
EXTENDS Column, FiniteSets
LOCAL INSTANCE SequencesExt

CONSTANTS
    Byte,          \* 256
    X, Z,          \* the position of the chunk
    LightBytes,    \* the bytes of one light array (2048)
    LongestData    \* 10_000_000

VARIABLES
    file,          \* {} or the bytes on the disk
    loaded,        \* the chunk is in the memory
    saved,         \* history: the ids of the blocks when the file was written
    restored       \* history: the column is the one the file gave, untouched

file_vars == <<file, loaded, saved, restored>>

-----------------------------------------------------------------------------
(* Numbers and bytes                                                       *)
LE(v, n) == [k \in 1..n |-> (v \div Byte ^ (k - 1)) % Byte]
U16(v) == LE(v, 2)
U32(v) == LE(v, 4)
WordBytes == CHOOSE n \in 1..WordBits : Byte ^ n >= 2 ^ WordBits /\ Byte ^ (n - 1) < 2 ^ WordBits
U64(v) == LE(v, WordBytes)

FromLE(bytes) == FoldRight(LAMBDA digit, rest : digit + Byte * rest, bytes, 0)
Bytes(data, at, n) == SubSeq(data, at + 1, at + n)     \* data[at..at + n]
Has(data, at, n) == at + n <= Len(data)

Concat(seqs) == FoldLeft(LAMBDA all, part : all \o part, <<>>, seqs)

-----------------------------------------------------------------------------
(* encode_binary, decode_binary                                            *)

EncodeWords(data) == U32(Len(data)) \o Concat([k \in DOMAIN data |-> U64(data[k])])

EncodeBinary(c) ==
    CASE c.mode = "single" -> <<0>> \o U32(c.palette[1].id)
      [] c.mode = "indirect" ->
            <<1>> \o U16(Len(c.palette)) \o Concat([k \in DOMAIN c.palette |-> U32(c.palette[k].id)])
            \o <<c.bits>> \o EncodeWords(c.data)
      [] c.mode = "direct" -> <<2, GlobalBits>> \o EncodeWords(c.data)

(* As many whole words as there are, and no more than are announced.       *)
DecodeWords(data, at) ==
    LET n == FromLE(Bytes(data, at, 4))
        whole == (Len(data) - at - 4) \div WordBytes
    IN  [k \in 1..(IF n < whole THEN n ELSE whole) |->
            FromLE(Bytes(data, at + 4 + (k - 1) * WordBytes, WordBytes))]

(* The container stays what it was, all air, when the bytes end too early. *)
DecodeBinary(data) ==
    LET n == FromLE(Bytes(data, 1, 2))
        after == 3 + 4 * n
        palette == [k \in 1..n |-> New(FromLE(Bytes(data, 4 * k - 1, 4)))]
    IN  IF Len(data) = 0 THEN Single(Air)
        ELSE CASE data[1] = 0 /\ Has(data, 1, 4) -> Single(New(FromLE(Bytes(data, 1, 4))))
               [] data[1] = 1 /\ Has(data, 1, 2) /\ Has(data, after, 5) ->
                    Indirect(palette, DecodeWords(data, after + 1), data[after + 1])
               [] data[1] = 2 /\ Has(data, 2, 4) -> Direct(DecodeWords(data, 2))
               [] OTHER -> Single(Air)

-----------------------------------------------------------------------------
(* serialize_chunk_binary: the position, the number of sections, and each  *)
(* section with its number, its blocks, its biomes (plains) and its light. *)

Sized(bytes) == U32(Len(bytes)) \o bytes

SerializeSection(s) ==
    U16(s) \o Sized(EncodeBinary(column[s])) \o Sized(EncodeBinary(Single(Air)))
    \o [k \in 1..LightBytes |-> Byte - 1] \o [k \in 1..LightBytes |-> 0]

Serialize ==
    LE(X, 4) \o LE(Z, 4) \o U16(Cardinality(Present(column)))
    \o Concat([k \in 1..Cardinality(Present(column)) |-> SerializeSection(SetToSortSeq(Present(column), <)[k])])

(* deserialize_chunk_binary: one section at `at`; `go` is FALSE from the   *)
(* first break on.                                                         *)
ReadSection(data, r) ==
    LET blocksAt == r.at + 6
        blocks == FromLE(Bytes(data, r.at + 2, 4))
        biomesAt == blocksAt + blocks + 4
        biomes == FromLE(Bytes(data, blocksAt + blocks, 4))
        end == biomesAt + biomes + 2 * LightBytes
        s == FromLE(Bytes(data, r.at, 2))
        whole == /\ r.go /\ Has(data, r.at, 6) /\ Has(data, blocksAt, blocks)
                 /\ Has(data, blocksAt + blocks, 4) /\ Has(data, 0, end)
    IN  CASE ~whole -> [r EXCEPT !.go = FALSE]
          [] whole /\ s \in Sections ->
                [r EXCEPT !.at = end, !.col = [@ EXCEPT ![s] = DecodeBinary(Bytes(data, blocksAt, blocks))]]
          [] whole /\ s \notin Sections -> [r EXCEPT !.at = end]

(* The count is read from the first two bytes.                             *)
Deserialize(data) ==
    LET start == [at |-> 2, go |-> TRUE, col |-> [s \in Sections |-> Absent]]
    IN  IF Len(data) < 2 THEN start.col
        ELSE FoldLeft(LAMBDA r, k : ReadSection(data, r), start,
                      [k \in 1..FromLE(Bytes(data, 0, 2)) |-> k]).col

-----------------------------------------------------------------------------
(* The file                                                                *)

Header(raw) == LE(X, 4) \o LE(Z, 4) \o <<0>> \o U32(Len(raw))

FileInit ==
    /\ ColumnInit
    /\ file = {}
    /\ loaded = TRUE
    /\ saved = [p \in Spot |-> Air.id]
    /\ restored = FALSE

(* A dirty chunk is written and leaves the memory: it is the oldest one    *)
(* (flush_dirty_lru), or the server stops (save_dirty_chunks_linear).      *)
Save ==
    /\ loaded /\ dirty
    /\ file' = {Header(Serialize) \o Serialize}
    /\ loaded' = FALSE
    /\ saved' = [p \in Spot |-> GetBlock(column, p).id]
    /\ UNCHANGED <<column_vars, restored>>

(* load_linear_file: the length is behind the format byte, which older     *)
(* files do not have.                                                      *)
DataOf(bytes) ==
    LET format == bytes[9]
        at == IF format <= 1 THEN 13 ELSE 8
        n == FromLE(Bytes(bytes, IF format <= 1 THEN 9 ELSE 8, 4))
    IN  IF Len(bytes) < 12 \/ ~Has(bytes, 0, at) \/ n = 0 \/ n > LongestData \/ ~Has(bytes, at, n)
        THEN {} ELSE {Bytes(bytes, at, n)}

(* It is needed again: the file is taken before the generator.             *)
Reload ==
    /\ ~loaded
    /\ \E bytes \in file : \E raw \in DataOf(bytes) : column' = Deserialize(raw)
    /\ dirty' = FALSE
    /\ cached' = {}
    /\ loaded' = TRUE
    /\ restored' = TRUE
    /\ UNCHANGED <<shown, sets, file, saved>>

Edits ==
    /\ loaded
    /\ \E p \in Spot, b \in States : SetBlock(p, b)
    /\ restored' = FALSE
    /\ UNCHANGED <<file, loaded, saved>>

FileNext == Edits \/ Save \/ Reload
FileSpec == FileInit /\ [][FileNext]_<<column_vars, file_vars>>

-----------------------------------------------------------------------------
(* The blocks of a column whose file was written come back with it.        *)
SavedColumnComesBack == restored => \A p \in Spot : GetBlock(column, p).id = saved[p]
==============================================================================
