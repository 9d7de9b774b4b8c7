------------------------------- MODULE Palette -------------------------------
(***************************************************************************)
(* The blocks of one section of a chunk, as paletted.rs packs them.  A     *)
(* container has one of three modes: "single" (every block is the same),   *)
(* "indirect" (indices into a palette) and "direct" (block ids).  Indices  *)
(* and ids are packed into words, and an entry may cross from one word     *)
(* into the next.  A word is a number below 2^WordBits.                    *)
(***************************************************************************)
EXTENDS Integers, Sequences

CONSTANTS
    BlocksPerSection,   \* 4096
    GlobalBits,         \* 15
    WordBits,           \* 64
    States              \* the block states in use: [id, props]

TwoTo[n \in Nat] == IF n = 0 THEN 1 ELSE 2 * TwoTo[n - 1]

New(id) == [id |-> id, props |-> 0]     \* BlockState::new
Air == New(0)
Index == 0..(BlocksPerSection - 1)

ASSUME PaletteAssumption ==
    /\ {BlocksPerSection, GlobalBits, WordBits} \subseteq Nat \ {0}
    /\ GlobalBits <= WordBits
    /\ States \subseteq [id: 0..(TwoTo[GlobalBits] - 1), props: Nat] /\ Air \in States

-----------------------------------------------------------------------------
(* Packed arrays                                                           *)

(* ceil(log2(count)).                                                      *)
BitsFor(count) == CHOOSE b \in 0..count : TwoTo[b] >= count /\ \A c \in 0..(b - 1) : TwoTo[c] < count

NewPacked(bits) == [w \in 1..((BlocksPerSection * bits + WordBits - 1) \div WordBits) |-> 0]

Word(i, bits) == (i * bits) \div WordBits + 1
Offset(i, bits) == (i * bits) % WordBits
Crossing(i, bits) == Offset(i, bits) + bits - WordBits     \* the bits in the next word, if any

ReadPacked(data, i, bits) ==
    LET low == data[Word(i, bits)] \div TwoTo[Offset(i, bits)]
    IN  IF Crossing(i, bits) > 0
        THEN low + (data[Word(i, bits) + 1] % TwoTo[Crossing(i, bits)]) * TwoTo[bits - Crossing(i, bits)]
        ELSE low % TwoTo[bits]

(* What word keeps above its lowest n bits.                                *)
Above(word, n) == word - (word % TwoTo[n])

WritePacked(data, i, bits, value) ==
    LET w == Word(i, bits)
        at == Offset(i, bits)
        next == Crossing(i, bits)
        v == value % TwoTo[bits]
        first == [data EXCEPT ![w] = (@ % TwoTo[at]) + ((v * TwoTo[at]) % TwoTo[WordBits])
                                     + (IF next < 0 THEN Above(@, at + bits) ELSE 0)]
    IN  IF next > 0 THEN [first EXCEPT ![w + 1] = Above(@, next) + (v \div TwoTo[bits - next])] ELSE first

(* A new array of entries of this width: entry i is f[i].                  *)
Packed(f, bits) ==
    LET data[n \in 0..BlocksPerSection] ==
            IF n = 0 THEN NewPacked(bits) ELSE WritePacked(data[n - 1], n - 1, bits, f[n - 1])
    IN  data[BlocksPerSection]

-----------------------------------------------------------------------------
(* The container                                                           *)

Single(b) == [mode |-> "single", palette |-> <<b>>, data |-> <<>>, bits |-> 0]
Indirect(palette, data, bits) == [mode |-> "indirect", palette |-> palette, data |-> data, bits |-> bits]
Direct(data) == [mode |-> "direct", palette |-> <<>>, data |-> data, bits |-> GlobalBits]

Entry(c, i) == ReadPacked(c.data, i, c.bits)

Get(c, i) ==
    CASE c.mode = "single" -> c.palette[1]
      [] c.mode = "indirect" ->
            LET k == IF c.bits = 0 THEN 0 ELSE Entry(c, i)
            IN  IF k < Len(c.palette) THEN c.palette[k + 1] ELSE Air
      [] c.mode = "direct" -> New(Entry(c, i))

SetSingle(c, i, b) ==
    IF c.palette[1] = b THEN c
    ELSE Indirect(c.palette \o <<b>>, WritePacked(NewPacked(1), i, 1, 1), 1)

SetDirect(c, i, b) == [c EXCEPT !.data = WritePacked(@, i, GlobalBits, b.id)]

UpgradeToDirect(c) == Direct(Packed([i \in Index |-> Get(c, i).id], GlobalBits))

(* The entries of c at a new width.                                        *)
KeptWords(c, bits) ==      \* mutant: the old words are taken as they are
    [w \in DOMAIN NewPacked(bits) |-> IF w \in DOMAIN c.data THEN c.data[w] ELSE 0]
Widened(c, bits) == Packed([i \in Index |-> Entry(c, i)], bits)

(* A block state the palette does not have yet is added to it.             *)
SetNew(c, i, b) ==
    LET bits == BitsFor(Len(c.palette) + 1)
    IN  CASE bits > c.bits /\ bits > GlobalBits -> SetDirect(UpgradeToDirect(c), i, b)
          [] bits > c.bits /\ bits <= GlobalBits ->
                Indirect(Append(c.palette, b), WritePacked(Widened(c, bits), i, bits, Len(c.palette)), bits)
          [] bits <= c.bits ->
                Indirect(Append(c.palette, b), WritePacked(c.data, i, c.bits, Len(c.palette)), c.bits)

SetIndirect(c, i, b) ==
    IF \E k \in DOMAIN c.palette : c.palette[k] = b
    THEN LET k == CHOOSE k \in DOMAIN c.palette : c.palette[k] = b
         IN  [c EXCEPT !.data = WritePacked(@, i, c.bits, k - 1)]
    ELSE SetNew(c, i, b)

Set(c, i, b) ==
    CASE c.mode = "single" -> SetSingle(c, i, b)
      [] c.mode = "indirect" -> SetIndirect(c, i, b)
      [] c.mode = "direct" -> SetDirect(c, i, b)

IsContainer(c) ==
    /\ c.mode \in {"single", "indirect", "direct"}
    /\ c.palette \in Seq(States)
    /\ c.bits \in 0..GlobalBits
    /\ c.data \in Seq(0..(TwoTo[WordBits] - 1))

-----------------------------------------------------------------------------
(* In a packet: the width, the ids of the palette and the words, each with *)
(* its length.  A client reads a block's id and no other property of it.   *)

Ids(palette) == [k \in DOMAIN palette |-> palette[k].id]

EncodeNetwork(c) ==
    <<c.bits, Len(c.palette)>> \o Ids(c.palette) \o <<Len(c.data)>> \o c.data

DecodeNetwork(items) ==
    LET n == items[2]
        palette == [k \in 1..n |-> New(items[k + 2])]
        data == SubSeq(items, n + 4, n + 3 + items[n + 3])
    IN  CASE n = 0 -> Direct(data)
          [] n = 1 -> Single(palette[1])
          [] n > 1 -> Indirect(palette, data, items[1])
=============================================================================
