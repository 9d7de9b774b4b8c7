-------------------------------- MODULE Frames --------------------------------
(***************************************************************************)
(* How the bytes of a client become packets: PacketStream::read_frame, the *)
(* varints, the codec whose compression is switched on during the login,   *)
(* and the reads of handle_login, handle_configuration and play_loop, two  *)
(* of which are given up after a while.  The client writes its frames with *)
(* the same codec.  A byte has Base - 1 as its largest digit, and Base set *)
(* when another one follows.                                               *)
(***************************************************************************)
EXTENDS Integers, Sequences, FiniteSets

CONSTANTS
    Base,          \* digits of a varint byte (128)
    VarIntBytes,   \* at most this many bytes in a varint (5)
    Word,          \* an i32 is read modulo this (2^32)
    MaxFrame,      \* largest frame that is read (2 MiB)
    Threshold,     \* compression_threshold of the configuration; 0 is off
    ZlibHeader,    \* the byte a compressed body begins with
    Payloads,      \* payloads of packets: sequences of bytes
    Ids,           \* packet numbers
    MaxSent        \* bound: packets of the client

VARIABLES
    stage,        \* what the server's task of this client is at
    server_codec, \* compression_threshold of the server's codec
    wire,         \* bytes the client has written and the server has not read
    taken,        \* bytes of the read under way
    connected,    \* the client has not hung up
    sent,         \* history: the packets the client sent
    parsed,       \* history: what the server made of each frame
    cut           \* history: a read was given up after it had taken bytes

frames_vars == <<stage, server_codec, wire, taken, connected, sent, parsed, cut>>

Digit == 0..2 * Base - 1
Packet == [id : Ids, payload : Payloads]
Malformed == [id |-> -1, payload |-> <<>>]

-----------------------------------------------------------------------------
(* varint.rs                                                               *)
Power[i \in Nat] == IF i = 0 THEN 1 ELSE Base * Power[i - 1]
Weight_Bytes(i) == (2 * Base)^(i - 1)      \* mutant: shifts by eight bits
Weight(i) == Power[i - 1]

(* What is left of a value after so many digits.                           *)
Shifted(value) ==
    LET rest[i \in Nat] == IF i = 0 THEN value ELSE rest[i - 1] \div Base IN rest

WriteVarint(value) ==
    LET rest == Shifted(value)
        size == CHOOSE n \in 1..VarIntBytes : rest[n] = 0 /\ \A k \in 1..n - 1 : rest[k] # 0
    IN  [i \in 1..size |-> (rest[i - 1] % Base) + (IF i < size THEN Base ELSE 0)]

(* The size of the varint at the beginning; none without its last byte.    *)
VarintSizes(bytes) ==
    {n \in 1..VarIntBytes : n <= Len(bytes) /\ bytes[n] < Base /\ \A k \in 1..n - 1 : bytes[k] >= Base}

ValueOf(bytes, size) ==
    LET value[i \in 0..size] == IF i = 0 THEN 0 ELSE value[i - 1] + (bytes[i] % Base) * Weight(i)
    IN  value[size] % Word

ASSUME FramesAssumption ==
    /\ Base \in Nat \ {0, 1} /\ {VarIntBytes, Word, MaxFrame} \subseteq Nat \ {0}
    /\ {Threshold, MaxSent} \subseteq Nat /\ 0 \in Ids
    /\ ZlibHeader \in Digit
    /\ Word <= Power[VarIntBytes] /\ MaxFrame + VarIntBytes + 1 < Word

(* The client's packets fit into frames that are read.                     *)
ASSUME PacketsFit ==
    /\ Ids \subseteq 0..Word - 1 /\ Payloads \subseteq Seq(Digit)
    /\ \A id \in Ids, payload \in Payloads : Len(WriteVarint(id)) + Len(payload) <= MaxFrame

-----------------------------------------------------------------------------
(* codec.rs.  Zlib is a library: here it puts its header in front.         *)
Zlib(data) == <<ZlibHeader>> \o data

Body(packet, threshold) ==
    LET data == WriteVarint(packet.id) \o packet.payload
    IN  IF threshold = 0 THEN data
        ELSE IF Len(data) >= threshold THEN WriteVarint(Len(data)) \o Zlib(data)
        ELSE WriteVarint(0) \o data

Encode(packet, threshold) ==
    LET body == Body(packet, threshold) IN WriteVarint(Len(body)) \o body

(* parse_packet_id_and_payload, whatever the threshold of the codec is.    *)
Parse(frame) ==
    IF VarintSizes(frame) = {} THEN Malformed
    ELSE LET size == CHOOSE n \in VarintSizes(frame) : TRUE
         IN  [id |-> ValueOf(frame, size), payload |-> SubSeq(frame, size + 1, Len(frame))]

-----------------------------------------------------------------------------
FramesInit ==
    /\ stage = "login"
    /\ server_codec = 0
    /\ wire = <<>>
    /\ taken = <<>>
    /\ connected = TRUE
    /\ sent = <<>>
    /\ parsed = <<>>
    /\ cut = FALSE

(* The client logs in, waits for the answer, with which its codec changes  *)
(* as the server's does, and then sends what it likes.                     *)
Send(packet) ==
    /\ connected /\ stage # "closed" /\ Len(sent) < MaxSent
    /\ IF sent = <<>> THEN packet.id = 0 ELSE stage # "login"
    /\ sent' = Append(sent, packet)
    /\ wire' = wire \o Encode(packet, IF sent = <<>> THEN 0 ELSE Threshold)
    /\ UNCHANGED <<stage, server_codec, taken, connected, parsed, cut>>

HangUp ==
    /\ connected
    /\ connected' = FALSE
    /\ UNCHANGED <<stage, server_codec, wire, taken, sent, parsed, cut>>

-----------------------------------------------------------------------------
(* read_frame takes the length byte by byte, and then the body.            *)
Prefix == VarintSizes(taken)
PrefixSize == CHOOSE n \in Prefix : TRUE
FrameSize == ValueOf(taken, PrefixSize)
Refused == IF Prefix = {} THEN Len(taken) = VarIntBytes ELSE FrameSize > MaxFrame
Complete == Prefix # {} /\ ~Refused /\ Len(taken) = PrefixSize + FrameSize

Take ==
    /\ stage # "closed" /\ wire # <<>> /\ ~Refused /\ ~Complete
    /\ taken' = Append(taken, Head(wire))
    /\ wire' = Tail(wire)
    /\ UNCHANGED <<stage, server_codec, connected, sent, parsed, cut>>

(* What follows a frame.  The login needs a Login Start; the next frame is *)
(* taken for its acknowledgement whatever it is; the configuration ends    *)
(* when it has what it needs or thirty seconds have gone.                  *)
AfterFrame(packet) ==
    CASE stage = "login" /\ packet.id # 0 -> {"closed"}
      [] stage = "login" /\ packet.id = 0 -> {"acknowledge"}
      [] stage = "acknowledge" -> {"configuration"}
      [] stage = "configuration" -> {"configuration", "finish"}
      [] OTHER -> {"play"}

ReadFrame ==
    LET packet == Parse(SubSeq(taken, PrefixSize + 1, Len(taken)))
    IN  /\ stage # "closed" /\ Complete
        /\ taken' = <<>>
        /\ parsed' = Append(parsed, packet)
        /\ stage' \in AfterFrame(packet)
        /\ server_codec' = IF stage' = "acknowledge" THEN Threshold ELSE server_codec
        /\ UNCHANGED <<wire, connected, sent, cut>>

(* A length that cannot be, or the end of the stream: the configuration    *)
(* and what surrounds it go on, the others end.                            *)
AfterError ==
    CASE stage = "acknowledge" -> "configuration"
      [] stage = "configuration" -> "finish"
      [] stage = "finish" -> "play"
      [] OTHER -> "closed"

ReadError ==
    /\ stage # "closed"
    /\ Refused \/ (~connected /\ wire = <<>> /\ ~Complete)
    /\ taken' = <<>>
    /\ stage' = AfterError
    /\ UNCHANGED <<server_codec, wire, connected, sent, parsed, cut>>

(* The read is dropped, with the bytes it has taken.  Bytes on the wire    *)
(* may not have arrived.                                                   *)
TimeOut ==
    /\ stage \in {"configuration", "finish", "play"} /\ connected /\ ~Refused /\ ~Complete
    /\ taken' = <<>>
    /\ cut' = (cut \/ taken # <<>>)
    /\ stage' \in CASE stage = "configuration" -> {"configuration", "finish"} [] OTHER -> {"play"}
    /\ UNCHANGED <<server_codec, wire, connected, sent, parsed>>

FramesNext ==
    \/ \E packet \in Packet : Send(packet)
    \/ HangUp \/ Take \/ ReadFrame \/ ReadError \/ TimeOut

FramesSpec == FramesInit /\ [][FramesNext]_frames_vars

-----------------------------------------------------------------------------
(* Properties                                                              *)

(* Every variable has its type, and no read takes in more than the largest *)
(* frame, although lengths come from a stream that may be out of step.     *)
FramesTypeOK ==
    /\ stage \in {"login", "acknowledge", "configuration", "finish", "play", "closed"}
    /\ server_codec \in {0, Threshold}
    /\ wire \in Seq(Digit) /\ taken \in Seq(Digit)
    /\ Prefix # {} => Len(taken) <= PrefixSize + MaxFrame
    /\ {connected, cut} \subseteq BOOLEAN
    /\ sent \in Seq(Packet)
    /\ \A i \in 1..Len(parsed) : parsed[i] = Malformed \/ parsed[i].payload \in Seq(Digit)

(* As long as no read was given up with bytes in its hands, the frames the *)
(* server has parsed are the packets the client sent, one for one and in   *)
(* order, and when nothing is on its way they are all of them.             *)
PacketsUnderstood ==
    ~cut => /\ Len(parsed) <= Len(sent) /\ \A i \in 1..Len(parsed) : parsed[i] = sent[i]
            /\ wire = <<>> /\ taken = <<>> => parsed = sent
==============================================================================
