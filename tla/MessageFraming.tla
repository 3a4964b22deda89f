--------------------------- MODULE MessageFraming ---------------------------
(***************************************************************************)
(* The language server's side of a stdio connection: MessageDecoder, which *)
(* puts messages together out of chunks cut anywhere.                      *)
(*                                                                         *)
(* The wire is a sequence of bytes.  A line end is one byte here, so the   *)
(* end of a header is two of them, and the line that gives a length is     *)
(* one: a cut inside either leaves the decoder as it was before both.      *)
(***************************************************************************)
EXTENDS Integers, Sequences

CONSTANTS
    Wires,          \* sequences of frames: what a client sends in a session
    MaxChunk        \* bytes in a chunk, at most

Byte == [is : {"end", "length", "other"}, n : Nat]
LineEnd == [is |-> "end", n |-> 0]
LengthLine(n) == [is |-> "length", n |-> n]
Other(n) == [is |-> "other", n |-> n]

(* A frame has a header, in lines, and a body, in bytes: JSON or not.      *)
Frame(lines, body, json) == [lines |-> lines, body |-> body, json |-> json]
SentFrames == [lines : Seq(Byte), body : Seq(Byte), json : BOOLEAN]

Separated(lines) == [i \in 1..(2 * Len(lines) - 1) |->
    IF i % 2 = 1 THEN lines[(i + 1) \div 2] ELSE LineEnd]
Encoded(frame) == Separated(frame.lines) \o <<LineEnd, LineEnd>> \o frame.body

(* The bytes of the first k frames of a session, and those of all of it.   *)
Sent(w) == LET sent[k \in 0..Len(w)] == IF k = 0 THEN << >> ELSE sent[k - 1] \o Encoded(w[k])
           IN  sent
OnTheWire(w) == Sent(w)[Len(w)]

FirstOf(S) == CHOOSE i \in S : \A j \in S : i <= j
HeaderEnds(b) == {i \in 1..(Len(b) - 1) : b[i] = LineEnd /\ b[i + 1] = LineEnd}
LengthsIn(header) == {i \in 1..Len(header) : header[i].is = "length"}
HasLength(frame) == LengthsIn(frame.lines) # {}

(* A client of the protocol gives the length of its body, and no line of   *)
(* its header is two.  What it sends without a length is no header either. *)
Proper(frame) ==
    /\ \A i \in 1..Len(frame.lines) : frame.lines[i] # LineEnd
    /\ HasLength(frame) => frame.lines[FirstOf(LengthsIn(frame.lines))].n = Len(frame.body)
    /\ ~ HasLength(frame) => \A i \in 1..Len(frame.body) : frame.body[i].is = "other"

(* Two bodies that are the same are both JSON or neither is. *)
ASSUME FramingAssumption ==
    /\ MaxChunk \in Nat
    /\ \A w \in Wires :
          /\ w \in Seq(SentFrames)
          /\ \A k \in 1..Len(w) : Proper(w[k])
          /\ \A j, k \in 1..Len(w) : w[j].body = w[k].body => w[j].json = w[k].json

VARIABLES
    wire,           \* the frames of this session
    arrived,        \* how many bytes of them have come
    buffer,         \* the decoder's
    messages        \* the bodies handed on, as they were parsed

framingVars == <<wire, arrived, buffer, messages>>

-----------------------------------------------------------------------------
(* JSON.parse: a body that is one frame's, or an error.                    *)
Parsed(body) ==
    IF \E i \in 1..Len(wire) : wire[i].json /\ wire[i].body = body THEN <<body>> ELSE << >>

(* A body that has not come whole waits for the next chunk.                *)
WaitsForOneMore(present, length) == present <= length               \* a mutant
Incomplete(present, length) == present < length

(* One turn of push's loop: a whole message off the front, if there is one. *)
OneMessage(d) ==
    IF HeaderEnds(d.left) = {} THEN d
    ELSE LET end    == FirstOf(HeaderEnds(d.left))
             header == SubSeq(d.left, 1, end - 1)
             after  == SubSeq(d.left, end + 2, Len(d.left))
         IN  IF LengthsIn(header) = {} THEN [left |-> after, done |-> d.done]
             ELSE LET length == header[FirstOf(LengthsIn(header))].n
                  IN  IF Incomplete(Len(after), length) THEN d
                      ELSE [left |-> SubSeq(after, length + 1, Len(after)),
                            done |-> d.done \o Parsed(SubSeq(after, 1, length))]

(* A turn that takes a message takes bytes: no more turns than bytes.      *)
Decode(b, done) ==
    LET turn[n \in 0..Len(b)] ==
            IF n = 0 THEN [left |-> b, done |-> done] ELSE OneMessage(turn[n - 1])
    IN  turn[Len(b)]

FramingInit ==
    /\ wire \in Wires
    /\ arrived = 0 /\ buffer = << >> /\ messages = << >>

PushChunk(n) ==
    /\ arrived + n <= Len(OnTheWire(wire))
    /\ arrived' = arrived + n
    /\ LET decoded == Decode(buffer \o SubSeq(OnTheWire(wire), arrived + 1, arrived + n), messages)
       IN  buffer' = decoded.left /\ messages' = decoded.done
    /\ UNCHANGED wire

FramingNext == \E n \in 1..MaxChunk : PushChunk(n)

FramingSpec == FramingInit /\ [][FramingNext]_framingVars

-----------------------------------------------------------------------------
(* What a decoder that saw the frames, and not the bytes, would have       *)
(* handed on of the first k frames of w when n bytes have come: the JSON   *)
(* of every frame with a length that is all there.                         *)
Handed(w, n) ==
    LET handed[k \in 0..Len(w)] ==
            IF k = 0 THEN << >>
            ELSE IF Len(Sent(w)[k]) <= n /\ w[k].json /\ HasLength(w[k])
                 THEN Append(handed[k - 1], w[k].body)
                 ELSE handed[k - 1]
    IN  handed

(* "Messages must be reassembled rather than assumed to arrive whole": the *)
(* messages are those of the frames, in order and at once, wherever the    *)
(* chunks were cut, and what cannot be read costs no other frame           *)
(* (MessageDecoder: "the stream stays usable").                            *)
WholeFramesDelivered == messages = Handed(wire, arrived)[Len(wire)]
=============================================================================
