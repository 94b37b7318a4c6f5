---------------------------- MODULE FrameDecoder ----------------------------
(***************************************************************************)
(* The framing of internal/protocol/frame.go and its incremental decoder:  *)
(* a peer sends encoded frames, the transport cuts the bytes into chunks   *)
(* as it likes, Feed appends a chunk and Next takes the next frame off the *)
(* buffer, keeping what it has read of a header until the body is there.   *)
(*                                                                         *)
(* Bytes are digits 0..Base-1 (256 in the code); OpBytes and LenBytes are  *)
(* 2 and 4 there, MaxFrameSize 1 MB.                                       *)
(***************************************************************************)
EXTENDS Naturals, Sequences

CONSTANTS
  Base,          \* number of values of a byte
  OpBytes,       \* bytes of the opcode
  LenBytes,      \* bytes of the length
  MaxFrameSize,  \* larger frames are refused
  Bodies,        \* bodies of the frames that are sent
  MaxFrames,     \* bound: frames sent on one connection
  MaxChunk       \* bound: bytes in one chunk

Byte == 0..(Base - 1)
FrameHeaderSize == OpBytes + LenBytes

\* How many values n bytes have.
Values[n \in 0..FrameHeaderSize] == IF n = 0 THEN 1 ELSE Base * Values[n - 1]

ASSUME FrameConstants ==
  /\ Base \in Nat \ {0, 1}
  /\ OpBytes \in Nat \ {0} /\ LenBytes \in Nat \ {0}
  /\ MaxFrameSize \in Nat /\ MaxFrames \in Nat /\ MaxChunk \in Nat
  /\ Bodies \subseteq Seq(Byte)
  /\ \A b \in Bodies : Len(b) < Values[LenBytes]

Opcodes == 0..(Values[OpBytes] - 1)
Frame == [opcode : Opcodes, body : Seq(Byte)]
NoFrame == [opcode |-> 0, body |-> <<>>]

-----------------------------------------------------------------------------
(* binary.BigEndian, EncodeFrame, DecodeFrame.                             *)

\* The n digits of v, most significant first, and back.
PutUint(v, n) ==
  LET shifted[k \in 0..n] == IF k = 0 THEN v ELSE shifted[k - 1] \div Base
  IN  [i \in 1..n |-> shifted[n - i] % Base]
GetUint(s) ==
  LET value[i \in 0..Len(s)] == IF i = 0 THEN 0 ELSE value[i - 1] * Base + s[i]
  IN  value[Len(s)]

EncodeFrame(f) ==
  PutUint(f.opcode, OpBytes) \o PutUint(Len(f.body), LenBytes) \o f.body

BodyLength(raw) == GetUint(SubSeq(raw, OpBytes + 1, FrameHeaderSize))

DecodeFrame(raw) ==
  IF Len(raw) < FrameHeaderSize THEN [err |-> "small", frame |-> NoFrame]
  ELSE IF Len(raw) > MaxFrameSize THEN [err |-> "large", frame |-> NoFrame]
  ELSE IF Len(raw) # FrameHeaderSize + BodyLength(raw)
       THEN [err |-> "invalid", frame |-> NoFrame]
  ELSE [err |-> "nil",
        frame |-> [opcode |-> GetUint(SubSeq(raw, 1, OpBytes)),
                   body   |-> SubSeq(raw, FrameHeaderSize + 1, Len(raw))]]

-----------------------------------------------------------------------------
VARIABLES
  buffer, headerRead, frameSize,  \* the decoder
  sent,    \* frames the peer has sent since the last Reset
  transit, \* bytes of theirs that have not been fed
  decoded, \* frames Next has returned since the last Reset
  last     \* what the last Next returned, if no Feed came after it

decoder == <<buffer, headerRead, frameSize>>
frameVars == <<decoder, sent, transit, decoded, last>>

FrameInit ==
  /\ buffer = <<>> /\ headerRead = FALSE /\ frameSize = 0
  /\ sent = <<>> /\ transit = <<>>
  /\ decoded = <<>>
  /\ last = "fed"

\* The peer sends a frame.
Send(f) ==
  /\ Len(sent) < MaxFrames
  /\ sent' = Append(sent, f)
  /\ transit' = transit \o EncodeFrame(f)
  /\ UNCHANGED <<decoder, decoded, last>>

Feed(n) ==
  /\ n <= Len(transit)
  /\ buffer' = buffer \o SubSeq(transit, 1, n)
  /\ transit' = SubSeq(transit, n + 1, Len(transit))
  /\ last' = "fed"
  /\ UNCHANGED <<headerRead, frameSize, sent, decoded>>

\* What Next knows of the frame's size: from an earlier call or the header.
SizeSlip == IF headerRead THEN frameSize ELSE BodyLength(buffer)
Size == IF headerRead THEN frameSize ELSE FrameHeaderSize + BodyLength(buffer)

HeaderThere == headerRead \/ Len(buffer) >= FrameHeaderSize

\* Next returns nil, nil: the header, or the rest of the frame, is missing.
NextWaits ==
  /\ \/ ~HeaderThere /\ UNCHANGED <<headerRead, frameSize>>
     \/ /\ HeaderThere
        /\ headerRead \/ Size <= MaxFrameSize
        /\ Len(buffer) < Size
        /\ headerRead' = TRUE /\ frameSize' = Size
  /\ last' = "nil"
  /\ UNCHANGED <<buffer, sent, transit, decoded>>

\* ErrFrameTooLarge: the size is stored, the bytes stay, and so every later
\* call fails in the same way.
NextRefuses ==
  /\ HeaderThere /\ ~headerRead
  /\ Size > MaxFrameSize
  /\ frameSize' = Size
  /\ last' = "error"
  /\ UNCHANGED <<buffer, headerRead, sent, transit, decoded>>

\* A frame, and the bytes and the header state removed with it.
NextDecodesSlip ==
  /\ HeaderThere
  /\ headerRead \/ Size <= MaxFrameSize
  /\ Len(buffer) >= Size
  /\ decoded' = Append(decoded, DecodeFrame(SubSeq(buffer, 1, Size)).frame)
  /\ buffer' = SubSeq(buffer, Size + 1, Len(buffer))
  /\ headerRead' = TRUE /\ frameSize' = Size
  /\ last' = "frame"
  /\ UNCHANGED <<sent, transit>>
NextDecodes ==
  /\ HeaderThere
  /\ headerRead \/ Size <= MaxFrameSize
  /\ Len(buffer) >= Size
  /\ LET raw == SubSeq(buffer, 1, Size) IN
     IF DecodeFrame(raw).err = "nil"
     THEN /\ decoded' = Append(decoded, DecodeFrame(raw).frame)
          /\ buffer' = SubSeq(buffer, Size + 1, Len(buffer))
          /\ headerRead' = FALSE /\ frameSize' = 0
          /\ last' = "frame"
     ELSE /\ headerRead' = TRUE /\ frameSize' = Size
          /\ last' = "error"
          /\ UNCHANGED <<decoded, buffer>>
  /\ UNCHANGED <<sent, transit>>

\* Reset, for a new connection: what was under way is gone.
Reset ==
  /\ buffer' = <<>> /\ headerRead' = FALSE /\ frameSize' = 0
  /\ sent' = <<>> /\ transit' = <<>> /\ decoded' = <<>> /\ last' = "fed"

FrameNext ==
  \/ \E op \in Opcodes, b \in Bodies : Send([opcode |-> op, body |-> b])
  \/ \E n \in 1..MaxChunk : Feed(n)
  \/ NextWaits \/ NextRefuses \/ NextDecodes
  \/ Reset

FrameSpec == FrameInit /\ [][FrameNext]_frameVars

-----------------------------------------------------------------------------
(* Properties.                                                             *)

(***************************************************************************)
(* Next returns the frames that were sent, in order, none twice and none   *)
(* made up, however the bytes were cut into chunks and whenever Next was   *)
(* called between them (EncodeFrame, Feed, Next, Reset).                   *)
(***************************************************************************)
FramesAsSent ==
  /\ Len(decoded) <= Len(sent)
  /\ \A i \in 1..Len(decoded) : decoded[i] = sent[i]

\* The end, in the bytes sent, of the k-th frame.
EndOf(k) ==
  LET end[i \in 0..Len(sent)] ==
        IF i = 0 THEN 0 ELSE end[i - 1] + Len(EncodeFrame(sent[i]))
  IN  end[k]
Arrived == EndOf(Len(sent)) - Len(transit)

(***************************************************************************)
(* Next holds no frame back: when it asks for more bytes, the next frame   *)
(* has not arrived in full; when it fails, the next frame is larger than   *)
(* allowed.  A legal frame is never refused (the header state Next keeps   *)
(* between calls).                                                         *)
(***************************************************************************)
NothingHeldBack ==
  LET next == Len(decoded) + 1 IN
  /\ last = "nil" /\ next <= Len(sent) => Arrived < EndOf(next)
  /\ last = "error" =>
       next <= Len(sent) /\ Len(EncodeFrame(sent[next])) > MaxFrameSize

=============================================================================
