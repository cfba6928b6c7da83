----------------------------- MODULE McpFraming -----------------------------
(***************************************************************************)
(* NdjsonFrameAccumulator of the MCP server (src/mcp/server.ts): bytes     *)
(* arrive in chunks of any size, frames end at a newline, and no more than *)
(* MaxBytes are ever retained of one.  One action per branch of the loop   *)
(* of push().                                                              *)
(***************************************************************************)
EXTENDS Naturals, Sequences

CONSTANTS
  MaxBytes,   \* MAX_MCP_REQUEST_BYTES
  MaxInput    \* bound: bytes that arrive in all

Newline  == 0
Bytes    == {1, 2}     \* any other byte; two, to tell them apart
Overflow == "overflow"

VARIABLES
  arrived,            \* history: all bytes of the chunks so far
  data,               \* what push has still to take of the chunk
  buf, discarding, overflowEmitted,
  out                 \* history: frames delivered and overflows told

vars == << arrived, data, buf, discarding, overflowEmitted, out >>

\* What the proofs assume of the limits.
SoundFrames == MaxBytes \in Nat /\ MaxInput \in Nat

Init ==
  /\ arrived = << >> /\ data = << >> /\ buf = << >> /\ out = << >>
  /\ discarding = FALSE /\ overflowEmitted = FALSE

Newlines(s) == {n \in DOMAIN s : s[n] = Newline}
FirstNl(s)  == CHOOSE n \in Newlines(s) : \A m \in Newlines(s) : n <= m
After(s, n) == SubSeq(s, n + 1, Len(s))

Deliver(frame) == out' = IF frame = << >> THEN out ELSE Append(out, frame)

\* The stream's next chunk, once the last one was pushed to its end.
Chunk ==
  /\ data = << >> /\ Len(arrived) < MaxInput
  /\ \E n \in 1..(MaxInput - Len(arrived)) : data' \in [1..n -> Bytes \cup {Newline}]
  /\ arrived' = arrived \o data'
  /\ UNCHANGED << buf, discarding, overflowEmitted, out >>

\* Discarding: up to the newline, which ends it.
Discard ==
  /\ data # << >> /\ discarding
  /\ IF Newlines(data) = {}
     THEN data' = << >> /\ UNCHANGED << buf, discarding, overflowEmitted >>
     ELSE /\ data' = After(data, FirstNl(data))
          /\ discarding' = FALSE /\ overflowEmitted' = FALSE /\ buf' = << >>
  /\ UNCHANGED << arrived, out >>

\* The buffer is full, and the frame ends exactly there.
FullFrame ==
  /\ data # << >> /\ ~discarding /\ Len(buf) = MaxBytes /\ Head(data) = Newline
  /\ Deliver(buf)
  /\ buf' = << >> /\ data' = Tail(data)
  /\ UNCHANGED << arrived, discarding, overflowEmitted >>

\* Mutant: the flag that one overflow was told of outlives the frame.
EmitOverflow_Sticky ==
  /\ data # << >> /\ ~discarding /\ Len(buf) = MaxBytes /\ Head(data) # Newline
  /\ out' = IF overflowEmitted THEN out ELSE Append(out, Overflow)
  /\ buf' = << >>
  /\ overflowEmitted' = TRUE
  /\ IF Newlines(data) = {}
     THEN data' = << >> /\ discarding' = TRUE
     ELSE data' = After(data, FirstNl(data)) /\ discarding' = FALSE
  /\ UNCHANGED arrived

(***************************************************************************)
(* emitOverflowAndDiscard: told once, and the rest of the chunk is looked  *)
(* through for the newline at once.                                        *)
(***************************************************************************)
EmitOverflow ==
  /\ data # << >> /\ ~discarding /\ Len(buf) = MaxBytes /\ Head(data) # Newline
  /\ out' = IF overflowEmitted THEN out ELSE Append(out, Overflow)
  /\ buf' = << >>
  /\ IF Newlines(data) = {}
     THEN data' = << >> /\ discarding' = TRUE /\ overflowEmitted' = TRUE
     ELSE data' = After(data, FirstNl(data)) /\ discarding' = FALSE /\ overflowEmitted' = FALSE
  /\ UNCHANGED arrived

\* Room is left: a frame that ends within it, or as much of it as fits.
Take ==
  LET room  == MaxBytes - Len(buf)
      slice == IF Len(data) <= room THEN data ELSE SubSeq(data, 1, room)
  IN  /\ data # << >> /\ ~discarding /\ room > 0
      /\ IF Newlines(slice) # {}
         THEN /\ Deliver(buf \o SubSeq(slice, 1, FirstNl(slice) - 1))
              /\ buf' = << >> /\ data' = After(data, FirstNl(slice))
         ELSE /\ buf' = buf \o slice /\ data' = After(data, Len(slice))
              /\ UNCHANGED out
      /\ UNCHANGED << arrived, discarding, overflowEmitted >>

Next == Chunk \/ Discard \/ FullFrame \/ EmitOverflow \/ Take

-----------------------------------------------------------------------------
(***************************************************************************)
(* What the bytes mean, whatever their chunks: each line is one frame, or  *)
(* one overflow if it is too long; so is the unfinished last line as soon  *)
(* as it is.                                                               *)
(***************************************************************************)
Told(s) ==
  IF Len(s.line) > MaxBytes THEN Append(s.told, Overflow)
  ELSE IF s.line = << >> THEN s.told ELSE Append(s.told, s.line)

ReadByte(s, b) ==
  IF b = Newline THEN [told |-> Told(s), line |-> << >>] ELSE [s EXCEPT !.line = Append(@, b)]

\* What was told before each byte, and the line that it continues.
Read(bytes) ==
  LET s[n \in 0..Len(bytes)] ==
        IF n = 0 THEN [told |-> << >>, line |-> << >>] ELSE ReadByte(s[n - 1], bytes[n])
  IN  s

Meaning(bytes) ==
  LET end == Read(bytes)[Len(bytes)]
  IN  IF Len(end.line) > MaxBytes THEN Append(end.told, Overflow) ELSE end.told

(***************************************************************************)
(* Once a chunk is pushed, exactly the frames and overflows were told that *)
(* the bytes so far mean: none lost, joined, repeated or cut by the way    *)
(* they were chunked, and the server answers again after an overflow.      *)
(***************************************************************************)
FramingExact == data = << >> => out = Meaning(arrived)

\* Never more than the limit is retained of a frame, or of its remainder.
RetainedBounded == Len(buf) <= MaxBytes /\ (discarding => buf = << >>)
=============================================================================
