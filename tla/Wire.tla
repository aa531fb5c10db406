-------------------------------- MODULE Wire --------------------------------
(***************************************************************************)
(* crates/muxtop-proto/src/frame.rs and wire.rs: messages as frames on a   *)
(* byte stream that can be cut anywhere.                                   *)
(*                                                                         *)
(* A byte is a digit of a small base, so that the header's places and the  *)
(* caps are all reached.  bincode is external: a body is written as its    *)
(* length and its bytes, and the decoder ignores what follows them.        *)
(***************************************************************************)
EXTENDS Integers, Sequences, SequencesExt

CONSTANTS Base,       \* a byte is 0..Base - 1
          MaxFrame,   \* MAX_FRAME_SIZE
          MaxHello,   \* the payload cap of the read before authentication
          Bodies,     \* the bodies messages have
          MaxWrites   \* bound: writes on one connection

HeaderSize == 4

ASSUME WireAssumption ==
  /\ Base \in Nat \ {0, 1} /\ MaxFrame \in 1..(Base * Base * Base * Base - 1) /\ MaxHello \in Nat
  /\ MaxWrites \in Nat
  /\ \A b \in Bodies : b \in Seq(0..(Base - 1)) /\ Len(b) < Base

VARIABLES stream,   \* bytes in flight
          open,     \* the peer may still write
          sent,     \* history: what the peer's writes put on the wire
          starts,   \* history: the bytes written before each of them, and in all
          cap,      \* the reader's max_payload
          reader,   \* where the reader is: [at, len, type]
          got       \* messages the reader has returned

wireVars == <<stream, open, sent, starts, cap, reader, got>>

MSG_SNAPSHOT  == 1
MSG_HEARTBEAT == 2
MSG_ERROR     == 3
MSG_HELLO     == 4
MSG_WELCOME   == 5

Kinds == {MSG_SNAPSHOT, MSG_HEARTBEAT, MSG_ERROR, MSG_HELLO, MSG_WELCOME}

Foreign == [kind |-> 0, body |-> <<>>]

Ready == [at |-> "header", len |-> 0, type |-> 0]

WireInit ==
  /\ stream = <<>> /\ open = TRUE /\ sent = <<>> /\ starts = <<0>> /\ got = <<>>
  /\ cap \in {MaxHello, MaxFrame - 1}
  /\ reader = Ready

-----------------------------------------------------------------------------
(* wire.rs                                                                 *)

\* encode_to_vec and decode_from_slice
Encode(body) == <<Len(body)>> \o body

Decodes(payload) == payload # <<>> /\ Len(payload) > payload[1]

Decode(payload) == SubSeq(payload, 2, 1 + payload[1])

\* to_frame and encode_snapshot_ref: each message has its own discriminant.
ToFrame(m) == [type |-> m.kind, payload |-> Encode(m.body)]

\* from_frame
FromFrame(f) ==
  IF f.type \notin Kinds THEN [result |-> "unknown_type"]
  ELSE IF ~Decodes(f.payload) THEN [result |-> "decode"]
  ELSE [result |-> "ok", message |-> [kind |-> f.type, body |-> Decode(f.payload)]]

-----------------------------------------------------------------------------
(* frame.rs                                                                *)

\* to_be_bytes and from_be_bytes
ToBe(n) ==
  LET high == n \div Base
      top  == high \div Base
  IN  <<(top \div Base) % Base, top % Base, high % Base, n % Base>>

FromBe(h) == ((h[1] * Base + h[2]) * Base + h[3]) * Base + h[4]

ContentLen(f) == 1 + Len(f.payload)

EncodeFrame(f) == ToBe(ContentLen(f)) \o <<f.type>> \o f.payload

\* decode_frame: the first frame of a buffer and what it takes, or why there is
\* none.
DecodeFrame(buf) ==
  LET content == FromBe(SubSeq(buf, 1, HeaderSize))
      total   == HeaderSize + content
  IN  IF Len(buf) < HeaderSize THEN [result |-> "incomplete"]
      ELSE IF content > MaxFrame THEN [result |-> "too_large"]
      ELSE IF Len(buf) < total \/ content = 0 THEN [result |-> "incomplete"]
      ELSE [result |-> "ok", used |-> total,
            frame |-> [type |-> buf[HeaderSize + 1],
                       payload |-> SubSeq(buf, HeaderSize + 2, total)]]

\* write_frame: a frame over the cap is refused and the writer gives up.
WriteFrame(m) ==
  LET f   == ToFrame(m)
      fits == ContentLen(f) <= MaxFrame
  IN  /\ open /\ Len(sent) < MaxWrites
      /\ stream' = IF fits THEN stream \o EncodeFrame(f) ELSE stream
      /\ sent' = IF fits THEN Append(sent, m) ELSE sent
      /\ starts' = IF fits THEN Append(starts, Last(starts) + Len(EncodeFrame(f))) ELSE starts
      /\ open' = fits
      /\ UNCHANGED <<cap, reader, got>>

\* A peer that speaks something else: a header and a byte of its own.
WriteForeign(n, byte) ==
  /\ open /\ Len(sent) < MaxWrites
  /\ stream' = stream \o ToBe(n) \o <<byte>>
  /\ sent' = Append(sent, Foreign)
  /\ starts' = Append(starts, Last(starts) + HeaderSize + 1)
  /\ open' = FALSE
  /\ UNCHANGED <<cap, reader, got>>

\* The connection is lost: the bytes up to n arrive, the others do not.
Cut(n) ==
  /\ open \/ n < Len(stream)
  /\ open' = FALSE
  /\ stream' = SubSeq(stream, 1, n)
  /\ UNCHANGED <<sent, starts, cap, reader, got>>

Stop(why) ==
  /\ reader' = [reader EXCEPT !.at = why]
  /\ UNCHANGED <<stream, open, sent, starts, cap, got>>

Take(n) == stream' = SubSeq(stream, n + 1, Len(stream))

\* Mutant: the cap counts the type byte.
RefuseByContent(content) ==
  IF content > MaxFrame THEN "too_large"
  ELSE IF content = 0 THEN "incomplete"
  ELSE IF content > cap THEN "too_large"
  ELSE "none"

\* What a length is refused for, before anything is allocated for it.
Refuse(content) ==
  IF content > MaxFrame THEN "too_large"
  ELSE IF content = 0 THEN "incomplete"
  ELSE IF content - 1 > cap THEN "too_large"
  ELSE "none"

\* read_frame_with_max_payload, one read_exact at a time.  An end of stream in
\* the header is a clean end, one later is an error.
ReadHeader ==
  LET content == FromBe(SubSeq(stream, 1, HeaderSize))
  IN  /\ reader.at = "header"
      /\ \/ /\ Len(stream) >= HeaderSize
            /\ Refuse(content) = "none"
            /\ Take(HeaderSize)
            /\ reader' = [reader EXCEPT !.at = "type", !.len = content - 1]
            /\ UNCHANGED <<open, sent, starts, cap, got>>
         \/ /\ Len(stream) >= HeaderSize
            /\ Refuse(content) # "none"
            /\ Stop(Refuse(content))
         \/ /\ Len(stream) < HeaderSize /\ ~open
            /\ Stop("eof")

ReadType ==
  /\ reader.at = "type"
  /\ \/ /\ stream # <<>>
        /\ Take(1)
        /\ reader' = [reader EXCEPT !.at = "payload", !.type = stream[1]]
        /\ UNCHANGED <<open, sent, starts, cap, got>>
     \/ /\ stream = <<>> /\ ~open
        /\ Stop("io")

\* The frame is complete, and its receiver turns it into a message.
ReadPayload ==
  LET m == FromFrame([type |-> reader.type, payload |-> SubSeq(stream, 1, reader.len)])
  IN  /\ reader.at = "payload"
      /\ \/ /\ Len(stream) >= reader.len
            /\ Take(reader.len)
            /\ got' = IF m.result = "ok" THEN Append(got, m.message) ELSE got
            /\ reader' = IF m.result = "ok" THEN Ready ELSE [reader EXCEPT !.at = m.result]
            /\ UNCHANGED <<open, sent, starts, cap>>
         \/ /\ Len(stream) < reader.len /\ ~open
            /\ Stop("io")

WireNext ==
  \/ \E k \in Kinds, b \in Bodies : WriteFrame([kind |-> k, body |-> b])
  \/ \E n \in {0, 1, MaxFrame, MaxFrame + 1}, byte \in {0, MSG_HELLO} : WriteForeign(n, byte)
  \/ \E n \in 0..Len(stream) : Cut(n)
  \/ ReadHeader \/ ReadType \/ ReadPayload

-----------------------------------------------------------------------------

\* The message is over the reader's own cap.
Oversized(m) == Len(Encode(m.body)) > cap

\* However the bytes arrive and wherever the connection is cut, the reader
\* returns the messages that were sent, whole, in order and none twice.  Between
\* two muxtops it never meets a frame it cannot read, and it refuses a length
\* only for a message over its own cap.  The slice decoder finds a frame where,
\* and only where, the reader would.
MessagesArriveWhole ==
  /\ Len(got) <= Len(sent) /\ \A k \in DOMAIN got : got[k] = sent[k] /\ got[k] # Foreign
  /\ \A k \in DOMAIN got : ~Oversized(got[k])
  /\ Foreign \notin Range(sent) =>
       /\ reader.at \notin {"incomplete", "decode", "unknown_type"}
       /\ reader.at = "too_large" => Oversized(sent[Len(got) + 1])
  /\ reader.at = "header" /\ cap = MaxFrame - 1 =>
       LET content == FromBe(SubSeq(stream, 1, HeaderSize))
           whole   == Len(stream) >= HeaderSize + content
       IN  DecodeFrame(stream).result = "ok"
             <=> Len(stream) >= HeaderSize /\ Refuse(content) = "none" /\ whole
=============================================================================
