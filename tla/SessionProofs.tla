--------------------------- MODULE SessionProofs ---------------------------
(***************************************************************************)
(* A run of the muxtop binary, for any backoff bounds and channel size:    *)
(* the terminal it gives back and the frame it shows.                      *)
(* And the frames of its connection, for any byte, cap and message: they   *)
(* are the channel of messages that both ends take them for.               *)
(***************************************************************************)
EXTENDS Session, Wire, SequenceTheorems, TLAPS

AppStates == [running : BOOLEAN, dirty : BOOLEAN, draw : BOOLEAN]

Left == {"off", "returned", "panicked"}

\* The TUI thread is off until main starts it, and main goes on to cancel, join
\* and exit only without it.
Handover ==
  /\ main = "start" => ui = "off"
  /\ main # "tui" => ui \in Left

\* The modes that may be on while init_terminal goes from call to call, and none
\* afterwards if none refused to be taken back.  In the loop nothing is claimed: a
\* panicking task may take modes back under the TUI.
TermInv ==
  /\ term \subseteq Modes
  /\ ui \in {"off", "init"} => term = {}
  /\ ui = "alt" => term \subseteq {"raw"}
  /\ ui = "mouse" => term \subseteq {"raw", "alt"}
  /\ ui = "backend" => term \subseteq {"raw", "alt", "mouse"}
  /\ ui \in {"returned", "panicked"} /\ ~failed => term = {}

\* Where a change that is not on screen yet is remembered: in needs_redraw until
\* the top of the loop takes it, in should_draw from there to the drawing.
RedrawInv ==
  /\ app \in AppStates
  /\ ui \in {"off", "init", "alt", "mouse", "backend"} => app.dirty
  /\ ui = "top" => (stale => app.dirty)
  /\ ui = "poll" => (stale => app.draw)
  /\ ui = "draw" => (stale => app.draw \/ app.dirty)

IInv == Handover /\ TermInv /\ RedrawInv

LEMMA InvInit == SessionInit => IInv
  BY DEF SessionInit, IInv, Handover, TermInv, RedrawInv, AppStates, Left

LEMMA InvStep == IInv /\ [SessionNext]_allVars => IInv'
<1> SUFFICES ASSUME IInv, [SessionNext]_allVars PROVE IInv'
  OBVIOUS
<1> USE DEF IInv, Handover, TermInv, RedrawInv, Left
<1>1. CASE StartUp
  BY <1>1 DEF StartUp, termVars
<1>2. CASE BenchTakes \/ LocalSnapshot \/ RemoteTask \/ LocalHangs
  BY <1>2 DEF BenchTakes, LocalSnapshot, RemoteTask, LocalHangs, sessionVars, tuiVars, termVars
<1>3. CASE BenchEnds
  BY <1>3 DEF BenchEnds, tuiVars, termVars
<1>4. CASE TuiReturned
  BY <1>4 DEF TuiReturned, tuiVars, termVars
<1>5. CASE MainCancels \/ MainJoins
  BY <1>5 DEF MainCancels, MainJoins, tuiVars, termVars
<1>6. CASE InitTerminal
  <2>1. CASE EnableRawMode
    BY <2>1 DEF EnableRawMode, Enter, LeaveTui, termVars, Modes
  <2>2. CASE EnterAlternateScreen
    BY <2>2 DEF EnterAlternateScreen, Enter, LeaveTui, UndoneOf, termVars, Modes
  <2>3. CASE EnableMouseCapture
    BY <2>3 DEF EnableMouseCapture, Enter, termVars, Modes
  <2>4. CASE NewTerminal
    BY <2>4 DEF NewTerminal, LeaveTui, UndoneOf, termVars, Modes
  <2> QED
    BY <1>6, <2>1, <2>2, <2>3, <2>4 DEF InitTerminal
<1>7. CASE LoopHead
  BY <1>7 DEF LoopHead, AppStates, termVars
<1>8. CASE LoopEnds \/ LoopFails \/ TuiPanics
  <2>1. \E undone, how : how \in {"returned", "panicked"} /\ LeaveTui(how, undone, Modes)
    BY <1>8 DEF LoopEnds, LoopFails, TuiPanics
  <2> QED
    BY <1>8, <2>1 DEF LeaveTui, LoopEnds, LoopFails, TuiPanics
<1>9. CASE PollSnapshot
  BY <1>9 DEF PollSnapshot, AppStates, termVars
<1>10. CASE PollInput
  BY <1>10 DEF PollInput, AppStates, termVars
<1>11. CASE PollTick
  BY <1>11 DEF PollTick, AppStates, termVars
<1>12. CASE Draw
  BY <1>12 DEF Draw, AppStates, Modes
<1>13. CASE LocalEnds
  BY <1>13 DEF LocalEnds, tuiVars, termVars
<1>14. CASE TaskPanics
  BY <1>14 DEF TaskPanics
<1>15. CASE TerminalGone
  BY <1>15 DEF TerminalGone, tuiVars, termVars
<1>16. CASE UNCHANGED allVars
  BY <1>16 DEF allVars, sessionVars, tuiVars, termVars
<1> QED
  BY <1>1, <1>2, <1>3, <1>4, <1>5, <1>6, <1>7, <1>8, <1>9, <1>10, <1>11, <1>12, <1>13,
     <1>14, <1>15, <1>16 DEF SessionNext, MainThread, TuiThread

LEMMA Invariance == SessionSpec => []IInv
  BY InvInit, InvStep, PTL DEF SessionSpec

\* Whatever way the program ends, at whatever call of init_terminal, point of the
\* event loop or of a background task, the terminal keeps a mode only if the last
\* calls to take it back failed (restore_terminal, TerminalGuard, the panic hook).
THEOREM TerminalRestored == SessionSpec => []ExitRestores
<1>1. IInv => ExitRestores
  BY DEF IInv, Handover, TermInv, Left, ExitRestores
<1> QED
  BY <1>1, Invariance, PTL

\* Repainting only when a redraw is armed never leaves an old frame on screen
\* (run, poll_event, needs_redraw).
THEOREM FrameCurrent == SessionSpec => []ScreenCurrent
<1>1. IInv => ScreenCurrent
  BY DEF IInv, RedrawInv, ScreenCurrent
<1> QED
  BY <1>1, Invariance, PTL

-----------------------------------------------------------------------------
(* The wire.                                                               *)

\* What one muxtop writes to another, and the bytes it becomes.
Messages == [kind : Kinds, body : Bodies]
FrameOf(m) == EncodeFrame(ToFrame(m))

Places == {"header", "type", "payload", "eof", "io", "incomplete", "too_large", "decode", "unknown_type"}

WireType ==
  /\ stream \in Seq(Nat) /\ open \in BOOLEAN
  /\ sent \in Seq(Messages \cup {Foreign}) /\ got \in Seq(Messages)
  /\ starts \in Seq(Nat) /\ Len(starts) = Len(sent) + 1
  /\ cap \in {MaxHello, MaxFrame - 1}
  /\ reader \in [at : Places, len : Nat, type : Nat]

\* The bytes written so far.
End == starts[Len(sent) + 1]

\* The writes follow each other without a gap; what is no frame is the last.
Layout ==
  /\ \A k \in 1..Len(starts) : starts[k] <= End
  /\ \A k \in 1..Len(sent) :
       IF sent[k] = Foreign THEN starts[k + 1] = starts[k] + 5 /\ k = Len(sent) /\ ~open
       ELSE starts[k + 1] = starts[k] + 6 + Len(sent[k].body) /\ 2 + Len(sent[k].body) <= MaxFrame

\* The messages returned are the first ones sent.
Progress ==
  /\ Len(got) <= Len(sent)
  /\ \A k \in 1..Len(got) : got[k] = sent[k] /\ got[k] # Foreign /\ ~Oversized(got[k])

\* Where in the written bytes the reader is: a header and a type byte take it 4
\* and 5 bytes into the message it is reading.
Reading == reader.at \in {"header", "type", "payload"}
Into == IF reader.at = "type" THEN 4 ELSE IF reader.at = "payload" THEN 5 ELSE 0
Pos == starts[Len(got) + 1] + Into

\* The bytes in str, which starts at pos, are those of the frames written there.
Carries(str, pos) ==
  \A k \in 1..Len(sent) : sent[k] # Foreign =>
    \A i \in 1..(6 + Len(sent[k].body)) :
      starts[k] + i - pos \in 1..Len(str) => str[starts[k] + i - pos] = FrameOf(sent[k])[i]

\* Nothing between the reader and the writer is missing, while it is open; what a
\* cut loses is at the end.
Position ==
  Reading =>
    /\ Pos + Len(stream) <= End /\ (open => Pos + Len(stream) = End)
    /\ Carries(stream, Pos)

\* What the reader knows of the message it is in is true of it.
Current ==
  reader.at \in {"type", "payload"} =>
    /\ Len(got) < Len(sent)
    /\ LET m == sent[Len(got) + 1] IN
       m # Foreign => /\ reader.len = 1 + Len(m.body) /\ ~Oversized(m)
                      /\ reader.at = "payload" => reader.type = m.kind

\* Between two muxtops a reader stops early only at a message over its cap.
Refusals ==
  (\A k \in 1..Len(sent) : sent[k] # Foreign) =>
       /\ reader.at \notin {"incomplete", "decode", "unknown_type"}
       /\ reader.at = "too_large" => Len(got) < Len(sent) /\ Oversized(sent[Len(got) + 1])

WireInv == WireType /\ Layout /\ Progress /\ Position /\ Current /\ Refusals

\* Dividing by the base and putting back the digit.
LEMMA Digit ==
  ASSUME NEW n \in Nat
  PROVE  /\ n \div Base \in Nat /\ n % Base \in 0..(Base - 1)
         /\ n = (n \div Base) * Base + (n % Base)
  BY WireAssumption

\* A number below a multiple of the base loses a factor when it is divided.
LEMMA Shorter ==
  ASSUME NEW n \in Nat, NEW x \in Nat, n < x * Base
  PROVE  n \div Base < x
<1>1. /\ n \div Base \in Nat /\ n % Base \in 0..(Base - 1)
      /\ n = (n \div Base) * Base + (n % Base)
  BY Digit
<1> DEFINE q == n \div Base
<1>2. q \in Nat /\ q * Base <= n
  BY <1>1, WireAssumption
<1> HIDE DEF q
<1>3. ASSUME q >= x PROVE FALSE
  <2>1. q * Base >= x * Base
    BY <1>2, <1>3, WireAssumption
  <2> QED
    BY <1>2, <2>1, WireAssumption
<1>4. q < x
  BY <1>2, <1>3
<1> QED
  BY <1>4 DEF q

\* from_be_bytes gives back what to_be_bytes was given, up to MAX_FRAME_SIZE.
LEMMA HeaderRoundTrip ==
  ASSUME NEW n \in Nat, n <= MaxFrame
  PROVE  FromBe(ToBe(n)) = n
<1> DEFINE a == n \div Base
           b == a \div Base
           c == b \div Base
<1>1. a \in Nat /\ b \in Nat /\ c \in Nat
  BY Digit
<1>2. n = a * Base + (n % Base) /\ a = b * Base + (a % Base) /\ b = c * Base + (b % Base)
  BY <1>1, Digit
<1>3. n < Base * Base * Base * Base /\ Base \in Nat /\ Base * Base \in Nat /\ Base * Base * Base \in Nat
  BY WireAssumption
<1>4. a < Base * Base * Base
  BY <1>3, Shorter
<1>5. b < Base * Base
  BY <1>1, <1>3, <1>4, Shorter
<1>6. c < Base
  BY <1>1, <1>3, <1>5, Shorter
<1>7. c % Base = c
  BY <1>1, <1>6, WireAssumption
<1>8. FromBe(ToBe(n)) = (((c % Base) * Base + (b % Base)) * Base + (a % Base)) * Base + (n % Base)
  BY DEF FromBe, ToBe
<1> QED
  BY <1>2, <1>7, <1>8

\* A sequence over a set is one over every larger set.
LEMMA SeqOfMore ==
  ASSUME NEW S, NEW T, S \subseteq T, NEW s \in Seq(S)
  PROVE  s \in Seq(T)
<1>1. Len(s) \in Nat /\ s \in [1..Len(s) -> S]
  OBVIOUS
<1>2. s \in [1..Len(s) -> T]
  BY <1>1
<1>3. \A n \in Nat : \A x \in [1..n -> T] : x \in Seq(T)
  OBVIOUS
<1> QED
  BY <1>1, <1>2, <1>3

\* What a concatenation holds, and where.
LEMMA Joined ==
  ASSUME NEW s \in Seq(Nat), NEW t \in Seq(Nat)
  PROVE  /\ s \o t \in Seq(Nat) /\ Len(s \o t) = Len(s) + Len(t)
         /\ \A i \in 1..Len(s) : (s \o t)[i] = s[i]
         /\ \A i \in 1..Len(t) : (s \o t)[Len(s) + i] = t[i]
<1>1. /\ s \o t \in Seq(Nat) /\ Len(s \o t) = Len(s) + Len(t)
      /\ \A i \in 1..(Len(s) + Len(t)) : (s \o t)[i] = IF i <= Len(s) THEN s[i] ELSE t[i - Len(s)]
  BY ConcatProperties
<1>2. Len(s) \in Nat /\ Len(t) \in Nat
  OBVIOUS
<1>3. ASSUME NEW i \in 1..Len(t) PROVE (s \o t)[Len(s) + i] = t[i]
  <2>1. Len(s) + i \in 1..(Len(s) + Len(t)) /\ ~(Len(s) + i <= Len(s)) /\ (Len(s) + i) - Len(s) = i
    BY <1>2
  <2> QED
    BY <1>1, <2>1
<1>4. ASSUME NEW i \in 1..Len(s) PROVE (s \o t)[i] = s[i]
  BY <1>1, <1>2
<1> QED
  BY <1>1, <1>3, <1>4

\* The header of any length is four bytes.
LEMMA HeaderBytes ==
  ASSUME NEW n \in Nat
  PROVE  ToBe(n) \in Seq(Nat) /\ Len(ToBe(n)) = 4
<1>1. \A x \in Nat : x % Base \in Nat /\ x \div Base \in Nat
  BY Digit
<1>2. \A x, y, z, w \in Nat : <<x, y, z, w>> \in Seq(Nat) /\ Len(<<x, y, z, w>>) = 4
  OBVIOUS
<1> QED
  BY <1>1, <1>2 DEF ToBe

\* What is where in the frame of a message.
LEMMA FrameFacts ==
  ASSUME NEW m \in Messages
  PROVE  LET n == Len(m.body) IN
         /\ n \in Nat /\ m.body \in Seq(Nat) /\ m.kind \in Kinds
         /\ FrameOf(m) \in Seq(Nat) /\ Len(FrameOf(m)) = 6 + n
         /\ ContentLen(ToFrame(m)) = 2 + n
         /\ \A i \in 1..4 : FrameOf(m)[i] = ToBe(2 + n)[i]
         /\ FrameOf(m)[5] = m.kind
         /\ FrameOf(m)[6] = n
         /\ \A i \in 1..n : FrameOf(m)[6 + i] = m.body[i]
<1> DEFINE b == m.body
           n == Len(b)
           h == ToBe(2 + n)
           p == <<n>> \o b
           k == <<m.kind>>
           t == h \o k
<1>1. b \in Seq(Nat) /\ n \in Nat /\ m.kind \in Kinds /\ m.kind \in Nat
  <2>1. b \in Bodies /\ m.kind \in Kinds
    BY DEF Messages
  <2>2. b \in Seq(0..(Base - 1)) /\ 0..(Base - 1) \subseteq Nat
    BY <2>1, WireAssumption
  <2>3. m.kind \in Nat
    BY <2>1 DEF Kinds, MSG_SNAPSHOT, MSG_HEARTBEAT, MSG_ERROR, MSG_HELLO, MSG_WELCOME
  <2>4. b \in Seq(Nat)
    BY <2>2, SeqOfMore
  <2> QED
    BY <2>1, <2>3, <2>4
<1>2. h \in Seq(Nat) /\ Len(h) = 4
  BY <1>1, HeaderBytes
<1>3. /\ p \in Seq(Nat) /\ Len(p) = 1 + n /\ p[1] = n
      /\ \A i \in 1..n : p[1 + i] = b[i]
  BY <1>1
<1>4. k \in Seq(Nat) /\ Len(k) = 1 /\ k[1] = m.kind
  BY <1>1
<1>5. ContentLen(ToFrame(m)) = 2 + n /\ FrameOf(m) = t \o p
  <2>1. ToFrame(m).type = m.kind /\ ToFrame(m).payload = p
    BY DEF ToFrame, Encode
  <2>2. ContentLen(ToFrame(m)) = 1 + Len(p)
    BY <2>1 DEF ContentLen
  <2>3. ContentLen(ToFrame(m)) = 2 + n
    BY <1>1, <1>3, <2>2
  <2>4. \A f : EncodeFrame(f) = ToBe(ContentLen(f)) \o <<f.type>> \o f.payload
    BY DEF EncodeFrame
  <2> QED
    BY <2>1, <2>3, <2>4 DEF FrameOf
<1> HIDE DEF b, n, h, p, k
<1>6. /\ t \in Seq(Nat) /\ Len(t) = 5
      /\ \A i \in 1..4 : t[i] = h[i]
      /\ t[5] = m.kind
  <2>1. /\ t \in Seq(Nat) /\ Len(t) = Len(h) + Len(k)
        /\ \A i \in 1..Len(h) : t[i] = h[i]
        /\ \A i \in 1..Len(k) : t[Len(h) + i] = k[i]
    BY <1>2, <1>4, Joined
  <2>2. 1 \in 1..Len(k) /\ Len(h) + 1 = 5
    BY <1>2, <1>4
  <2>3. t[5] = k[1]
    BY <2>1, <2>2
  <2> QED
    BY SMTT(30), <1>2, <1>4, <2>1, <2>3
<1> HIDE DEF t
<1> DEFINE f == t \o p
<1>7. /\ f \in Seq(Nat) /\ Len(f) = Len(t) + Len(p)
      /\ \A i \in 1..Len(t) : f[i] = t[i]
      /\ \A i \in 1..Len(p) : f[Len(t) + i] = p[i]
  BY <1>3, <1>6, Joined
<1> HIDE DEF f
<1>8. \A i \in 1..4 : f[i] = h[i]
  <2>1. \A i \in 1..4 : i \in 1..Len(t)
    BY <1>6
  <2> QED
    BY <1>6, <1>7, <2>1
<1>9. f[5] = m.kind /\ f[6] = n
  <2>1. 5 \in 1..Len(t) /\ 1 \in 1..Len(p) /\ Len(t) + 1 = 6
    BY <1>1, <1>3, <1>6
  <2> QED
    BY <1>3, <1>6, <1>7, <2>1
<1>10. ASSUME NEW i \in 1..n PROVE f[6 + i] = b[i]
  <2>1. 1 + i \in 1..Len(p) /\ Len(t) + (1 + i) = 6 + i
    BY <1>1, <1>3, <1>6
  <2> QED
    BY <1>3, <1>7, <2>1
<1>11. Len(f) = 6 + n
  BY <1>1, <1>3, <1>6, <1>7
<1>12. FrameOf(m) = f
  BY <1>5 DEF f
<1> QED
  BY <1>1, <1>5, <1>7, <1>8, <1>9, <1>10, <1>11, <1>12 DEF b, n, h

LEMMA NotForeign ==
  /\ \A m \in Messages : m # Foreign
  /\ Foreign.body = <<>>
<1>1. Foreign.kind \notin Kinds /\ Foreign.body = <<>>
  BY DEF Foreign, Kinds, MSG_SNAPSHOT, MSG_HEARTBEAT, MSG_ERROR, MSG_HELLO, MSG_WELCOME
<1> QED
  BY <1>1 DEF Messages

LEMMA OversizedIs ==
  ASSUME NEW m \in Messages
  PROVE  Oversized(m) <=> 1 + Len(m.body) > cap
<1>1. m.body \in Seq(Nat) /\ Len(m.body) \in Nat
  BY FrameFacts
<1>2. Len(Encode(m.body)) = 1 + Len(m.body)
  BY <1>1 DEF Encode
<1> QED
  BY <1>2 DEF Oversized

\* A sequence without its first n elements.
LEMMA Rest ==
  ASSUME NEW s \in Seq(Nat), NEW n \in 0..Len(s)
  PROVE  LET r == SubSeq(s, n + 1, Len(s)) IN
         /\ r \in Seq(Nat) /\ Len(r) = Len(s) - n
         /\ \A j \in 1..Len(r) : r[j] = s[j + n]
<1>1. Len(s) \in Nat /\ n \in Nat /\ n <= Len(s)
  OBVIOUS
<1> DEFINE r == SubSeq(s, n + 1, Len(s))
<1>2. \A i \in (n + 1)..Len(s) : s[i] \in Nat
  BY <1>1, ElementOfSeq
<1>3. /\ r \in Seq(Nat) /\ Len(r) = IF n + 1 <= Len(s) THEN Len(s) - (n + 1) + 1 ELSE 0
      /\ \A i \in 1..(Len(s) - (n + 1) + 1) : r[i] = s[(n + 1) + i - 1]
  BY <1>1, <1>2, SubSeqProperties
<1> HIDE DEF r
<1>4. Len(r) = Len(s) - n
  BY <1>1, <1>3
<1>5. ASSUME NEW j \in 1..Len(r) PROVE r[j] = s[j + n]
  <2>1. j \in 1..(Len(s) - (n + 1) + 1) /\ (n + 1) + j - 1 = j + n
    BY <1>1, <1>4
  <2> QED
    BY <1>3, <2>1
<1> QED
  BY <1>3, <1>4, <1>5 DEF r

\* The first n elements of a sequence.
LEMMA Beginning ==
  ASSUME NEW s \in Seq(Nat), NEW n \in 0..Len(s)
  PROVE  LET r == SubSeq(s, 1, n) IN
         /\ r \in Seq(Nat) /\ Len(r) = n
         /\ \A j \in 1..n : r[j] = s[j]
<1>1. Len(s) \in Nat /\ n \in Nat /\ n <= Len(s)
  OBVIOUS
<1> DEFINE r == SubSeq(s, 1, n)
<1>2. \A i \in 1..n : s[i] \in Nat
  BY <1>1, ElementOfSeq
<1>3. /\ r \in Seq(Nat) /\ Len(r) = IF 1 <= n THEN n - 1 + 1 ELSE 0
      /\ \A i \in 1..(n - 1 + 1) : r[i] = s[1 + i - 1]
  BY <1>1, <1>2, SubSeqProperties
<1> HIDE DEF r
<1>4. Len(r) = n
  BY <1>1, <1>3
<1>5. ASSUME NEW j \in 1..n PROVE r[j] = s[j]
  <2>1. j \in 1..(n - 1 + 1) /\ 1 + j - 1 = j
    BY <1>1
  <2> QED
    BY <1>3, <2>1
<1> QED
  BY <1>3, <1>4, <1>5 DEF r

\* What a sent message is, and where its bytes are.
LEMMA SentFacts ==
  ASSUME WireType, NEW k \in 1..Len(sent)
  PROVE  /\ sent[k] = Foreign \/ sent[k] \in Messages
         /\ starts[k] \in Nat /\ starts[k + 1] \in Nat
         /\ k \in 1..Len(starts) /\ k + 1 \in 1..Len(starts)
<1>1. Len(sent) \in Nat /\ k \in 1..Len(starts) /\ k + 1 \in 1..Len(starts)
  BY DEF WireType
<1>2. sent[k] \in Messages \cup {Foreign}
  BY ElementOfSeq DEF WireType
<1>3. \A j \in 1..Len(starts) : starts[j] \in Nat
  BY ElementOfSeq DEF WireType
<1> QED
  BY <1>1, <1>2, <1>3

LEMMA EndFacts ==
  ASSUME WireType, Progress
  PROVE  /\ End \in Nat /\ Len(sent) \in Nat /\ Len(got) \in Nat /\ Len(stream) \in Nat
         /\ Len(sent) + 1 \in 1..Len(starts) /\ Len(got) + 1 \in 1..Len(starts)
         /\ starts[Len(got) + 1] \in Nat /\ Pos \in Nat /\ Into \in {0, 4, 5}
<1>1. /\ Len(sent) \in Nat /\ Len(got) \in Nat /\ Len(stream) \in Nat
      /\ Len(sent) + 1 \in 1..Len(starts) /\ Len(got) + 1 \in 1..Len(starts)
  BY DEF WireType, Progress
<1>2. \A j \in 1..Len(starts) : starts[j] \in Nat
  BY ElementOfSeq DEF WireType
<1>3. Into \in {0, 4, 5}
  BY DEF Into
<1> QED
  BY <1>1, <1>2, <1>3 DEF End, Pos

\* The stream without what the reader takes carries the same frames.
LEMMA CarriesRest ==
  ASSUME WireType, NEW pos \in Nat, NEW n \in 0..Len(stream), Carries(stream, pos)
  PROVE  Carries(SubSeq(stream, n + 1, Len(stream)), pos + n)
<1> DEFINE r == SubSeq(stream, n + 1, Len(stream))
<1>1. stream \in Seq(Nat) /\ Len(stream) \in Nat
  BY DEF WireType
<1>2. /\ r \in Seq(Nat) /\ Len(r) = Len(stream) - n
      /\ \A j \in 1..Len(r) : r[j] = stream[j + n]
  BY <1>1, Rest
<1> HIDE DEF r
<1> SUFFICES ASSUME NEW k \in 1..Len(sent), sent[k] # Foreign,
                    NEW i \in 1..(6 + Len(sent[k].body)),
                    starts[k] + i - (pos + n) \in 1..Len(r)
             PROVE  r[starts[k] + i - (pos + n)] = FrameOf(sent[k])[i]
  BY DEF Carries, r
<1>3. starts[k] \in Nat /\ sent[k] \in Messages
  BY SentFacts
<1>4. Len(sent[k].body) \in Nat
  BY <1>3, FrameFacts
<1>5. (starts[k] + i - (pos + n)) + n = starts[k] + i - pos
  BY <1>1, <1>3, <1>4
<1>6. starts[k] + i - pos \in 1..Len(stream)
  <2>1. \A x \in 1..(Len(stream) - n) : x + n \in 1..Len(stream)
    BY <1>1
  <2> QED
    BY <1>2, <1>5, <2>1
<1>7. stream[starts[k] + i - pos] = FrameOf(sent[k])[i]
  BY <1>6 DEF Carries
<1> QED
  BY <1>2, <1>5, <1>7

\* And so does the stream that loses its end.
LEMMA CarriesFront ==
  ASSUME WireType, NEW pos \in Nat, NEW n \in 0..Len(stream), Carries(stream, pos)
  PROVE  Carries(SubSeq(stream, 1, n), pos)
<1> DEFINE r == SubSeq(stream, 1, n)
<1>1. stream \in Seq(Nat) /\ Len(stream) \in Nat
  BY DEF WireType
<1>2. /\ r \in Seq(Nat) /\ Len(r) = n
      /\ \A j \in 1..n : r[j] = stream[j]
  BY <1>1, Beginning
<1> HIDE DEF r
<1>3. \A x : x \in 1..n => x \in 1..Len(stream)
  BY <1>1
<1> QED
  BY <1>2, <1>3 DEF Carries, r

\* The reader's next bytes are those of the message it is reading.
LEMMA NextBytes ==
  ASSUME WireInv, Reading, Len(got) < Len(sent), sent[Len(got) + 1] # Foreign
  PROVE  LET m == sent[Len(got) + 1] IN
         /\ m \in Messages /\ 2 + Len(m.body) <= MaxFrame
         /\ starts[Len(got) + 2] = starts[Len(got) + 1] + 6 + Len(m.body)
         /\ \A i \in 1..(6 + Len(m.body)) :
              i - Into \in 1..Len(stream) => stream[i - Into] = FrameOf(m)[i]
<1> DEFINE k == Len(got) + 1
           m == sent[k]
<1>1. /\ Len(got) \in Nat /\ Len(sent) \in Nat /\ Len(stream) \in Nat
      /\ starts[k] \in Nat /\ Into \in {0, 4, 5} /\ Pos = starts[k] + Into
  BY EndFacts DEF WireInv, Pos
<1>2. k \in 1..Len(sent) /\ k + 1 = Len(got) + 2
  BY <1>1
<1>3. m \in Messages
  BY <1>2, SentFacts DEF WireInv
<1>4. Len(m.body) \in Nat
  BY <1>3, FrameFacts
<1>5. starts[k + 1] = starts[k] + 6 + Len(m.body) /\ 2 + Len(m.body) <= MaxFrame
  BY <1>2 DEF WireInv, Layout
<1>6. ASSUME NEW i \in 1..(6 + Len(m.body)), i - Into \in 1..Len(stream)
      PROVE  stream[i - Into] = FrameOf(m)[i]
  <2>1. starts[k] + i - Pos = i - Into
    BY SMTT(30), <1>1, <1>4
  <2>2. Carries(stream, Pos)
    BY DEF WireInv, Position
  <2> QED
    BY <1>2, <1>6, <2>1, <2>2 DEF Carries
<1> QED
  BY <1>2, <1>3, <1>5, <1>6

LEMMA WireStarts == WireInit => WireInv
<1> SUFFICES ASSUME WireInit PROVE WireInv
  OBVIOUS
<1>1. /\ stream = <<>> /\ open = TRUE /\ sent = <<>> /\ starts = <<0>> /\ got = <<>>
      /\ cap \in {MaxHello, MaxFrame - 1} /\ reader = Ready
  BY DEF WireInit
<1>2. Len(sent) = 0 /\ Len(got) = 0 /\ Len(stream) = 0 /\ Len(starts) = 1 /\ starts[1] = 0
  BY <1>1
<1>3. reader.at = "header" /\ reader \in [at : Places, len : Nat, type : Nat]
  <2>1. \A a \in Places : [at |-> a, len |-> 0, type |-> 0] \in [at : Places, len : Nat, type : Nat]
    OBVIOUS
  <2>2. "header" \in Places
    BY DEF Places
  <2>3. reader = [at |-> "header", len |-> 0, type |-> 0]
    BY <1>1 DEF Ready
  <2>4. reader \in [at : Places, len : Nat, type : Nat]
    BY <2>1, <2>2, <2>3
  <2> QED
    BY <2>3, <2>4
<1>4. WireType
  <2>1. starts \in Seq(Nat)
    BY <1>1
  <2> QED
    BY <1>1, <1>2, <1>3, <2>1 DEF WireType
<1>5. Layout /\ Progress /\ Current /\ Refusals
  BY <1>2, <1>3 DEF Layout, Progress, Current, Refusals, End
<1>6. Position
  BY <1>2, <1>3 DEF Position, Pos, Into, End, Carries
<1> QED
  BY <1>4, <1>5, <1>6 DEF WireInv

\* Whatever a writer puts behind the rest.
LEMMA WriteKeeps ==
  ASSUME WireInv, open, NEW x \in Messages \cup {Foreign}, NEW bytes \in Seq(Nat),
         stream' = stream \o bytes, sent' = Append(sent, x),
         starts' = Append(starts, End + Len(bytes)), open' \in BOOLEAN,
         UNCHANGED <<cap, reader, got>>,
         x # Foreign => bytes = FrameOf(x) /\ 2 + Len(x.body) <= MaxFrame,
         x = Foreign => Len(bytes) = 5 /\ ~open'
  PROVE  WireInv'
<1> DEFINE n == Len(sent)
<1>1. /\ End \in Nat /\ n \in Nat /\ Len(got) \in Nat /\ Len(stream) \in Nat /\ Len(bytes) \in Nat
      /\ n + 1 \in 1..Len(starts) /\ Len(got) + 1 \in 1..Len(starts) /\ Len(got) <= n
      /\ Pos \in Nat /\ Len(starts) = n + 1 /\ End = starts[n + 1]
  BY EndFacts DEF WireInv, WireType, Progress, End
<1>2. /\ Len(sent') = n + 1 /\ sent' \in Seq(Messages \cup {Foreign}) /\ sent'[n + 1] = x
      /\ \A k \in 1..n : sent'[k] = sent[k]
  BY AppendProperties DEF WireInv, WireType
<1>3. /\ Len(starts') = n + 2 /\ starts' \in Seq(Nat) /\ starts'[n + 2] = End + Len(bytes)
      /\ \A k \in 1..(n + 1) : starts'[k] = starts[k]
  <2>1. End + Len(bytes) \in Nat /\ starts \in Seq(Nat)
    BY SMTT(30), <1>1 DEF WireInv, WireType
  <2>2. /\ Append(starts, End + Len(bytes)) \in Seq(Nat)
        /\ Len(Append(starts, End + Len(bytes))) = Len(starts) + 1
        /\ \A i \in 1..Len(starts) : Append(starts, End + Len(bytes))[i] = starts[i]
        /\ Append(starts, End + Len(bytes))[Len(starts) + 1] = End + Len(bytes)
    BY <2>1, AppendProperties
  <2>3. Len(starts) = n + 1 /\ Len(starts) + 1 = n + 2
    BY <1>1
  <2> HIDE DEF n
  <2> QED
    BY <2>2, <2>3
<1>4. /\ stream' \in Seq(Nat) /\ Len(stream') = Len(stream) + Len(bytes)
      /\ \A i \in 1..Len(stream) : stream'[i] = stream[i]
      /\ \A i \in 1..Len(bytes) : stream'[Len(stream) + i] = bytes[i]
  BY Joined DEF WireInv, WireType
<1>5. x # Foreign => /\ x \in Messages /\ Len(x.body) \in Nat /\ Len(bytes) = 6 + Len(x.body)
                     /\ bytes = FrameOf(x) /\ 2 + Len(x.body) <= MaxFrame
  BY FrameFacts
<1>6. WireType'
  BY <1>1, <1>2, <1>3, <1>4 DEF WireInv, WireType
<1>7. End' = End + Len(bytes)
  BY <1>1, <1>2, <1>3, SMTT(30) DEF End
<1>8. Layout'
  <2>1. ASSUME NEW k \in 1..Len(starts') PROVE starts'[k] <= End'
    <3>1. CASE k = n + 2
      BY <1>1, <1>3, <1>7, <3>1
    <3>2. CASE k \in 1..(n + 1)
      <4>1. starts[k] <= End /\ starts[k] \in Nat
        BY <1>1, <3>2, ElementOfSeq DEF WireInv, Layout, WireType
      <4> QED
        BY SMTT(30), <1>1, <1>3, <1>7, <3>2, <4>1
    <3> QED
      BY SMTT(30), <1>1, <1>3, <3>1, <3>2
  <2>2. ASSUME NEW k \in 1..Len(sent')
        PROVE  IF sent'[k] = Foreign THEN starts'[k + 1] = starts'[k] + 5 /\ k = Len(sent') /\ ~open'
               ELSE /\ starts'[k + 1] = starts'[k] + 6 + Len(sent'[k].body)
                    /\ 2 + Len(sent'[k].body) <= MaxFrame
    <3>1. CASE k = n + 1
      <4>1. starts'[k] = End /\ starts'[k + 1] = End + Len(bytes) /\ sent'[k] = x
        BY SMTT(30), <1>1, <1>2, <1>3, <3>1
      <4>2. CASE x = Foreign
        BY <1>2, <3>1, <4>1, <4>2
      <4>3. CASE x # Foreign
        <5>1. Len(bytes) = 6 + Len(x.body) /\ Len(x.body) \in Nat /\ 2 + Len(x.body) <= MaxFrame
          BY <1>5, <4>3
        <5>2. End + (6 + Len(x.body)) = End + 6 + Len(x.body)
          <6>1. \A a, b \in Nat : a + (6 + b) = a + 6 + b
            OBVIOUS
          <6> QED
            BY <1>1, <5>1, <6>1
        <5> QED
          BY <4>1, <4>3, <5>1, <5>2
      <4> QED
        BY <4>2, <4>3
    <3>2. CASE k \in 1..n
      <4>1. /\ sent'[k] = sent[k] /\ starts'[k] = starts[k] /\ starts'[k + 1] = starts[k + 1]
        <5>1. k \in 1..(n + 1) /\ k + 1 \in 1..(n + 1)
          BY <1>1, <3>2
        <5> QED
          BY <1>2, <1>3, <3>2, <5>1
      <4>2. sent[k] # Foreign
        BY <3>2 DEF WireInv, Layout
      <4>3. /\ starts[k + 1] = starts[k] + 6 + Len(sent[k].body)
            /\ 2 + Len(sent[k].body) <= MaxFrame
        BY <3>2, <4>2 DEF WireInv, Layout
      <4> QED
        BY <4>1, <4>2, <4>3
    <3> QED
      BY <1>1, <1>2, <3>1, <3>2
  <2> QED
    BY <2>1, <2>2 DEF Layout
<1>9. Progress'
  <2>1. Len(got) <= n + 1
    BY <1>1
  <2>2. \A k \in 1..Len(got) : k \in 1..n
    BY <1>1
  <2> QED
    BY <1>2, <2>1, <2>2 DEF WireInv, Progress, Oversized
<1>10. Pos' = Pos /\ (Reading' <=> Reading)
  BY <1>1, <1>3 DEF Pos, Into, Reading
<1>11. Position'
  <2> SUFFICES ASSUME Reading
               PROVE  /\ Pos + Len(stream') <= End' /\ (open' => Pos + Len(stream') = End')
                      /\ \A k \in 1..Len(sent') : sent'[k] # Foreign =>
                           \A i \in 1..(6 + Len(sent'[k].body)) :
                             starts'[k] + i - Pos \in 1..Len(stream') =>
                               stream'[starts'[k] + i - Pos] = FrameOf(sent'[k])[i]
    BY ZenonT(60), <1>10 DEF Position, Carries, FrameOf, EncodeFrame, ToFrame, ToBe, ContentLen
  <2>1. Pos + Len(stream) = End /\ Carries(stream, Pos)
    BY DEF WireInv, Position
  <2>2. Pos + Len(stream') = End'
    BY <1>1, <1>4, <1>7, <2>1
  <2>3. ASSUME NEW k \in 1..Len(sent'), sent'[k] # Foreign, NEW i \in 1..(6 + Len(sent'[k].body)),
               starts'[k] + i - Pos \in 1..Len(stream')
        PROVE  stream'[starts'[k] + i - Pos] = FrameOf(sent'[k])[i]
    <3>1. CASE k = n + 1
      <4>1. sent'[k] = x /\ starts'[k] = End
        BY <1>1, <1>2, <1>3, <3>1
      <4>2. Len(bytes) = 6 + Len(x.body) /\ bytes = FrameOf(x)
        BY <1>5, <2>3, <4>1
      <4>3. i \in 1..Len(bytes) /\ End + i - Pos = Len(stream) + i
        BY <1>1, <2>1, <2>3, <4>1, <4>2
      <4>4. stream'[Len(stream) + i] = bytes[i]
        BY <1>4, <4>3
      <4> QED
        BY <4>1, <4>2, <4>3, <4>4
    <3>2. CASE k \in 1..n
      <4>1. sent'[k] = sent[k] /\ starts'[k] = starts[k] /\ sent[k] # Foreign
        BY <1>1, <1>2, <1>3, <2>3, <3>2
      <4>2. sent[k] \in Messages /\ starts[k] \in Nat /\ starts[k + 1] \in Nat /\ k + 1 \in 1..Len(starts)
        BY <3>2, <4>1, SentFacts DEF WireInv
      <4>3. Len(sent[k].body) \in Nat
        BY <4>2, FrameFacts
      <4>4. starts[k + 1] = starts[k] + 6 + Len(sent[k].body) /\ starts[k + 1] <= End
        BY <3>2, <4>1, <4>2 DEF WireInv, Layout
      <4>5. i \in 1..(6 + Len(sent[k].body)) /\ starts[k] + i - Pos \in 1..Len(stream')
        BY <2>3, <4>1
      <4>6. starts[k] + i - Pos \in 1..Len(stream)
        <5>1. \A a, e, l, p, c, f \in Nat :
                 p + l = e /\ f = a + 6 + c /\ f <= e =>
                   \A j \in 1..(6 + c), b \in Nat : a + j - p \in 1..b => a + j - p \in 1..l
          OBVIOUS
        <5>2. Len(stream') \in Nat
          BY <1>1, <1>4
        <5> QED
          BY <1>1, <2>1, <4>2, <4>3, <4>4, <4>5, <5>1, <5>2
      <4>7. stream[starts[k] + i - Pos] = FrameOf(sent[k])[i]
        BY <2>1, <3>2, <4>1, <4>5, <4>6 DEF Carries
      <4> QED
        BY <1>4, <4>1, <4>6, <4>7
    <3>3. k = n + 1 \/ k \in 1..n
      BY SMTT(30), <1>1, <1>2
    <3> QED
      BY <3>1, <3>2, <3>3
  <2>4. End' <= End'
    BY <1>1, <1>7
  <2> QED
    BY <2>2, <2>3, <2>4
<1>12. Current'
  <2>1. Len(got) < n => Len(got) < n + 1 /\ Len(got) + 1 \in 1..n
    BY <1>1
  <2> QED
    BY <1>2, <2>1 DEF WireInv, Current, Oversized
<1>13. Refusals'
  <2>1. Len(got) < n => Len(got) < n + 1 /\ Len(got) + 1 \in 1..n
    BY <1>1
  <2>2. \A k \in 1..n : k \in 1..(n + 1)
    BY <1>1
  <2> QED
    BY <1>2, <2>1, <2>2 DEF WireInv, Refusals, Oversized
<1> QED
  BY <1>6, <1>8, <1>9, <1>11, <1>12, <1>13 DEF WireInv

\* A reader that stops stays where it is, and the rest with it.
LEMMA StopKeeps ==
  ASSUME WireInv, NEW why \in Places \ {"header", "type", "payload"}, Stop(why),
         (\A k \in 1..Len(sent) : sent[k] # Foreign) =>
           /\ why \notin {"incomplete", "decode", "unknown_type"}
           /\ why = "too_large" => Len(got) < Len(sent) /\ Oversized(sent[Len(got) + 1])
  PROVE  WireInv'
<1>1. reader' = [reader EXCEPT !.at = why] /\ UNCHANGED <<stream, open, sent, starts, cap, got>>
  BY DEF Stop
<1>2. reader'.at = why /\ reader' \in [at : Places, len : Nat, type : Nat]
  BY <1>1 DEF WireInv, WireType
<1>3. WireType'
  BY <1>1, <1>2 DEF WireInv, WireType
<1>4. Layout' /\ Progress'
  BY <1>1 DEF WireInv, Layout, Progress, End, Oversized
<1>5. Position' /\ Current'
  BY <1>2 DEF Position, Reading, Current
<1>6. Refusals'
  BY <1>1, <1>2 DEF Refusals, Oversized
<1> QED
  BY <1>3, <1>4, <1>5, <1>6 DEF WireInv

LEMMA CutKeeps ==
  ASSUME WireInv, NEW n \in 0..Len(stream), Cut(n)
  PROVE  WireInv'
<1>1. /\ open' = FALSE /\ stream' = SubSeq(stream, 1, n)
      /\ UNCHANGED <<sent, starts, cap, reader, got>>
  BY DEF Cut
<1>2. stream \in Seq(Nat)
  BY DEF WireInv, WireType
<1>3. stream' \in Seq(Nat) /\ Len(stream') = n
  BY <1>1, <1>2, Beginning
<1>4. WireType'
  BY <1>1, <1>3 DEF WireInv, WireType
<1>5. Layout' /\ Progress' /\ Current' /\ Refusals'
  BY <1>1 DEF WireInv, Layout, Progress, End, Oversized, Current, Refusals
<1>6. Position'
  <2>1. Pos \in Nat /\ End \in Nat /\ Len(stream) \in Nat
    BY EndFacts DEF WireInv
  <2>2. Pos' = Pos /\ End' = End /\ (Reading' <=> Reading)
    BY <1>1 DEF Pos, Into, End, Reading
  <2>3. ASSUME Reading PROVE Pos + n <= End /\ Carries(SubSeq(stream, 1, n), Pos)
    <3>1. Pos + Len(stream) <= End /\ Carries(stream, Pos)
      BY <2>3 DEF WireInv, Position
    <3>2. Pos + n <= End
      BY <2>1, <3>1
    <3> QED
      BY <2>1, <3>1, <3>2, CarriesFront DEF WireInv
  <2>4. Carries(SubSeq(stream, 1, n), Pos) => Carries(stream, Pos)'
    BY <1>1, <2>2 DEF Carries
  <2> QED
    BY <1>1, <1>3, <2>2, <2>3, <2>4 DEF Position
<1> QED
  BY <1>4, <1>5, <1>6 DEF WireInv

\* What a reader that takes n bytes of the frame it is in has to show.
LEMMA TakeKeeps ==
  ASSUME WireInv, Reading, NEW n \in 0..Len(stream), Take(n), UNCHANGED <<open, sent, starts, cap>>,
         reader' \in [at : Places, len : Nat, type : Nat],
         got' \in Seq(Messages), Progress', Current', Refusals', Reading' => Pos' = Pos + n
  PROVE  WireInv'
<1>1. stream' = SubSeq(stream, n + 1, Len(stream))
  BY DEF Take
<1>2. stream \in Seq(Nat)
  BY DEF WireInv, WireType
<1>3. stream' \in Seq(Nat) /\ Len(stream') = Len(stream) - n
  BY <1>1, <1>2, Rest
<1>4. WireType'
  BY <1>1, <1>3 DEF WireInv, WireType
<1>5. Layout'
  BY DEF WireInv, Layout, End
<1>6. Position'
  <2> SUFFICES ASSUME Reading' PROVE Position'
    BY DEF Position
  <2>1. Pos \in Nat /\ End \in Nat /\ Len(stream) \in Nat
    BY EndFacts DEF WireInv
  <2>2. End' = End /\ Pos' = Pos + n
    BY DEF End
  <2>3. /\ Pos + Len(stream) <= End /\ (open => Pos + Len(stream) = End)
        /\ Carries(stream, Pos)
    BY DEF WireInv, Position
  <2>4. Pos' + Len(stream') = Pos + Len(stream)
    BY <1>3, <2>1, <2>2
  <2>5. Carries(SubSeq(stream, n + 1, Len(stream)), Pos + n)
    BY <2>1, <2>3, CarriesRest DEF WireInv
  <2>6. Carries(stream, Pos)'
    BY <1>1, <2>2, <2>5 DEF Carries
  <2> QED
    BY <2>2, <2>3, <2>4, <2>6 DEF Position
<1> QED
  BY <1>4, <1>5, <1>6 DEF WireInv

\* The length in a header of the peer's is that of the message it starts.
LEMMA HeaderSays ==
  ASSUME WireInv, reader.at = "header", Len(stream) >= HeaderSize
  PROVE  LET content == FromBe(SubSeq(stream, 1, HeaderSize)) IN
         /\ content \in Nat /\ Len(got) < Len(sent)
         /\ LET m == sent[Len(got) + 1] IN
            m # Foreign => /\ m \in Messages /\ content = 2 + Len(m.body) /\ content <= MaxFrame
                           /\ Len(m.body) \in Nat
<1>1. Reading /\ Into = 0 /\ HeaderSize = 4
  BY DEF Reading, Into, HeaderSize
<1>2. /\ Pos \in Nat /\ End \in Nat /\ Len(stream) \in Nat /\ Len(got) \in Nat /\ Len(sent) \in Nat
      /\ starts[Len(got) + 1] \in Nat
  BY EndFacts DEF WireInv
<1>3. Pos = starts[Len(got) + 1] /\ Pos + Len(stream) <= End /\ Len(got) <= Len(sent)
  BY <1>1, <1>2 DEF WireInv, Position, Progress, Pos
<1>4. Len(got) < Len(sent)
  <2> SUFFICES ASSUME Len(got) = Len(sent) PROVE FALSE
    BY <1>2, <1>3
  <2>1. Pos = End
    BY <1>3 DEF End
  <2> QED
    BY <1>1, <1>2, <1>3, <2>1
<1> DEFINE h == SubSeq(stream, 1, 4)
<1>5. h \in Seq(Nat) /\ Len(h) = 4 /\ \A j \in 1..4 : h[j] = stream[j]
  <2>1. stream \in Seq(Nat) /\ 4 \in 0..Len(stream)
    BY <1>1, <1>2 DEF WireInv, WireType
  <2> QED
    BY <2>1, Beginning
<1> HIDE DEF h
<1>6. h[1] \in Nat /\ h[2] \in Nat /\ h[3] \in Nat /\ h[4] \in Nat
  <2>1. \A j \in 1..4 : h[j] \in Nat
    BY <1>5, ElementOfSeq
  <2> QED
    BY <2>1
<1>7. FromBe(h) \in Nat
  <2>1. Base \in Nat /\ \A x, y \in Nat : x * Base + y \in Nat
    BY WireAssumption
  <2> QED
    BY <1>6, <2>1 DEF FromBe
<1>8. ASSUME sent[Len(got) + 1] # Foreign
      PROVE  LET m == sent[Len(got) + 1] IN
             /\ m \in Messages /\ FromBe(h) = 2 + Len(m.body) /\ FromBe(h) <= MaxFrame
             /\ Len(m.body) \in Nat
  <2> DEFINE m == sent[Len(got) + 1]
  <2>1. /\ m \in Messages /\ 2 + Len(m.body) <= MaxFrame
        /\ \A i \in 1..(6 + Len(m.body)) :
              i - Into \in 1..Len(stream) => stream[i - Into] = FrameOf(m)[i]
    BY <1>1, <1>4, <1>8, NextBytes
  <2>2. Len(m.body) \in Nat /\ \A i \in 1..4 : FrameOf(m)[i] = ToBe(2 + Len(m.body))[i]
    BY <2>1, FrameFacts
  <2>3. ASSUME NEW i \in 1..4 PROVE h[i] = ToBe(2 + Len(m.body))[i]
    <3>1. i \in 1..(6 + Len(m.body)) /\ i - Into = i /\ i \in 1..Len(stream)
      BY <1>1, <1>2, <2>2
    <3>2. stream[i] = FrameOf(m)[i]
      BY <2>1, <3>1
    <3> QED
      BY <1>5, <2>2, <3>2
  <2>4. FromBe(h) = FromBe(ToBe(2 + Len(m.body)))
    <3>1. /\ h[1] = ToBe(2 + Len(m.body))[1] /\ h[2] = ToBe(2 + Len(m.body))[2]
          /\ h[3] = ToBe(2 + Len(m.body))[3] /\ h[4] = ToBe(2 + Len(m.body))[4]
      BY <2>3
    <3> QED
      BY <3>1 DEF FromBe
  <2>5. FromBe(h) = 2 + Len(m.body)
    BY <2>1, <2>2, <2>4, HeaderRoundTrip
  <2> QED
    BY <2>1, <2>2, <2>5
<1> QED
  BY <1>1, <1>4, <1>7, <1>8 DEF h

LEMMA HeaderKeeps ==
  ASSUME WireInv, ReadHeader
  PROVE  WireInv'
<1> DEFINE content == FromBe(SubSeq(stream, 1, HeaderSize))
           m == sent[Len(got) + 1]
<1>1. reader.at = "header" /\ Reading /\ HeaderSize = 4 /\ Len(stream) \in Nat /\ Len(got) \in Nat
  BY EndFacts DEF ReadHeader, Reading, HeaderSize, WireInv
<1>2. CASE Len(stream) < HeaderSize /\ ~open /\ Stop("eof")
  <2>1. "eof" \in Places \ {"header", "type", "payload"} /\ "eof" # "too_large"
         /\ "eof" \notin {"incomplete", "decode", "unknown_type"}
    BY DEF Places
  <2> QED
    BY <1>2, <2>1, StopKeeps
<1>3. CASE Len(stream) >= HeaderSize /\ Refuse(content) # "none" /\ Stop(Refuse(content))
  <2>1. /\ content \in Nat /\ Len(got) < Len(sent)
        /\ m # Foreign => m \in Messages /\ content = 2 + Len(m.body) /\ content <= MaxFrame
                          /\ Len(m.body) \in Nat
    BY <1>1, <1>3, HeaderSays
  <2> HIDE DEF content, m
  <2>2. Refuse(content) \in {"too_large", "incomplete"}
    BY <1>3 DEF Refuse
  <2>3. m # Foreign => Refuse(content) = "too_large" /\ Oversized(m)
    <3> SUFFICES ASSUME m # Foreign PROVE Refuse(content) = "too_large" /\ Oversized(m)
      OBVIOUS
    <3>1. content = 2 + Len(m.body) /\ content <= MaxFrame /\ Len(m.body) \in Nat /\ MaxFrame \in Int
          /\ content # 0 /\ cap \in Int
      BY <2>1, WireAssumption DEF WireInv, WireType
    <3>2. content - 1 > cap
      BY <1>3, <3>1 DEF Refuse
    <3>3. 1 + Len(m.body) > cap
      BY <3>1, <3>2
    <3>4. ~(content > MaxFrame)
      BY <2>1, <3>1
    <3> QED
      BY <2>1, <3>1, <3>2, <3>3, <3>4, OversizedIs DEF Refuse
  <2>4. Refuse(content) \in Places \ {"header", "type", "payload"}
    BY <2>2 DEF Places
  <2>5. ASSUME \A k \in 1..Len(sent) : sent[k] # Foreign
        PROVE  /\ Refuse(content) \notin {"incomplete", "decode", "unknown_type"}
               /\ Refuse(content) = "too_large" => Len(got) < Len(sent) /\ Oversized(sent[Len(got) + 1])
    <3>1. Len(got) + 1 \in 1..Len(sent)
      BY <1>1, <2>1, EndFacts DEF WireInv
    <3>2. m # Foreign
      BY <2>5, <3>1 DEF m
    <3> QED
      BY <2>1, <2>3, <3>2 DEF m
  <2> QED
    BY <1>3, <2>4, <2>5, StopKeeps
<1>4. CASE /\ Len(stream) >= HeaderSize /\ Refuse(content) = "none" /\ Take(HeaderSize)
           /\ reader' = [reader EXCEPT !.at = "type", !.len = content - 1]
           /\ UNCHANGED <<open, sent, starts, cap, got>>
  <2>1. /\ content \in Nat /\ Len(got) < Len(sent)
        /\ m # Foreign => m \in Messages /\ content = 2 + Len(m.body) /\ content <= MaxFrame
                          /\ Len(m.body) \in Nat
    BY <1>1, <1>4, HeaderSays
  <2> HIDE DEF content
  <2>2. content # 0 /\ ~(content - 1 > cap) /\ content - 1 \in Nat
    BY <1>4, <2>1 DEF Refuse
  <2>3. /\ reader'.at = "type" /\ reader'.len = content - 1
        /\ reader' \in [at : Places, len : Nat, type : Nat]
    <3>1. reader \in [at : Places, len : Nat, type : Nat] /\ "type" \in Places
      BY DEF WireInv, WireType, Places
    <3> QED
      BY <1>4, <2>2, <3>1
  <2>4. Progress' /\ Refusals'
    BY <1>4, <2>3 DEF WireInv, Progress, Refusals, Oversized
  <2>5. Current'
    <3> SUFFICES ASSUME m # Foreign PROVE reader'.len = 1 + Len(m.body) /\ ~Oversized(m)
      BY <1>4, <2>1, <2>3 DEF Current, Oversized
    <3>1. content = 2 + Len(m.body) /\ Len(m.body) \in Nat /\ m \in Messages /\ cap \in Int
      BY <2>1, WireAssumption DEF WireInv, WireType
    <3>2. content - 1 = 1 + Len(m.body) /\ ~(1 + Len(m.body) > cap)
      BY <2>2, <3>1
    <3> QED
      BY <2>3, <3>1, <3>2, OversizedIs
  <2>6. Pos' = Pos + 4
    <3>1. starts[Len(got) + 1] \in Nat
      BY EndFacts DEF WireInv
    <3> QED
      BY <1>1, <1>4, <2>3, <3>1 DEF Pos, Into
  <2>7. 4 \in 0..Len(stream)
    BY <1>1, <1>4
  <2>8. got' \in Seq(Messages) /\ Take(4)
    BY <1>1, <1>4 DEF WireInv, WireType
  <2> QED
    BY <1>1, <1>4, <2>3, <2>4, <2>5, <2>6, <2>7, <2>8, TakeKeeps
<1> QED
  BY <1>2, <1>3, <1>4 DEF ReadHeader

LEMMA TypeKeeps ==
  ASSUME WireInv, ReadType
  PROVE  WireInv'
<1> DEFINE m == sent[Len(got) + 1]
<1>1. /\ reader.at = "type" /\ Reading /\ Into = 4 /\ Len(stream) \in Nat /\ Len(got) \in Nat
      /\ Len(got) < Len(sent) /\ starts[Len(got) + 1] \in Nat
  BY EndFacts DEF ReadType, Reading, Into, WireInv, Current
<1>2. CASE stream = <<>> /\ ~open /\ Stop("io")
  <2>1. "io" \in Places \ {"header", "type", "payload"} /\ "io" # "too_large"
         /\ "io" \notin {"incomplete", "decode", "unknown_type"}
    BY DEF Places
  <2> QED
    BY <1>2, <2>1, StopKeeps
<1>3. CASE /\ stream # <<>> /\ Take(1)
           /\ reader' = [reader EXCEPT !.at = "payload", !.type = stream[1]]
           /\ UNCHANGED <<open, sent, starts, cap, got>>
  <2>1. 1 \in 1..Len(stream) /\ 1 \in 0..Len(stream) /\ stream[1] \in Nat
    <3>1. Len(stream) # 0
      BY <1>3, EmptySeq DEF WireInv, WireType
    <3>2. 1 \in 1..Len(stream) /\ 1 \in 0..Len(stream)
      BY <1>1, <3>1
    <3> QED
      BY <3>2, ElementOfSeq DEF WireInv, WireType
  <2>2. /\ reader'.at = "payload" /\ reader'.len = reader.len /\ reader'.type = stream[1]
        /\ reader' \in [at : Places, len : Nat, type : Nat]
    <3>1. reader \in [at : Places, len : Nat, type : Nat] /\ "payload" \in Places
      BY DEF WireInv, WireType, Places
    <3> QED
      BY <1>3, <2>1, <3>1
  <2>3. Progress' /\ Refusals'
    BY <1>3, <2>2 DEF WireInv, Progress, Refusals, Oversized
  <2>4. Current'
    <3> SUFFICES ASSUME m # Foreign
                 PROVE  reader'.len = 1 + Len(m.body) /\ ~Oversized(m) /\ reader'.type = m.kind
      BY <1>1, <1>3, <2>2 DEF Current, Oversized
    <3>1. reader.len = 1 + Len(m.body) /\ ~Oversized(m)
      BY <1>1 DEF WireInv, Current
    <3>2. /\ m \in Messages
          /\ \A i \in 1..(6 + Len(m.body)) :
              i - Into \in 1..Len(stream) => stream[i - Into] = FrameOf(m)[i]
      BY <1>1, NextBytes
    <3>3. FrameOf(m)[5] = m.kind /\ Len(m.body) \in Nat
      BY <3>2, FrameFacts
    <3>4. 5 \in 1..(6 + Len(m.body)) /\ 5 - Into = 1
      BY <1>1, <3>3
    <3> QED
      BY <2>1, <2>2, <3>1, <3>2, <3>3, <3>4
  <2>5. Pos' = Pos + 1
    BY <1>1, <1>3, <2>2 DEF Pos, Into
  <2>6. got' \in Seq(Messages)
    BY <1>3 DEF WireInv, WireType
  <2> QED
    BY <1>1, <1>3, <2>1, <2>2, <2>3, <2>4, <2>5, <2>6, TakeKeeps
<1> QED
  BY <1>2, <1>3 DEF ReadType

\* The bytes behind the type byte are the message again.
LEMMA PayloadSays ==
  ASSUME WireInv, reader.at = "payload", Len(stream) >= reader.len, sent[Len(got) + 1] # Foreign
  PROVE  LET m == sent[Len(got) + 1]
             p == SubSeq(stream, 1, reader.len)
         IN  /\ m \in Messages /\ ~Oversized(m) /\ reader.len = 1 + Len(m.body)
             /\ starts[Len(got) + 2] = starts[Len(got) + 1] + 6 + Len(m.body)
             /\ FromFrame([type |-> reader.type, payload |-> p]) = [result |-> "ok", message |-> m]
<1> DEFINE m == sent[Len(got) + 1]
           n == Len(m.body)
           p == SubSeq(stream, 1, reader.len)
<1>1. Reading /\ Into = 5 /\ Len(stream) \in Nat /\ Len(got) < Len(sent) /\ stream \in Seq(Nat)
  BY EndFacts DEF Reading, Into, WireInv, Current, WireType
<1>2. reader.len = 1 + n /\ ~Oversized(m) /\ reader.type = m.kind
  BY DEF WireInv, Current
<1>3. /\ m \in Messages /\ starts[Len(got) + 2] = starts[Len(got) + 1] + 6 + n
      /\ \A i \in 1..(6 + n) : i - Into \in 1..Len(stream) => stream[i - Into] = FrameOf(m)[i]
  BY <1>1, NextBytes
<1>4. /\ n \in Nat /\ m.body \in Seq(Nat) /\ m.kind \in Kinds /\ FrameOf(m)[6] = n
      /\ \A i \in 1..n : FrameOf(m)[6 + i] = m.body[i]
  BY <1>3, FrameFacts
<1>5. m = [kind |-> m.kind, body |-> m.body]
  BY <1>3 DEF Messages
<1>6. p \in Seq(Nat) /\ Len(p) = 1 + n /\ \A j \in 1..(1 + n) : p[j] = stream[j]
  <2>1. reader.len \in 0..Len(stream)
    BY <1>1, <1>2, <1>4
  <2> QED
    BY <1>1, <1>2, <2>1, Beginning
<1> HIDE DEF m, n, p
<1>7. \A j \in 1..(1 + n) : p[j] = FrameOf(m)[5 + j]
  <2> SUFFICES ASSUME NEW j \in 1..(1 + n) PROVE p[j] = FrameOf(m)[5 + j]
    OBVIOUS
  <2>1. 5 + j \in 1..(6 + n) /\ (5 + j) - Into = j /\ j \in 1..Len(stream)
    BY <1>1, <1>2, <1>4
  <2> QED
    BY <1>3, <1>6, <2>1
<1>8. p[1] = n
  BY <1>4, <1>7, 1 \in 1..(1 + n), 5 + 1 = 6
<1>9. Decodes(p)
  <2>1. p # <<>>
    BY <1>4, <1>6
  <2> QED
    BY <1>4, <1>6, <1>8, <2>1 DEF Decodes
<1>10. Decode(p) = m.body
  <2> DEFINE d == SubSeq(p, 2, 1 + n)
  <2>1. \A i \in 2..(1 + n) : p[i] \in Nat
    <3>1. \A i \in 2..(1 + n) : i \in 1..Len(p)
      BY <1>4, <1>6
    <3> QED
      BY <1>6, <3>1, ElementOfSeq
  <2>2. /\ d \in Seq(Nat) /\ Len(d) = IF 2 <= 1 + n THEN (1 + n) - 2 + 1 ELSE 0
        /\ \A i \in 1..((1 + n) - 2 + 1) : d[i] = p[2 + i - 1]
    BY <1>4, <2>1, SubSeqProperties
  <2> HIDE DEF d
  <2>3. Len(d) = n
    BY <1>4, <2>2
  <2>4. ASSUME NEW i \in 1..n PROVE d[i] = m.body[i]
    <3>1. i \in 1..((1 + n) - 2 + 1) /\ 2 + i - 1 = 1 + i /\ 1 + i \in 1..(1 + n) /\ 5 + (1 + i) = 6 + i
      BY <1>4
    <3>2. d[i] = p[1 + i] /\ p[1 + i] = FrameOf(m)[6 + i]
      BY <1>7, <2>2, <3>1
    <3> QED
      BY <1>4, <3>2
  <2>5. Len(m.body) = n
    BY DEF n
  <2>6. d = m.body
    BY <1>4, <2>2, <2>3, <2>4, <2>5, SeqEqual
  <2> QED
    BY <1>8, <2>6 DEF Decode, d
<1>11. FromFrame([type |-> reader.type, payload |-> p]) = [result |-> "ok", message |-> m]
  BY <1>2, <1>4, <1>5, <1>9, <1>10 DEF FromFrame
<1> QED
  BY <1>2, <1>3, <1>11 DEF m, n, p

LEMMA PayloadKeeps ==
  ASSUME WireInv, ReadPayload
  PROVE  WireInv'
<1> DEFINE m == sent[Len(got) + 1]
           p == SubSeq(stream, 1, reader.len)
           r == FromFrame([type |-> reader.type, payload |-> p])
<1>1. /\ reader.at = "payload" /\ Reading /\ Into = 5 /\ Len(stream) \in Nat /\ Len(got) \in Nat
      /\ Len(sent) \in Nat /\ Len(got) < Len(sent) /\ starts[Len(got) + 1] \in Nat
      /\ reader \in [at : Places, len : Nat, type : Nat] /\ Len(got) + 1 \in 1..Len(sent)
  <2>1. reader.at = "payload" /\ Len(got) < Len(sent)
    BY DEF ReadPayload, WireInv, Current
  <2>2. /\ Len(stream) \in Nat /\ Len(got) \in Nat /\ Len(sent) \in Nat /\ starts[Len(got) + 1] \in Nat
    BY EndFacts DEF WireInv
  <2> QED
    BY <2>1, <2>2 DEF Reading, Into, WireInv, WireType
<1>2. CASE Len(stream) < reader.len /\ ~open /\ Stop("io")
  <2>1. "io" \in Places \ {"header", "type", "payload"} /\ "io" # "too_large"
         /\ "io" \notin {"incomplete", "decode", "unknown_type"}
    BY DEF Places
  <2> QED
    BY <1>2, <2>1, StopKeeps
<1>3. CASE /\ Len(stream) >= reader.len /\ Take(reader.len)
           /\ got' = IF r.result = "ok" THEN Append(got, r.message) ELSE got
           /\ reader' = IF r.result = "ok" THEN Ready ELSE [reader EXCEPT !.at = r.result]
           /\ UNCHANGED <<open, sent, starts, cap>>
  <2>1. reader.len \in 0..Len(stream)
    BY <1>1, <1>3
  <2>2. CASE m # Foreign
    <3>1. /\ m \in Messages /\ ~Oversized(m) /\ reader.len = 1 + Len(m.body)
          /\ starts[Len(got) + 2] = starts[Len(got) + 1] + 6 + Len(m.body)
          /\ r = [result |-> "ok", message |-> m]
      BY <1>1, <1>3, <2>2, PayloadSays
    <3> HIDE DEF r
    <3>2. r.result = "ok" /\ r.message = m /\ Len(m.body) \in Nat
      BY <3>1, FrameFacts
    <3>3. got' = Append(got, m) /\ reader' = Ready
      BY <1>3, <3>2
    <3>4. /\ got' \in Seq(Messages) /\ Len(got') = Len(got) + 1 /\ got'[Len(got) + 1] = m
          /\ \A k \in 1..Len(got) : got'[k] = got[k]
      BY <3>1, <3>3, AppendProperties DEF WireInv, WireType
    <3>5. reader'.at = "header" /\ reader' \in [at : Places, len : Nat, type : Nat]
      <4>1. "header" \in Places /\ reader' = [at |-> "header", len |-> 0, type |-> 0]
        BY <3>3 DEF Places, Ready
      <4> QED
        BY <4>1
    <3>6. Progress'
      <4>1. ASSUME NEW k \in 1..(Len(got) + 1)
            PROVE  got'[k] = sent[k] /\ got'[k] # Foreign /\ ~Oversized(got'[k])
        <5>1. CASE k = Len(got) + 1
          BY <2>2, <3>1, <3>4, <5>1
        <5>2. CASE k \in 1..Len(got)
          BY <3>4, <5>2 DEF WireInv, Progress
        <5>3. k = Len(got) + 1 \/ k \in 1..Len(got)
          BY <1>1
        <5> QED
          BY <5>1, <5>2, <5>3
      <4>2. Len(got) + 1 <= Len(sent)
        BY <1>1
      <4> QED
        BY <1>3, <3>4, <4>1, <4>2 DEF Progress, Oversized
    <3>7. Current' /\ Refusals'
      BY <3>5 DEF Current, Refusals
    <3>8. Pos' = Pos + reader.len
      <4>1. Pos' = starts[(Len(got) + 1) + 1] + 0 /\ (Len(got) + 1) + 1 = Len(got) + 2
        BY <1>1, <1>3, <3>4, <3>5 DEF Pos, Into
      <4>2. Pos = starts[Len(got) + 1] + 5
        BY <1>1 DEF Pos
      <4>3. \A a, b \in Nat : (a + 6 + b) + 0 = (a + 5) + (1 + b)
        OBVIOUS
      <4>4. (starts[Len(got) + 1] + 6 + Len(m.body)) + 0 = (starts[Len(got) + 1] + 5) + (1 + Len(m.body))
        BY <1>1, <3>2, <4>3
      <4>5. Pos' = (starts[Len(got) + 1] + 6 + Len(m.body)) + 0
        BY <3>1, <4>1
      <4> HIDE DEF m
      <4> QED
        BY <3>1, <4>2, <4>4, <4>5
    <3> QED
      BY <1>1, <1>3, <2>1, <3>4, <3>5, <3>6, <3>7, <3>8, TakeKeeps
  <2>3. CASE m = Foreign
    <3>1. stream = <<>> /\ reader.len = 0
      <4>1. Pos + Len(stream) <= End /\ Pos = starts[Len(got) + 1] + 5
        BY <1>1 DEF WireInv, Position, Pos
      <4>2. Len(got) + 1 = Len(sent) /\ starts[Len(got) + 1 + 1] = starts[Len(got) + 1] + 5
        BY <1>1, <2>3 DEF WireInv, Layout
      <4>3. End = Pos
        BY <1>1, <4>1, <4>2 DEF End
      <4>4. Len(stream) = 0
        BY <1>1, <4>1, <4>2, <4>3
      <4> QED
        BY <1>1, <1>3, <4>4, EmptySeq DEF WireInv, WireType
    <3>2. p = <<>>
      <4>1. 0 \in 0..Len(stream) /\ stream \in Seq(Nat)
        BY <1>1 DEF WireInv, WireType
      <4>2. p \in Seq(Nat) /\ Len(p) = 0
        BY <3>1, <4>1, Beginning
      <4> QED
        BY <4>2, EmptySeq
    <3>3. r.result \in {"decode", "unknown_type"}
      BY <3>2 DEF FromFrame, Decodes
    <3> HIDE DEF r
    <3>4. r.result # "ok" /\ got' = got /\ reader' = [reader EXCEPT !.at = r.result]
      BY <1>3, <3>3
    <3>5. /\ reader'.at = r.result /\ reader' \in [at : Places, len : Nat, type : Nat]
      <4>1. r.result \in Places
        BY <3>3 DEF Places
      <4> QED
        BY <1>1, <3>4, <4>1
    <3>6. Progress' /\ Current' /\ ~Reading'
      BY <1>3, <3>3, <3>4, <3>5 DEF WireInv, Progress, Current, Reading, Oversized
    <3>7. Refusals'
      BY <1>1, <1>3, <2>3 DEF Refusals
    <3>8. got' \in Seq(Messages)
      BY <3>4 DEF WireInv, WireType
    <3> QED
      BY <1>1, <1>3, <2>1, <3>5, <3>6, <3>7, <3>8, TakeKeeps
  <2> QED
    BY <2>2, <2>3
<1> QED
  BY <1>2, <1>3 DEF ReadPayload

LEMMA WriteFrameKeeps ==
  ASSUME WireInv, NEW m \in Messages, WriteFrame(m)
  PROVE  WireInv'
<1> DEFINE f == ToFrame(m)
<1>1. /\ FrameOf(m) \in Seq(Nat) /\ ContentLen(f) = 2 + Len(m.body) /\ m # Foreign
  BY FrameFacts, NotForeign
<1>2. EncodeFrame(f) = FrameOf(m)
  BY DEF FrameOf
<1>3. Last(starts) = End
  BY DEF Last, End, WireInv, WireType
<1>4. CASE ContentLen(f) <= MaxFrame
  <2>1. /\ open /\ stream' = stream \o FrameOf(m) /\ sent' = Append(sent, m)
        /\ starts' = Append(starts, End + Len(FrameOf(m)))
        /\ open' = TRUE /\ UNCHANGED <<cap, reader, got>>
    BY <1>2, <1>3, <1>4 DEF WriteFrame
  <2> QED
    BY <1>1, <1>4, <2>1, WriteKeeps
<1>5. CASE ~(ContentLen(f) <= MaxFrame)
  <2>1. open' = FALSE /\ UNCHANGED <<stream, sent, starts, cap, reader, got>>
    <3>1. UNCHANGED <<stream, sent, starts>>
      BY <1>5 DEF WriteFrame
    <3>2. open' = (ContentLen(f) <= MaxFrame) /\ UNCHANGED <<cap, reader, got>>
      BY DEF WriteFrame
    <3>3. (ContentLen(f) <= MaxFrame) = FALSE
      BY <1>5
    <3> QED
      BY <3>1, <3>2, <3>3, Zenon
  <2>2. WireType' /\ Progress' /\ Current' /\ Refusals'
    BY <2>1 DEF WireInv, WireType, Progress, Current, Refusals, Oversized
  <2>3. Layout' /\ Position'
    BY <2>1 DEF WireInv, Layout, End, Position, Reading, Pos, Into, Carries
  <2> QED
    BY <2>2, <2>3 DEF WireInv
<1> QED
  BY <1>4, <1>5

LEMMA WriteForeignKeeps ==
  ASSUME WireInv, NEW n \in Nat, NEW byte \in Nat, WriteForeign(n, byte)
  PROVE  WireInv'
<1> DEFINE h == ToBe(n)
           bytes == h \o <<byte>>
<1>1. h \in Seq(Nat) /\ Len(h) = 4 /\ <<byte>> \in Seq(Nat) /\ Len(<<byte>>) = 1
  BY HeaderBytes
<1> HIDE DEF h
<1>2. bytes \in Seq(Nat) /\ Len(bytes) = 5
  <2>1. bytes \in Seq(Nat) /\ Len(bytes) = Len(h) + Len(<<byte>>)
    BY <1>1, Joined
  <2> QED
    BY <1>1, <2>1
<1>3. stream \in Seq(Nat) /\ Last(starts) = End /\ End \in Nat
  BY EndFacts DEF Last, End, WireInv, WireType
<1>4. (stream \o h) \o <<byte>> = stream \o bytes
  BY <1>1, <1>3, ConcatAssociative
<1>5. /\ open /\ stream' = stream \o bytes /\ sent' = Append(sent, Foreign)
      /\ starts' = Append(starts, End + 4 + 1) /\ open' = FALSE /\ UNCHANGED <<cap, reader, got>>
  BY <1>3, <1>4 DEF WriteForeign, HeaderSize, h
<1>6. End + 4 + 1 = End + Len(bytes)
  BY <1>2, <1>3
<1> HIDE DEF bytes
<1>7. starts' = Append(starts, End + Len(bytes)) /\ Foreign \in Messages \cup {Foreign} /\ open' \in BOOLEAN
  BY <1>5, <1>6
<1> QED
  BY <1>2, <1>5, <1>7, WriteKeeps

LEMMA WireStep == WireInv /\ [WireNext]_wireVars => WireInv'
<1> SUFFICES ASSUME WireInv, [WireNext]_wireVars PROVE WireInv'
  OBVIOUS
<1>1. ASSUME NEW k \in Kinds, NEW b \in Bodies, WriteFrame([kind |-> k, body |-> b]) PROVE WireInv'
  <2>1. [kind |-> k, body |-> b] \in Messages
    BY DEF Messages
  <2> QED
    BY <1>1, <2>1, WriteFrameKeeps
<1>2. ASSUME NEW n \in {0, 1, MaxFrame, MaxFrame + 1}, NEW byte \in {0, MSG_HELLO}, WriteForeign(n, byte)
      PROVE  WireInv'
  <2>1. n \in Nat /\ byte \in Nat
    BY WireAssumption DEF MSG_HELLO
  <2> QED
    BY <1>2, <2>1, WriteForeignKeeps
<1>3. ASSUME NEW n \in 0..Len(stream), Cut(n) PROVE WireInv'
  BY <1>3, CutKeeps
<1>4. CASE ReadHeader
  BY <1>4, HeaderKeeps
<1>5. CASE ReadType
  BY <1>5, TypeKeeps
<1>6. CASE ReadPayload
  BY <1>6, PayloadKeeps
<1>7. CASE UNCHANGED wireVars
  <2>1. UNCHANGED <<stream, open, sent, starts, cap, reader, got>>
    BY <1>7 DEF wireVars
  <2>2. WireType' /\ Progress' /\ Current' /\ Refusals'
    BY <2>1 DEF WireInv, WireType, Progress, Current, Refusals, Oversized
  <2>3. Layout' /\ Position'
    BY <2>1 DEF WireInv, Layout, End, Position, Reading, Pos, Into, Carries
  <2> QED
    BY <2>2, <2>3 DEF WireInv
<1> QED
  BY <1>1, <1>2, <1>3, <1>4, <1>5, <1>6, <1>7 DEF WireNext

LEMMA WireSound == WireInv => MessagesArriveWhole
<1> SUFFICES ASSUME WireInv PROVE MessagesArriveWhole
  OBVIOUS
<1>1. DOMAIN got = 1..Len(got) /\ DOMAIN sent = 1..Len(sent)
  BY DEF WireInv, WireType
<1>2. Foreign \notin Range(sent) => \A k \in 1..Len(sent) : sent[k] # Foreign
  BY <1>1 DEF Range
<1>3. ASSUME cap = MaxFrame - 1, reader.at = "header"
      PROVE  LET content == FromBe(SubSeq(stream, 1, HeaderSize))
                 whole   == Len(stream) >= HeaderSize + content
             IN  DecodeFrame(stream).result = "ok"
                   <=> Len(stream) >= HeaderSize /\ Refuse(content) = "none" /\ whole
  <2> DEFINE content == FromBe(SubSeq(stream, 1, HeaderSize))
  <2>1. Len(stream) \in Nat /\ HeaderSize = 4 /\ MaxFrame \in Nat
    BY WireAssumption DEF WireInv, WireType, HeaderSize
  <2>2. CASE Len(stream) < HeaderSize
    <3>1. ~(Len(stream) >= HeaderSize)
      BY <2>1, <2>2
    <3>2. DecodeFrame(stream).result = "incomplete"
      BY <2>2 DEF DecodeFrame
    <3> QED
      BY <3>1, <3>2
  <2>3. CASE Len(stream) >= HeaderSize
    <3>1. content \in Nat
      BY <1>3, <2>3, HeaderSays
    <3> HIDE DEF content
    <3>2. Refuse(content) = "none" <=> content <= MaxFrame /\ content # 0
      <4>1. content - 1 > cap <=> content > MaxFrame
        BY <1>3, <2>1, <3>1
      <4>2. content <= MaxFrame <=> ~(content > MaxFrame)
        BY <2>1, <3>1
      <4> QED
        BY <4>1, <4>2 DEF Refuse
    <3>3. DecodeFrame(stream).result = "ok"
             <=> content <= MaxFrame /\ content # 0 /\ Len(stream) >= HeaderSize + content
      <4>1. /\ ~(Len(stream) < HeaderSize) /\ (content <= MaxFrame <=> ~(content > MaxFrame))
            /\ (Len(stream) >= HeaderSize + content <=> ~(Len(stream) < HeaderSize + content))
        BY <2>1, <2>3, <3>1
      <4> QED
        BY <4>1 DEF DecodeFrame, content
    <3> QED
      BY <2>3, <3>2, <3>3 DEF content
  <2> QED
    BY <2>1, <2>2, <2>3
<1> QED
  BY <1>1, <1>2, <1>3 DEF MessagesArriveWhole, WireInv, Progress, Refusals

\* MessagesArriveWhole for every message set, cap, number of writes and way of
\* cutting the connection: read_frame_with_max_payload and from_frame return the
\* messages write_frame was given, whole, in order and none twice, and refuse only
\* what is over the reader's cap or was never a frame.
THEOREM WireMessagesArriveWhole ==
  WireInit /\ [][WireNext]_wireVars => []MessagesArriveWhole
  BY WireStarts, WireStep, WireSound, PTL

\* The channel the two ends see.
Channel == INSTANCE MessageChannel WITH Message <- Messages, Noise <- {Foreign}

LEMMA AppendAny ==
  ASSUME NEW S, NEW s \in Seq(S), NEW x
  PROVE  Len(Append(s, x)) = Len(s) + 1 /\ Append(s, x)[Len(s) + 1] = x
  OBVIOUS

LEMMA ChannelStep == WireInv /\ [WireNext]_wireVars => [Channel!Next]_<<sent, got>>
<1> SUFFICES ASSUME WireInv, [WireNext]_wireVars PROVE [Channel!Next]_<<sent, got>>
  OBVIOUS
<1>1. ASSUME NEW m \in Messages \cup {Foreign}, sent' = Append(sent, m), UNCHANGED got
      PROVE  Channel!Next
  BY <1>1 DEF Channel!Next, Channel!Send
<1>2. ASSUME NEW k \in Kinds, NEW b \in Bodies, WriteFrame([kind |-> k, body |-> b])
      PROVE  [Channel!Next]_<<sent, got>>
  <2>1. [kind |-> k, body |-> b] \in Messages
    BY DEF Messages
  <2>2. /\ sent' = Append(sent, [kind |-> k, body |-> b]) \/ sent' = sent
        /\ UNCHANGED got
    BY <1>2 DEF WriteFrame
  <2> QED
    BY <1>1, <2>1, <2>2
<1>3. ASSUME NEW n \in {0, 1, MaxFrame, MaxFrame + 1}, NEW byte \in {0, MSG_HELLO}, WriteForeign(n, byte)
      PROVE  [Channel!Next]_<<sent, got>>
  BY <1>1, <1>3 DEF WriteForeign
<1>4. ASSUME NEW n \in 0..Len(stream), Cut(n) PROVE [Channel!Next]_<<sent, got>>
  BY <1>4 DEF Cut
<1>5. CASE ReadHeader
  BY <1>5 DEF ReadHeader, Stop
<1>6. CASE ReadType
  BY <1>6 DEF ReadType, Stop
<1>7. CASE ReadPayload
  <2>1. CASE got' = got
    BY <1>7, <2>1 DEF ReadPayload, Stop
  <2>2. CASE got' # got
    <3>1. WireInv'
      BY <1>7, PayloadKeeps
    <3>2. got \in Seq(Messages) /\ got' \in Seq(Messages) /\ Len(got') <= Len(sent') /\ sent' = sent
      BY <1>7, <3>1 DEF WireInv, WireType, Progress, ReadPayload, Stop
    <3>3. \E m : got' = Append(got, m)
      BY <1>7, <2>2 DEF ReadPayload, Stop
    <3>4. PICK m : got' = Append(got, m)
      BY <3>3
    <3>5. Len(got') = Len(got) + 1 /\ got'[Len(got) + 1] = m /\ Len(got) \in Nat /\ Len(sent) \in Nat
      <4>1. Len(got') = Len(got) + 1 /\ got'[Len(got) + 1] = m
        BY <3>2, <3>4, AppendAny
      <4> QED
        BY <3>2, <4>1 DEF WireInv, WireType
    <3>6. Len(got) + 1 \in 1..Len(got') /\ Len(got) < Len(sent)
      BY <3>2, <3>5
    <3>7. got'[Len(got) + 1] = sent[Len(got) + 1] /\ got'[Len(got) + 1] \in Messages
      BY <3>1, <3>2, <3>6, ElementOfSeq DEF WireInv, Progress
    <3> QED
      BY <3>2, <3>4, <3>5, <3>6, <3>7 DEF Channel!Next, Channel!Receive
  <2> QED
    BY <2>1, <2>2
<1>8. CASE UNCHANGED wireVars
  BY <1>8 DEF wireVars
<1> QED
  BY <1>2, <1>3, <1>4, <1>5, <1>6, <1>7, <1>8 DEF WireNext

\* Framing, cutting and reading piecewise implement the channel of messages: every
\* read that returns a message is the receipt of the next one, and every other step
\* of the reader, the network or a writer that gives up is invisible.
THEOREM WireIsAChannel ==
  WireInit /\ [][WireNext]_wireVars => Channel!Spec
<1>1. WireInit => Channel!Init
  BY DEF WireInit, Channel!Init
<1>2. [Channel!Next]_<<sent, got>> => [Channel!Next]_(Channel!channelVars)
  BY DEF Channel!channelVars
<1> QED
  BY <1>1, <1>2, WireStarts, WireStep, ChannelStep, PTL DEF Channel!Spec
=============================================================================
