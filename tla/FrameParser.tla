----------------------------- MODULE FrameParser -----------------------------
(***************************************************************************)
(* parse_message on the bytes of one connection (server/protocol/          *)
(* parser.py), as _client_loop calls it: frames of a size in four bytes    *)
(* and a text, which arrive in pieces, and are read, refused or not        *)
(* completed in time.  Any stream of bytes is such a sequence of frames.   *)
(*                                                                         *)
(* A size that is refused leaves the text unread, and the next call reads  *)
(* a size in the middle of it.  So the parser is a position in the stream, *)
(* and a byte of a text, which is read once, is chosen when it is read as  *)
(* part of a size: anything, but not 0 in a JSON text.                     *)
(* Abstracted: what is wrong with a text (100 to 104; such a text is       *)
(* "other"); the reply, and the turn of dispatch (SessionServer).          *)
(***************************************************************************)
EXTENDS Integers, Sequences

CONSTANTS
    Base,        \* number of values of a byte
    MaxSize,     \* MAX_MESSAGE_SIZE
    Sizes,       \* sizes a frame may have
    Cuts,        \* bound: where in a frame a piece of the stream may end
    MaxFrames    \* bound: frames sent on the connection

HeaderLen == 4

ASSUME BaseAssumption == Base \in Nat \ (0 .. 1) /\ MaxFrames \in Nat
ASSUME SizesAssumption == MaxSize \in 1 .. Base * Base /\ Sizes \subseteq Nat

\* int.from_bytes(header, "big")
Num(header) == ((header[1] * Base + header[2]) * Base + header[3]) * Base + header[4]

\* text: "built" by the client's build_frame, another "message" that passes
\* _validate_message_structure, or any "other" bytes.
Headers == {h \in [1 .. HeaderLen -> 0 .. Base - 1] : Num(h) \in Sizes}
Frame == {f \in [start : Nat, header : Headers, text : {"built", "message", "other"}] :
             f.text # "other" => Num(f.header) >= HeaderLen}

VARIABLES
    frames,      \* the frames sent so far
    arrived,     \* how many bytes of them have reached reader
    taken,       \* how many of these parse_message has read
    need,        \* what it awaits: 0 for a size, or the size of a text
    dispatched,  \* the texts handed to dispatch, each as its place in the stream
    open         \* the loop runs

vars == <<frames, arrived, taken, need, dispatched, open>>

Size(i) == Num(frames[i].header)
End(i) == frames[i].start + HeaderLen + Size(i)
Sent == IF frames = <<>> THEN 0 ELSE End(Len(frames))
TextOf(i) == [from |-> frames[i].start + HeaderLen, size |-> Size(i)]

TypeOK == /\ frames \in Seq(Frame) /\ Len(frames) <= MaxFrames
          /\ arrived \in 0 .. Sent /\ taken \in 0 .. arrived
          /\ need \in 0 .. MaxSize
          /\ dispatched \in Seq([from : Nat, size : 1 .. MaxSize])
          /\ open \in BOOLEAN

Init == /\ frames = <<>> /\ arrived = 0 /\ taken = 0
        /\ need = 0 /\ dispatched = <<>> /\ open = TRUE

-----------------------------------------------------------------------------
(* The client and the network, as long as the loop does not close the connection. *)

Send == /\ open /\ Len(frames) < MaxFrames
        /\ \E h \in Headers, text \in {"built", "message", "other"} :
              LET f == [start |-> Sent, header |-> h, text |-> text] IN
              f \in Frame /\ frames' = Append(frames, f)
        /\ UNCHANGED <<arrived, taken, need, dispatched, open>>

Arrive == /\ open
          /\ arrived' \in {n \in arrived + 1 .. Sent : \E i \in 1 .. Len(frames) :
                              n - frames[i].start \in Cuts \cup {HeaderLen + Size(i)}}
          /\ UNCHANGED <<frames, taken, need, dispatched, open>>

-----------------------------------------------------------------------------
(* parse_message. *)

\* What the byte at position p may be: JSON allows no 0, neither json.dumps nor
\* json.loads.
Values(p) ==
    {v \in 0 .. Base - 1 : \A i \in 1 .. Len(frames) :
        LET k == p - frames[i].start + 1 IN
        /\ k \in 1 .. HeaderLen => v = frames[i].header[k]
        /\ k \in HeaderLen + 1 .. HeaderLen + Size(i) /\ frames[i].text # "other" => v # 0}

TooLargeAtMaximum(size) == size >= MaxSize     \* mutant: the largest size allowed is refused
NoLimit(size) == FALSE                         \* mutant: any size is awaited
TooLarge(size) == size > MaxSize

\* The size: 100 for none, 105 for too much; the loop goes on behind these bytes.
ReadSize == /\ open /\ need = 0 /\ arrived - taken >= HeaderLen
            /\ \E a \in Values(taken), b \in Values(taken + 1),
                  c \in Values(taken + 2), d \in Values(taken + 3) :
                  LET size == Num(<<a, b, c, d>>) IN
                  need' = IF TooLarge(size) THEN 0 ELSE size
            /\ taken' = taken + HeaderLen
            /\ UNCHANGED <<frames, arrived, dispatched, open>>

AnyText(text) == {TRUE}        \* mutant: a text is dispatched whatever it is
\* Whether json.loads and _validate_message_structure accept the bytes: those of a whole
\* frame as that frame says.  Any others may be a message too, also some out of a text,
\* unless they begin at the second to fourth byte of what build_frame made ({"type": ...).
Verdicts(text) ==
    {v \in BOOLEAN : \A i \in 1 .. Len(frames) :
        /\ text = TextOf(i) => v = (frames[i].text # "other")
        /\ frames[i].text = "built" /\ text.from - frames[i].start \in 5 .. 7 => v = FALSE}

\* The text: a message, or 100 to 104.
ReadText == /\ open /\ need > 0 /\ arrived - taken >= need
            /\ LET text == [from |-> taken, size |-> need] IN
               \E v \in Verdicts(text) :
                  dispatched' = IF v THEN Append(dispatched, text) ELSE dispatched
            /\ taken' = taken + need
            /\ need' = 0
            /\ UNCHANGED <<frames, arrived, open>>

FrameTimeoutOfSizes ==          \* mutant: only an incomplete size is timed
    /\ open /\ need = 0 /\ arrived - taken \in 1 .. HeaderLen - 1
    /\ open' = FALSE
    /\ UNCHANGED <<frames, arrived, taken, need, dispatched>>
\* FRAME_TIMEOUT: a size or a text that has begun is not complete.
FrameTimeout == /\ open
                /\ \/ need = 0 /\ arrived - taken \in 1 .. HeaderLen - 1
                   \/ need > 0 /\ arrived - taken < need
                /\ open' = FALSE
                /\ UNCHANGED <<frames, arrived, taken, need, dispatched>>

\* IDLE_TIMEOUT, the end of the stream, an error of the socket, a reply not sent.
LoopEnds == /\ open
            /\ open' = FALSE
            /\ UNCHANGED <<frames, arrived, taken, need, dispatched>>

Next == Send \/ Arrive \/ ReadSize \/ ReadText \/ FrameTimeout \/ LoopEnds

\* What has arrived is read, and FRAME_TIMEOUT fires; bytes need not arrive.
Fairness == WF_vars(ReadSize) /\ WF_vars(ReadText) /\ WF_vars(FrameTimeout)
Spec == Init /\ [][Next]_vars /\ Fairness

-----------------------------------------------------------------------------
(* Properties. *)

Dispatched == {dispatched[n] : n \in 1 .. Len(dispatched)}
IsMessage(i) == frames[i].text # "other" /\ Size(i) <= MaxSize

\* A text that is refused unread and may hold an acceptable size, or does not end where
\* a size is looked for; and a frame that comes after no such text.
Harmful(i) == /\ Size(i) > MaxSize
              /\ frames[i].text = "other" \/ Size(i) % HeaderLen # 0
Trusted(i) == \A j \in 1 .. i - 1 : ~Harmful(j)

\* Only a text that is refused unread brings the parser out of step, and not if it is
\* JSON and its length is a multiple of four: up to such a text every message is
\* dispatched when it is read, and nothing else is.
InStep ==
    /\ \A i \in 1 .. Len(frames) : Trusted(i) =>
          (TextOf(i) \in Dispatched <=> IsMessage(i) /\ End(i) <= taken)
    /\ \A t \in Dispatched : \E i \in 1 .. Len(frames) :
          t = TextOf(i) \/ (Harmful(i) /\ frames[i].start < t.from)

\* In step or not: no byte is dispatched twice, or after a later one; and what is
\* dispatched was sent as a message, or its size was found within a frame that
\* build_frame did not make.  So among clients of this repository nothing but their
\* messages is dispatched, although a text of theirs may be refused.
Genuine ==
    /\ \A m, n \in 1 .. Len(dispatched) : m < n =>
          dispatched[m].from + dispatched[m].size + HeaderLen <= dispatched[n].from
    /\ \A t \in Dispatched : \E i \in 1 .. Len(frames) :
          \/ IsMessage(i) /\ t = TextOf(i)
          \/ /\ frames[i].text # "built"
             /\ t.from - HeaderLen \in frames[i].start + 1 .. End(i) - 1

\* A parser that is out of step may wait for a text that nobody sent, but not for
\* ever: the next messages are swallowed, or the connection is closed.
StalledReadEnds == open /\ need > 0 ~> ~open \/ need = 0

\* The frames follow each other and make up the stream.
Stream ==
    /\ \A i, j \in 1 .. Len(frames) : i < j => End(i) <= frames[j].start
    /\ \A i \in 1 .. Len(frames) : End(i) <= Sent
    /\ \A p \in 0 .. Sent - 1 : \E i \in 1 .. Len(frames) : p \in frames[i].start .. End(i) - 1

\* Where the parser is in a frame it is in step with: before it, behind its size, or at
\* a fourth byte of a text that was refused.
Aligned ==
    /\ \A i \in 1 .. Len(frames) : Trusted(i) /\ taken \in frames[i].start .. End(i) - 1 =>
          LET at == taken - frames[i].start IN
          \/ at = 0 /\ need = 0
          \/ at = HeaderLen /\ need = Size(i)
          \/ /\ Size(i) > MaxSize /\ at >= HeaderLen
             /\ ~Harmful(i) => need = 0 /\ at % HeaderLen = 0
    /\ taken = Sent /\ Trusted(Len(frames) + 1) => need = 0

\* Where the size was found of the text that is awaited.
Origin ==
    need > 0 => \E i \in 1 .. Len(frames) :
        \/ [from |-> taken, size |-> need] = TextOf(i)
        \/ frames[i].text = "built" /\ taken - frames[i].start \in 5 .. 7
        \/ /\ frames[i].text # "built"
           /\ taken - HeaderLen \in frames[i].start + 1 .. End(i) - 1

\* What the parser keeps through every step: what was dispatched lies behind it, and it
\* stands where the frames tell while it is in step.
ParserInv == /\ TypeOK
             /\ Stream
             /\ \A t \in Dispatched : t.from + t.size <= taken
             /\ need > 0 => \A t \in Dispatched : t.from + t.size + HeaderLen <= taken
             /\ Aligned /\ Origin /\ InStep /\ Genuine
=============================================================================
