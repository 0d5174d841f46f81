------------------------------- MODULE Framing -------------------------------
(***************************************************************************)
(* The byte stream of one direction of a connection: frames are encoded    *)
(* and written by one PeerLink, cut up by TCP in any way, and put together *)
(* again by the FrameReader of the other, whose frames PeerLink::onReadyRead*)
(* hands on.  A frame is its length, most significant byte first, its      *)
(* type and its payload.                                                   *)
(*                                                                         *)
(* Bytes are digits of a small base and the length has few of them, so     *)
(* that every payload can look like a header.  A connection that breaks is *)
(* one on which no more bytes arrive.                                      *)
(* A definition named ..._Bug is a plausible mistake in the definition     *)
(* that follows it, for showing that a property would notice.              *)
(***************************************************************************)
EXTENDS Naturals, Sequences, SequencesExt, FiniteSetsExt

CONSTANTS Base,      \* values of a byte
          LenBytes,  \* bytes of the length
          MaxFrame,  \* kMaxFrameBytes, the limit of the length
          Payload,   \* payloads that are sent
          MaxSent    \* bound on the frames written

kJson == 1
kBin  == 2
Type == {0, kJson, kBin}   \* 0 stands for every type the program does not know
Byte == 0 .. Base - 1
Header == LenBytes + 1

\* n without its last k digits.
Shifted(n, k) == LET s[i \in Nat] == IF i = 0 THEN n ELSE s[i - 1] \div Base IN s[k]

\* The length of every payload fits into its bytes.
ASSUME FramingAssumption ==
  /\ Base \in Nat /\ Type \subseteq Byte
  /\ LenBytes \in Nat \ {0} /\ MaxFrame \in Nat /\ MaxSent \in Nat
  /\ \A p \in Payload : p \in Seq(Byte) /\ Shifted(Len(p), LenBytes) = 0

VARIABLES
  sent,     \* frames written to the socket
  arrived,  \* how many bytes of them readAll has returned so far
  buf,      \* FrameReader::m_buf
  error,    \* FrameReader::m_error
  got       \* frames given to handleJsonFrame or binaryReceived

vars == <<sent, arrived, buf, error, got>>

Frame == [type : Type, payload : Payload]
-----------------------------------------------------------------------------
(* Encoding *)

\* qToBigEndian.
BigEndian(n) == [k \in 1 .. LenBytes |-> Shifted(n, LenBytes - k) % Base]

Encode(f) == BigEndian(Len(f.payload)) \o <<f.type>> \o f.payload

\* What a sequence of frames is on the wire.
Wire(frames) == FlattenSeq([k \in DOMAIN frames |-> Encode(frames[k])])
Stream == Wire(sent)
-----------------------------------------------------------------------------
(* FrameReader::next on a buffer *)

\* qFromBigEndian.
Declared(b) == LET v[k \in 0 .. LenBytes] == IF k = 0 THEN 0 ELSE v[k - 1] * Base + b[k] IN v[LenBytes]

\* The limit itself is refused.
TooLarge_LimitBug(b) == Len(b) >= Header /\ Declared(b) >= MaxFrame

\* The length is checked once the frame is complete.
TooLarge_LateBug(b) ==
  Len(b) >= Header /\ Declared(b) > MaxFrame /\ Len(b) >= Header + Declared(b)

TooLarge(b) == Len(b) >= Header /\ Declared(b) > MaxFrame

\* One byte more than the frame is waited for.
Complete_OffByOneBug(b) == Len(b) >= Header /\ Len(b) > Header + Declared(b)

Complete(b) == Len(b) >= Header /\ Len(b) >= Header + Declared(b)

\* The payload cut out from the type byte on.
First_ShiftBug(b) ==
  [type |-> b[Header], payload |-> SubSeq(b, Header, Header + Declared(b))]

First(b) ==
  [type |-> b[Header], payload |-> SubSeq(b, Header + 1, Header + Declared(b))]

\* What onReadyRead does with a frame: those of other types are read and dropped.
Handled(f) == f.type \in {kJson, kBin}
Handed(f) == IF Handled(f) THEN <<f>> ELSE <<>>

\* FrameReader::next in state r, and what becomes of its frame.
NextFrame(r) ==
  CASE r.error -> r
    [] ~r.error /\ TooLarge(r.buf) -> [r EXCEPT !.error = TRUE]
    [] ~r.error /\ ~TooLarge(r.buf) /\ Complete(r.buf) ->
         [r EXCEPT !.buf = SubSeq(@, Header + Declared(@) + 1, Len(@)),
                   !.got = @ \o Handed(First(r.buf))]
    [] OTHER -> r

\* The loop of onReadyRead: next() until it has no frame, which is at the latest
\* when it has been called once for each byte.
Drained(r) ==
  LET after[n \in Nat] == IF n = 0 THEN r ELSE NextFrame(after[n - 1])
  IN after[Len(r.buf)]
-----------------------------------------------------------------------------
Init == sent = <<>> /\ arrived = 0 /\ buf = <<>> /\ error = FALSE /\ got = <<>>

\* sendJson, sendBinary and sendJsonAndBinary: whole frames, one or two at a
\* time.  No sender looks at the limit.
Write(frames) ==
  /\ Len(sent) + Len(frames) <= MaxSent
  /\ sent' = sent \o frames
  /\ UNCHANGED <<arrived, buf, error, got>>

\* readyRead with the next n bytes.  After an error they are thrown away.
OnReadyRead(n) ==
  /\ arrived + n <= Len(Stream)
  /\ arrived' = arrived + n
  /\ IF error THEN UNCHANGED <<buf, error, got>>
     ELSE LET bytes == SubSeq(Stream, arrived + 1, arrived + n)
              r == Drained([buf |-> buf \o bytes, error |-> FALSE, got |-> got])
          IN buf' = r.buf /\ error' = r.error /\ got' = r.got
  /\ UNCHANGED sent

Next ==
  \/ \E f \in Frame : Write(<<f>>)
  \/ \E f, g \in Frame : f.type = kJson /\ g.type = kBin /\ Write(<<f, g>>)
  \/ \E n \in 1 .. Len(Stream) - arrived : OnReadyRead(n)

Spec == Init /\ [][Next]_vars
-----------------------------------------------------------------------------
(* Properties *)

FramingTypeOK ==
  /\ sent \in Seq(Frame) /\ Len(sent) <= MaxSent
  /\ arrived \in 0 .. Len(Stream)
  /\ buf \in Seq(Byte) /\ error \in BOOLEAN
  /\ \A k \in DOMAIN got : got[k] \in Frame /\ Len(got[k].payload) <= MaxFrame

\* Where the k-th frame ends in the stream.
End(k) == Len(Wire(SubSeq(sent, 1, k)))

Acceptable(k) == \A j \in 1 .. k : Len(sent[j].payload) <= MaxFrame

\* However TCP cuts up the stream, the frames handed on are at any time the ones
\* that have arrived whole, in order and unchanged, up to the first one that is
\* too large.
WholeFrames ==
  LET whole == {k \in 0 .. Len(sent) : End(k) <= arrived /\ Acceptable(k)} IN
  got = FlattenSeq([k \in 1 .. Max(whole) |-> Handed(sent[k])])

\* The reader fails exactly when the header of a frame that is too large is in,
\* never on a legal frame and not as late as its last byte.
FailsOnHeader ==
  error <=> \E k \in 1 .. Len(sent) :
              /\ Acceptable(k - 1) /\ ~Acceptable(k)
              /\ End(k - 1) + Header <= arrived

\* Between two events the reader holds less than one frame of the largest size:
\* neither small cuts nor a frame that is too large make its buffer grow.
BufferBounded == ~error => Len(buf) < Header + MaxFrame
=============================================================================
