------------------------------- MODULE Frames -------------------------------
(***************************************************************************)
(* Peer transport framing (packages/contracts/src/frames.ts, which the     *)
(* addon's Comms/Frames.lua mirrors): a message is cut into frames, and    *)
(* the receiver puts the frames together again as they come: late, twice,  *)
(* in any order or not at all.                                             *)
(*                                                                         *)
(* A chunk is its message and place; the checksum, which only drops       *)
(* frames, is left out with them.  The second half of the module is        *)
(* the arithmetic of chunkMessage, on lengths alone.                       *)
(***************************************************************************)
EXTENDS Naturals, Sequences, FiniteSets

CONSTANTS
  Message,          \* messages on their way: sender, id, number of chunks, body
  MaxAssemblies,    \* TRANSPORT.maxConcurrentAssemblies
  IdleTimeout, TotalTimeout,  \* assemblyIdleTimeoutSec, assemblyTotalTimeoutSec
  MaxFrames,        \* bound on the frames the channel delivers
  MaxAgain,         \* and on those it delivers a second time
  MaxClock,         \* bound on the clock
  FrameBytes, MaxMessageBytes, MaxChunks,  \* TRANSPORT
  SeqDigits         \* lengths of the sequence number

ASSUME FramesAssumption ==
  /\ \A m \in Message : m.total \in 1..MaxChunks
  /\ {MaxAssemblies, IdleTimeout, TotalTimeout, MaxFrames, MaxAgain, MaxClock,
      FrameBytes, MaxMessageBytes, MaxChunks} \subseteq Nat

\* What chunkMessage relies on: chunks of 96 bytes, its guess, would do for any
\* message, and a frame with the longest counters has room for such a chunk.
\* Counters are of up to three digits.
ASSUME TransportAssumption ==
  /\ MaxChunks \in 1..36 * 36 * 36 - 1 /\ MaxMessageBytes <= 96 * MaxChunks
  /\ \A d \in SeqDigits \cup {1} : d \in Nat \ {0} /\ FrameBytes >= d + 32 + 132

VARIABLES
  clock,
  arrived,      \* how often each frame has been delivered
  assemblies,   \* Reassembler.assemblies
  out,          \* the bodies push has returned, each with its sender and id
  size          \* the length of a body to be chunked, and of its sequence number

frameVars == <<clock, arrived, assemblies, out, size>>

Frame == UNION {{[msg |-> m, index |-> i] : i \in 0..m.total - 1} : m \in Message}

\* Mutant of KeyOf: the message id alone.
KeyOfId(m) == m.id
\* An assembly knows its frames by their sender and their message id.
KeyOf(m) == <<m.from, m.id>>

FramesInit ==
  /\ clock = 0
  /\ arrived = [f \in Frame |-> 0]
  /\ assemblies = {}
  /\ out = <<>>
  /\ size = [bytes |-> 0, seq |-> 1]

\* A frame brings chunk f.index of its own message; its session and sequence
\* number are not looked at.
Fresh(f) == [key |-> KeyOf(f.msg), from |-> f.msg.from, total |-> f.msg.total, chunks |-> {},
             progress |-> clock, started |-> clock]

Held(f) == {a \in assemblies : a.key = KeyOf(f.msg)}
FromSender(f) == {a \in assemblies : a.from = f.msg.from}

\* Reassembler.push once the assembly is known: a chunk that is there already
\* changes nothing; the last missing chunk completes the body and the
\* assembly is forgotten.
Fill(f, a) ==
  LET isNew == \A c \in a.chunks : c.index # f.index
      b == IF isNew THEN [a EXCEPT !.chunks = @ \cup {f}, !.progress = clock] ELSE a
      others == assemblies \ Held(f)
  IN IF Cardinality(b.chunks) = b.total
     THEN /\ out' = Append(out, [key |-> b.key, chunks |-> b.chunks])
          /\ assemblies' = others
     ELSE /\ assemblies' = others \cup {b}
          /\ UNCHANGED out

\* The channel delivers a frame; what is not delivered is lost.
Push(f) ==
  /\ \/ arrived[f] = 0 /\ Cardinality({g \in Frame : arrived[g] > 0}) < MaxFrames
     \/ arrived[f] = 1 /\ Cardinality({g \in Frame : arrived[g] = 2}) < MaxAgain
  /\ arrived' = [arrived EXCEPT ![f] = @ + 1]
  /\ \/ \E a \in Held(f) : a.total = f.msg.total /\ Fill(f, a)
     \/ /\ Held(f) = {}
        /\ Cardinality(FromSender(f)) < MaxAssemblies
        /\ Fill(f, Fresh(f))
     \/ \* "chunk total changed", "too many concurrent assemblies"
        /\ \/ \E a \in Held(f) : a.total # f.msg.total
           \/ Held(f) = {} /\ Cardinality(FromSender(f)) >= MaxAssemblies
        /\ UNCHANGED <<assemblies, out>>
  /\ UNCHANGED <<clock, size>>

Stale(a) == clock - a.progress > IdleTimeout \/ clock - a.started > TotalTimeout

Sweep ==
  /\ \E a \in assemblies : Stale(a)
  /\ assemblies' = {a \in assemblies : ~Stale(a)}
  /\ UNCHANGED <<clock, arrived, out, size>>

Pass ==
  /\ clock < MaxClock
  /\ clock' = clock + 1
  /\ UNCHANGED <<arrived, assemblies, out, size>>

-----------------------------------------------------------------------------
(* chunkMessage *)

AtLeast1(n) == IF n < 1 THEN 1 ELSE n
CeilDiv(n, d) == (n + d - 1) \div d
Digits36(n) == IF n < 36 THEN 1 ELSE IF n < 36 * 36 THEN 2 ELSE 3
Base64Length(n) == 4 * (n \div 3) + (IF n % 3 = 0 THEN 0 ELSE (n % 3) + 1)

\* WF2|sid|mid|seq|ci/cn|sum|
HeadLength(s, index, total) ==
  4 + 5 + 9 + (s.seq + 1) + (Digits36(index) + 1 + Digits36(total) + 1) + 5

ProbeTotal(s) ==
  LET guess == AtLeast1(CeilDiv(s.bytes, 96)) IN IF guess > MaxChunks THEN MaxChunks ELSE guess
DataChars(s) == FrameBytes - HeadLength(s, ProbeTotal(s) - 1, ProbeTotal(s))

\* Mutant of DataBytes: every character of the frame carries a byte.
DataBytesPlain(s) == DataChars(s)
DataBytes(s) == (DataChars(s) \div 4) * 3 - 3
ChunkTotal(s) == AtLeast1(CeilDiv(s.bytes, DataBytes(s)))

\* A longer body is chunked; bodies over MaxMessageBytes are refused.
Grow ==
  /\ clock = 0 /\ \A f \in Frame : arrived[f] = 0
  /\ \/ size.bytes < MaxMessageBytes /\ size' = [size EXCEPT !.bytes = @ + 1]
     \/ \E s \in SeqDigits : size.bytes = 0 /\ size.seq # s /\ size' = [size EXCEPT !.seq = s]
  /\ UNCHANGED <<clock, arrived, assemblies, out>>

FramesNext ==
  \/ Grow
  \/ size.bytes = 0 /\ size.seq = 1 /\ ((\E f \in Frame : Push(f)) \/ Sweep \/ Pass)

FramesSpec == FramesInit /\ [][FramesNext]_frameVars

-----------------------------------------------------------------------------
(***************************************************************************)
(* Properties                                                              *)
(***************************************************************************)

\* All frames of a message.
FramesOf(m) == {[msg |-> m, index |-> k] : k \in 0..m.total - 1}

\* Messages whose frames the receiver takes for one message's: their sender
\* used the id again, with as many chunks.
Alike(m, n) == m.from = n.from /\ m.id = n.id /\ m.total = n.total

\* No frame of another message like m has come yet.
UsedOnce(m) == \A f \in Frame : Alike(f.msg, m) /\ f.msg # m => arrived[f] = 0

\* One chunk for each place of m, of m or of messages like it.
Pieced(chunks, m) ==
  \E of \in [0..m.total - 1 -> {n \in Message : Alike(n, m)}] :
    chunks = {[msg |-> of[k], index |-> k] : k \in 0..m.total - 1}

\* What push returns has one chunk for each place, all of one sender, one id and
\* one number of chunks; it is a message its sender sent, whole, unless a frame
\* of another message has come on which the sender used the id again with as
\* many chunks (nothing else of a frame is compared, and its chunks then fill
\* the places of the first); and no frame is given out more often than it came
\* (Reassembler: "the complete message body when the last missing chunk
\* arrives").
DeliveredWhole ==
  /\ \A i \in DOMAIN out : \E m \in Message : Pieced(out[i].chunks, m)
  /\ \A i \in DOMAIN out : \A f \in out[i].chunks :
       UsedOnce(f.msg) => out[i].chunks = FramesOf(f.msg)
  /\ \A f \in Frame :
       Cardinality({i \in DOMAIN out : f \in out[i].chunks}) <= arrived[f]

\* A message of any admitted length fits into its frames: no frame is larger
\* than the channel takes, there are no more of them than a receiver accepts,
\* and together they carry the body (chunkMessage, whose frame budget is
\* computed from a guess at their number).
ChunksFit ==
  LET total == ChunkTotal(size) IN
  /\ total <= MaxChunks
  /\ total * DataBytes(size) >= size.bytes
  /\ HeadLength(size, total - 1, total) + Base64Length(DataBytes(size)) <= FrameBytes

-----------------------------------------------------------------------------
SizeInv == size \in [bytes: 0..MaxMessageBytes, seq: SeqDigits \cup {1}]

\* Whether a frame is held by an assembly, and how often it was given out.
InAssembly(f) == \E a \in assemblies : f \in a.chunks
GivenOut(f) == {i \in DOMAIN out : f \in out[i].chunks}

Assembly == [key: {KeyOf(m) : m \in Message}, from: {m.from : m \in Message}, total: Nat,
             chunks: SUBSET Frame, progress: Nat, started: Nat]

FramesTypeOK ==
  /\ clock \in Nat /\ arrived \in [Frame -> Nat]
  /\ assemblies \subseteq Assembly
  /\ out \in Seq([key: {KeyOf(m) : m \in Message}, chunks: SUBSET Frame])

\* An assembly holds chunks of messages its key and its total stand for, one
\* for a place.
AssemblyInv(a) ==
  /\ \E m \in Message : /\ a.key = KeyOf(m) /\ a.total = m.total
                         /\ \A c \in a.chunks : Alike(c.msg, m)
  /\ \A c, d \in a.chunks : c.index = d.index => c = d

\* The inductive invariant behind DeliveredWhole.
FramesInv ==
  /\ FramesTypeOK
  /\ \A a \in assemblies : AssemblyInv(a)
  /\ \A a, b \in assemblies : a.key = b.key => a = b
  /\ \A i \in DOMAIN out : \E m \in Message : Pieced(out[i].chunks, m)
  /\ \A f \in Frame :
       Cardinality(GivenOut(f)) + (IF InAssembly(f) THEN 1 ELSE 0) <= arrived[f]
=============================================================================
