------------------------------- MODULE Stream -------------------------------
(***************************************************************************)
(* DeterministicStream of detersim-net: frames are numbered as they are    *)
(* sent, suffer the faults listed with them, wait in a buffer and leave it *)
(* in order of their numbers.  A fault names the frame it is for, so of    *)
(* the faults given with a frame only its own matter.                      *)
(***************************************************************************)
EXTENDS Naturals, Sequences, FiniteSets, SequencesExt

CONSTANTS
  MaxFrames  \* bound: frames sent

VARIABLES
  next_send,
  next_deliver,
  connected,
  buffered,        \* the numbers of the frames in the buffer
  delivered_once,
  delivered,       \* transcript.delivered
  events,          \* transcript.events, each with the frame it is about
  finished         \* into_transcript has consumed the stream

vars == <<next_send, next_deliver, connected, buffered, delivered_once, delivered, events, finished>>

Init ==
  /\ next_send = 0 /\ next_deliver = 0 /\ connected = TRUE
  /\ buffered = {} /\ delivered_once = {}
  /\ delivered = <<>> /\ events = <<>>
  /\ finished = FALSE

Event(label, seq) == [label |-> label, seq |-> seq]
Labels(given, label, seq) == IF given THEN <<Event(label, seq)>> ELSE <<>>

\* Mutant: a missing frame is passed over when a later one is there.
DrainsOverGap(buffer, k) == k \notin buffer

\* Mutant: one frame leaves at a time.
DrainsOne(buffer, k) == k = next_deliver + Cardinality({next_deliver} \intersect buffer)

\* The drain may stop before frame k: it is not in the buffer, all before it are.
DrainsTo(buffer, k) == k \notin buffer /\ next_deliver .. k - 1 \subseteq buffer

\* The frames from first up to before k that were never delivered, in order.
Fresh(first, k) ==
  LET upto[n \in first .. k] ==
        IF n = first THEN <<>>
        ELSE IF n - 1 \in delivered_once THEN upto[n - 1] ELSE Append(upto[n - 1], n - 1)
  IN  upto[k]

\* drain_ordered on the given buffer, after the given events.
Drain(buffer, before) ==
  \E k \in next_deliver .. next_send' :
    LET new == Fresh(next_deliver, k)
    IN  /\ DrainsTo(buffer, k)
        /\ next_deliver' = k
        /\ buffered' = buffer \ (next_deliver .. k - 1)
        /\ delivered_once' = delivered_once \union ToSet(new)
        /\ delivered' = delivered \o new
        /\ events' = before \o [i \in DOMAIN new |-> Event("deliver", new[i])]

\* The faults a caller can list for the frame it sends.  A delay names a frame.
Faults == [disconnect : BOOLEAN, reconnect : BOOLEAN, drop : BOOLEAN, duplicate : BOOLEAN,
           delay : {<<>>} \union {<<after>> : after \in 0 .. MaxFrames}]

\* Where both are listed the stream ends up connected.
ConnectedUnder(faults) == faults.reconnect \/ (connected /\ ~faults.disconnect)

NotOnItsWay(faults) == faults.drop \/ ~ConnectedUnder(faults)

Delays(faults) == faults.delay # <<>> /\ next_deliver <= faults.delay[1]

\* Mutant: the second copy is enqueued like the first.
EnqueuedTwice(faults, seq) ==
  <<Event("enqueue", seq)>> \o Labels(faults.duplicate, "enqueue", seq)

\* What the transcript says of a frame on its way.
Enqueued(faults, seq) ==
  <<Event("enqueue", seq)>> \o Labels(faults.duplicate, "duplicate", seq)
                           \o Labels(faults.delay # <<>>, "delay", seq)

Send(faults) ==
  LET seq == next_send
      links == events \o Labels(faults.disconnect, "disconnect", seq)
                      \o Labels(faults.reconnect, "reconnect", seq)
  IN  /\ ~finished /\ next_send < MaxFrames
      /\ next_send' = seq + 1
      /\ connected' = ConnectedUnder(faults)
      /\ IF NotOnItsWay(faults)
         THEN /\ events' = Append(links, Event(IF connected' THEN "drop" ELSE "blocked", seq))
              /\ UNCHANGED <<next_deliver, buffered, delivered_once, delivered>>
         ELSE IF Delays(faults)
         THEN /\ buffered' = buffered \union {seq}
              /\ events' = links \o Enqueued(faults, seq)
              /\ UNCHANGED <<next_deliver, delivered_once, delivered>>
         ELSE Drain(buffered \union {seq}, links \o Enqueued(faults, seq))
      /\ UNCHANGED finished

Flush ==
  /\ ~finished
  /\ UNCHANGED <<next_send, connected, finished>>
  /\ Drain(buffered, events)

\* Mutant: the transcript is taken as it is.
FinalUnflushed == UNCHANGED <<next_deliver, buffered, delivered_once, delivered, events>>
FinalFlush == Drain(buffered, events)

IntoTranscript ==
  /\ ~finished /\ finished' = TRUE
  /\ UNCHANGED <<next_send, connected>>
  /\ FinalFlush

Next == (\E faults \in Faults : Send(faults)) \/ Flush \/ IntoTranscript

Spec == Init /\ [][Next]_vars

-----------------------------------------------------------------------------
\* The events under one of the labels: where they are, the frames they are about,
\* and whether these come one after another, none twice.
At(labels) == {i \in DOMAIN events : events[i].label \in labels}
About(labels) == {events[i].seq : i \in At(labels)}
Ascending(labels) == \A i, j \in At(labels) : i < j => events[i].seq < events[j].seq

\* The frames that never got on their way, as the transcript tells.
Missing == About({"drop", "blocked"})

\* The stream is a channel.  A lost frame has used up its number, so everything sent
\* after it stays in the buffer for ever; duplicates and delays change nothing.
Fifo == INSTANCE Channel WITH sent <- next_send, lost <- Missing
ImplementsChannel == Fifo!Spec

\* Whatever was delayed, a finished transcript has all the frames before the first
\* missing one.
FinishedIsComplete ==
  finished => \A seq \in 0 .. next_send - 1 :
                (\A s \in 0 .. seq : s \notin Missing) => seq \in ToSet(delivered)

\* The transcript accounts for every frame once: what became of it when it was sent,
\* in order, and its delivery, after that.
TranscriptAccounts ==
  /\ About({"drop", "blocked", "enqueue"}) = 0 .. next_send - 1
  /\ Ascending({"drop", "blocked", "enqueue"})
  /\ About({"deliver"}) = ToSet(delivered) /\ Ascending({"deliver"})
  /\ \A i, j \in DOMAIN delivered : i < j => delivered[i] < delivered[j]
  /\ \A i \in At({"deliver"}), j \in At({"enqueue"}) : events[i].seq = events[j].seq => j < i

\* A frame whose turn it is waits only as long as the last frame on its way is a
\* delayed one: the next that is neither lost nor delayed takes it along.
DelayIsShort ==
  next_deliver \in buffered =>
    \E i \in At({"delay"}) : \A j \in At({"enqueue", "delay"}) : j <= i
=============================================================================
