--------------------------- MODULE PeerConnProofs ---------------------------
(***************************************************************************)
(* Proofs, for all timeouts, buffers and delays, that an end gives up a    *)
(* dead connection within EvictionTime, and that neither end gives up a    *)
(* healthy one if the timeouts are large enough for the network and the    *)
(* handlers (Timely).                                                      *)
(***************************************************************************)
EXTENDS PeerConn, SequenceTheorems, TLAPS

Idle == Timeout("idle")
Keepalive == Timeout("keepalive")

Kinds == {"e", "e ee s es", "s se", "hello", "ack", "data", "keepalive"}
Frame == [kind: Kinds, left: 0 .. Delay]

Clocks ==
    /\ pos \in [Ends -> 0 .. 5] /\ hello \in [Ends -> 0 .. HandshakeTimeout]
    /\ wleft \in [Ends -> Nat] /\ rleft \in [Ends -> Nat]
    /\ timer \in [Ends -> 0 .. Keepalive] /\ queue \in [Ends -> Nat]
    /\ age \in Nat

Flags ==
    /\ snd \in [Ends -> {"off", "select", "data", "keepalive", "done"}]
    /\ rcv \in [Ends -> {"off", "read", "handle", "done"}]
    /\ closed \in [Ends -> BOOLEAN]
    /\ cut \in BOOLEAN /\ stopped \in BOOLEAN /\ stalled \in SUBSET Ends

Sockets == wire \in [Ends -> Seq(Frame)] /\ buf \in [Ends -> Seq(Kinds)]

Types == Clocks /\ Flags /\ Sockets

\* How many frames are on their way to end e.
Load(e) == Len(wire[e]) + Len(buf[e])

\* The loops run from the end of the opening on; buffers and deadlines are bounded.
LoadBound == \A e \in Ends : Load(e) <= WireCap

Loops ==
    \A e \in Ends :
        /\ pos[e] = 5 <=> snd[e] # "off"
        /\ pos[e] = 5 <=> rcv[e] # "off"
        /\ rcv[e] = "read" => rleft[e] <= Idle
        /\ rcv[e] = "handle" => rleft[e] <= HandlerMax

\* Where the two ends may be in the opening, and how many frames are then on
\* their way to the acceptor and to the dialer, unless the cut has lost some.
At(d, a, toA, toD) ==
    /\ pos["dialer"] = d /\ pos["acceptor"] = a
    /\ Load("acceptor") <= toA /\ Load("dialer") <= toD
    /\ ~cut => Load("acceptor") = toA /\ Load("dialer") = toD

Shape ==
    \/ At(0, 0, 0, 0) \/ At(1, 0, 1, 0) \/ At(1, 1, 0, 0) \/ At(1, 2, 0, 1) \/ At(2, 2, 0, 0)
    \/ At(3, 2, 1, 0) \/ At(4, 2, 2, 0) \/ At(3, 3, 0, 0) \/ At(4, 3, 1, 0) \/ At(4, 4, 0, 0)
    \/ pos["dialer"] = 4 /\ pos["acceptor"] = 5 /\ Load("acceptor") = 0
    \/ pos["dialer"] = 5 /\ pos["acceptor"] = 5

Healthy == ~cut /\ ~stopped /\ stalled = {}

\* With w under way and b in the socket's buffer, an end has something to read in
\* less than t ticks; all of w arrives in less than t ticks.
Soon(w, b, t) == b # << >> \/ (w # << >> /\ w[1].left < t)
All(w, t) == \A i \in DOMAIN w : w[i].left < t

AllUp == \A e \in Ends : ~closed[e] /\ snd[e] # "done" /\ rcv[e] # "done"

\* The deadline of the hello exchange leaves time for the messages that are
\* still missing.
HelloInTime ==
    /\ pos["dialer"] = 3 => All(wire["acceptor"], hello["dialer"] - 2 * Delay) /\ hello["dialer"] > 2 * Delay
    /\ pos["dialer"] = 4 /\ pos["acceptor"] < 5 =>
         All(wire["acceptor"], hello["dialer"] - Delay) /\ hello["dialer"] > Delay
    /\ pos["dialer"] = 4 /\ pos["acceptor"] = 5 => Soon(wire["dialer"], buf["dialer"], hello["dialer"]) /\ hello["dialer"] > 0
    /\ pos["acceptor"] = 3 =>
         /\ All(wire["acceptor"], hello["acceptor"]) /\ hello["acceptor"] > 0
         /\ pos["dialer"] = 3 => hello["acceptor"] > Delay
    /\ pos["acceptor"] = 4 => hello["acceptor"] > 0

\* While an end reads, a frame is there, or under way, or will be written before the idle deadline:
\* by the send loop of the other end, by its keepalive timer, or once the ack has
\* arrived that starts it.
ReadInTime(e, o) ==
    rcv[e] = "read" =>
        /\ rleft[e] > 0
        /\ \/ Soon(wire[e], buf[e], rleft[e])
           \/ snd[o] = "select" /\ rleft[e] > timer[o] + Delay
           \/ snd[o] \in {"data", "keepalive"} /\ rleft[e] > Delay
           \/ /\ pos[o] = 4 /\ rleft[e] > Keepalive + Delay
              /\ Soon(wire[o], buf[o], rleft[e] - Keepalive - Delay)

\* While an end writes, there is room, or the other end will make room before
\* the write deadline.
WriteInTime(e, o) ==
    snd[e] \in {"data", "keepalive"} =>
        /\ wleft[e] > 0
        /\ \/ Room(e)
           \/ Soon(wire[o], buf[o], wleft[e]) /\ (rcv[o] = "handle" => wleft[e] > rleft[o])

InTime ==
    /\ AllUp /\ HelloInTime
    /\ \A e \in Ends : ReadInTime(e, Other(e)) /\ WriteInTime(e, Other(e))

HealthyInv == Types /\ LoadBound /\ Loops /\ Shape /\ (Healthy => InTime)

\* Once the clock has moved after the cut, an end that is still opening the
\* connection has nothing left to do, or has its last message to write.
Frozen ==
    /\ ~cut => age = 0
    /\ age > 0 => \A e \in Ends : pos[e] < 5 /\ ~closed[e] =>
         (e = "dialer" /\ pos[e] = 3) \/ (Writer(pos[e] + 1) # e /\ buf[e] = << >>)

\* How long an end of a dead connection still takes, at most: with p messages of the opening
\* dealt with, h left of the hello deadline, and a receive loop in state r with l
\* left of its deadline and n frames in the buffer.
TimeLeft(p, h, r, l, n) ==
    IF p \in {3, 4} THEN h
    ELSE IF r = "handle" THEN l + n * HandlerMax + Idle
    ELSE IF r = "read" THEN (IF n > 0 THEN n * HandlerMax + Idle ELSE l)
    ELSE 0

Remaining(e) == TimeLeft(pos[e], hello[e], rcv[e], rleft[e], Len(buf[e]))

Dying == stalled = {} => \A e \in Ends : pos[e] >= 3 /\ ~closed[e] => age + Remaining(e) <= EvictionTime

DeadInv == Types /\ LoadBound /\ Loops /\ Shape /\ Frozen /\ Dying

-----------------------------------------------------------------------------
(* Constants, ends and sequences.                                           *)

LEMMA OtherEnd ==
  ASSUME NEW e \in Ends
  PROVE  Other(e) \in Ends /\ Other(e) # e /\ Other(Other(e)) = e
  BY DEF Ends, Other

LEMMA Timeouts ==
  /\ Idle \in Nat \ {0} /\ Keepalive \in Nat \ {0} /\ Timeout("write") \in Nat \ {0}
  /\ HandshakeTimeout \in Nat \ {0} /\ Delay \in Nat /\ HandlerMax \in Nat /\ WireCap \in Nat \ {0}
  BY PeerConnAssumption DEF Idle, Keepalive, Timeout, Fields

\* EvictionTime covers both phases.
LEMMA EvictionBounds ==
  /\ EvictionTime \in Nat
  /\ HandshakeTimeout <= EvictionTime
  /\ Idle + (WireCap + 1) * HandlerMax <= EvictionTime
  <1>1. (WireCap + 1) * HandlerMax \in Nat
    BY Timeouts
  <1>2. QED
    BY <1>1, Timeouts DEF EvictionTime, Idle

LEMMA Lefts ==
  ASSUME NEW w \in Seq(Frame)
  PROVE  /\ DOMAIN w = 1 .. Len(w) /\ Len(w) \in Nat
         /\ \A i \in 1 .. Len(w) : w[i].left \in Nat /\ w[i].left <= Delay
  <1>1. \A f \in Frame : f.left \in Nat /\ f.left <= Delay
    BY Timeouts DEF Frame
  <1>2. \A i \in 1 .. Len(w) : w[i] \in Frame
    OBVIOUS
  <1>3. QED
    BY <1>1, <1>2

\* A frame at the end of what is under way.
LEMMA Appended ==
  ASSUME NEW w \in Seq(Frame), NEW f \in Frame, NEW b, NEW t \in Int
  PROVE  /\ Append(w, f) \in Seq(Frame) /\ Len(Append(w, f)) = Len(w) + 1
         /\ Soon(w, b, t) => Soon(Append(w, f), b, t)
         /\ t > Delay => Soon(Append(w, f), b, t)
         /\ All(w, t) /\ t > Delay => All(Append(w, f), t)
  <1>1. /\ Append(w, f) \in Seq(Frame) /\ Len(Append(w, f)) = Len(w) + 1
        /\ \A i \in 1 .. Len(w) : Append(w, f)[i] = w[i]
        /\ Append(w, f)[Len(w) + 1] = f
        /\ Append(w, f) # << >>
    BY AppendProperties
  <1>2. \A i \in 1 .. Len(w) : w[i] \in Frame
    OBVIOUS
  <1>3. \A g \in Frame : g.left \in Int /\ g.left <= Delay
    BY Timeouts DEF Frame
  <1>4. DOMAIN w = 1 .. Len(w) /\ Len(w) \in Nat /\ DOMAIN Append(w, f) = 1 .. Len(w) + 1
    BY <1>1
  <1>5. w # << >> => 1 \in 1 .. Len(w)
    BY <1>4
  <1>6. w = << >> => Append(w, f)[1] = f
    BY <1>1
  <1>7. Append(w, f)[1] \in Frame /\ (w # << >> => Append(w, f)[1] = w[1])
    BY <1>1, <1>2, <1>5, <1>6
  <1>8. All(w, t) /\ t > Delay => All(Append(w, f), t)
    <2> SUFFICES ASSUME All(w, t), t > Delay, NEW i \in 1 .. Len(w) + 1
                 PROVE  Append(w, f)[i].left < t
      BY <1>4 DEF All
    <2>1. CASE i \in 1 .. Len(w)
      BY <1>1, <1>4, <2>1 DEF All
    <2>2. CASE i = Len(w) + 1
      BY <1>1, <1>3, <2>2, Timeouts
    <2>3. QED
      BY <1>4, <2>1, <2>2
  <1>9. QED
    BY <1>1, <1>3, <1>7, <1>8, Timeouts DEF Soon

\* The first frame has arrived.
LEMMA Arrived ==
  ASSUME NEW w \in Seq(Frame), w # << >>, NEW b \in Seq(Kinds), NEW t \in Int
  PROVE  /\ Tail(w) \in Seq(Frame) /\ Len(Tail(w)) = Len(w) - 1
         /\ Append(b, Head(w).kind) \in Seq(Kinds) /\ Len(Append(b, Head(w).kind)) = Len(b) + 1
         /\ Soon(Tail(w), Append(b, Head(w).kind), t)
         /\ All(w, t) => All(Tail(w), t)
  <1>1. Head(w).kind \in Kinds
    <2>1. Head(w) \in Frame
      BY HeadTailProperties
    <2>2. QED
      BY <2>1 DEF Frame
  <1>2. /\ Append(b, Head(w).kind) \in Seq(Kinds) /\ Len(Append(b, Head(w).kind)) = Len(b) + 1
        /\ Append(b, Head(w).kind) # << >>
    BY <1>1, AppendProperties
  <1>3. /\ Tail(w) \in Seq(Frame) /\ Len(Tail(w)) = Len(w) - 1
        /\ \A i \in 1 .. Len(Tail(w)) : Tail(w)[i] = w[i + 1]
    BY HeadTailProperties
  <1>4. All(w, t) => All(Tail(w), t)
    BY <1>3 DEF All
  <1>5. QED
    BY <1>2, <1>3, <1>4 DEF Soon

\* The first frame in the buffer is read.
LEMMA Popped ==
  ASSUME NEW b \in Seq(Kinds), b # << >>
  PROVE  Tail(b) \in Seq(Kinds) /\ Len(Tail(b)) = Len(b) - 1 /\ Len(b) >= 1
  BY HeadTailProperties, EmptySeq

\* The clock moves, with a first frame that need not arrive yet.
Aged(w) == [i \in DOMAIN w |-> [w[i] EXCEPT !.left = Down(@)]]

LEMMA Ageing ==
  ASSUME NEW w \in Seq(Frame)
  PROVE  /\ Aged(w) \in Seq(Frame) /\ Len(Aged(w)) = Len(w)
         /\ \A i \in 1 .. Len(w) : Aged(w)[i].left = Down(w[i].left)
  <1>1. \A f \in Frame : /\ [f EXCEPT !.left = Down(@)] \in Frame
                          /\ [f EXCEPT !.left = Down(@)].left = Down(f.left)
    <2>1. \A n \in 0 .. Delay : Down(n) \in 0 .. Delay
      BY Timeouts DEF Down
    <2>2. QED
      BY <2>1 DEF Frame
  <1>2. DOMAIN w = 1 .. Len(w) /\ Len(w) \in Nat /\ \A i \in 1 .. Len(w) : w[i] \in Frame
    OBVIOUS
  <1>3. Aged(w) \in [1 .. Len(w) -> Frame]
    BY <1>1, <1>2 DEF Aged
  <1>4. Aged(w) \in Seq(Frame) /\ Len(Aged(w)) = Len(w)
    <2>1. Aged(w) \in Seq(Frame)
      BY <1>2, <1>3, SeqDef
    <2>2. DOMAIN Aged(w) = 1 .. Len(w) /\ DOMAIN Aged(w) = 1 .. Len(Aged(w))
      BY <1>3, <2>1, LenProperties
    <2>3. QED
      BY <1>2, <2>1, <2>2, LenProperties
  <1>5. QED
    BY <1>1, <1>2, <1>4 DEF Aged

LEMMA AgedInTime ==
  ASSUME NEW w \in Seq(Frame), w # << >> => w[1].left # 0, NEW t \in Int
  PROVE  /\ Soon(w, << >>, t) => Soon(Aged(w), << >>, t - 1) /\ t > 1
         /\ w # << >> /\ All(w, t) => All(Aged(w), t - 1) /\ t > 1
  <1>1. DOMAIN w = 1 .. Len(w) /\ Len(w) \in Nat /\ \A i \in 1 .. Len(w) : w[i].left \in Nat
    BY Lefts
  <1>2. w # << >> => 1 \in 1 .. Len(w)
    BY <1>1
  <1>3. Aged(w) # << >> <=> w # << >>
    BY Ageing, EmptySeq
  <1>4. Soon(w, << >>, t) => Soon(Aged(w), << >>, t - 1) /\ t > 1
    BY <1>1, <1>2, <1>3, Ageing DEF Soon, Down
  <1>5. ASSUME w # << >>, All(w, t)
        PROVE  All(Aged(w), t - 1) /\ t > 1
    <2>1. t > 1
      BY <1>1, <1>2, <1>5 DEF All
    <2>2. DOMAIN Aged(w) = 1 .. Len(w)
      BY <1>1 DEF Aged
    <2>3. QED
      BY <1>1, <1>5, <2>1, <2>2, Ageing DEF All, Down
  <1>6. QED
    BY <1>4, <1>5

\* Frames take at most Delay, and more time does no harm.
LEMMA SoonEnough ==
  ASSUME NEW w \in Seq(Frame), NEW b, NEW t \in Int
  PROVE  /\ t > Delay /\ (w # << >> \/ b # << >>) => Soon(w, b, t)
         /\ t > Delay => All(w, t)
         /\ \A u \in Int : u >= t /\ Soon(w, b, t) => Soon(w, b, u)
  <1>1. DOMAIN w = 1 .. Len(w) /\ Len(w) \in Nat
        /\ \A i \in 1 .. Len(w) : w[i].left \in Nat /\ w[i].left <= Delay
    BY Lefts
  <1>2. w # << >> => 1 \in 1 .. Len(w)
    BY <1>1
  <1>3. QED
    BY <1>1, <1>2, Timeouts DEF Soon, All

-----------------------------------------------------------------------------
(* What the steps do to the frames under way.                               *)

NewFrame(kind) == [kind |-> kind, left |-> Delay]

LEMMA PutNet ==
  ASSUME Sockets, NEW e \in Ends, NEW kind \in Kinds, Put(e, kind)
  PROVE  /\ wire' \in [Ends -> Seq(Frame)] /\ buf' = buf
         /\ NewFrame(kind) \in Frame
         /\ wire'[e] = wire[e] /\ wire'[Other(e)] = Append(wire[Other(e)], NewFrame(kind))
         /\ Len(wire'[Other(e)]) = Len(wire[Other(e)]) + 1
         /\ Len(wire[Other(e)]) + Len(buf[Other(e)]) < WireCap
  <1>1. NewFrame(kind) \in Frame
    BY Timeouts DEF NewFrame, Frame
  <1>2. wire[Other(e)] \in Seq(Frame) /\ Other(e) \in Ends /\ Other(e) # e
    BY OtherEnd DEF Sockets
  <1>3. Append(wire[Other(e)], NewFrame(kind)) \in Seq(Frame)
        /\ Len(Append(wire[Other(e)], NewFrame(kind))) = Len(wire[Other(e)]) + 1
    BY <1>1, <1>2, AppendProperties
  <1>4. wire' = [wire EXCEPT ![Other(e)] = Append(wire[Other(e)], NewFrame(kind))] /\ buf' = buf
        /\ Len(wire[Other(e)]) + Len(buf[Other(e)]) < WireCap
    BY DEF Put, Room, NewFrame
  <1>5. QED
    BY <1>1, <1>2, <1>3, <1>4 DEF Sockets

LEMMA DeliverNet ==
  ASSUME Sockets, NEW e \in Ends, Deliver(e)
  PROVE  /\ wire' \in [Ends -> Seq(Frame)] /\ buf' \in [Ends -> Seq(Kinds)]
         /\ wire'[Other(e)] = wire[Other(e)] /\ buf'[Other(e)] = buf[Other(e)]
         /\ wire[e] # << >> /\ wire'[e] = Tail(wire[e]) /\ buf'[e] = Append(buf[e], Head(wire[e]).kind)
         /\ Len(wire'[e]) = Len(wire[e]) - 1 /\ Len(buf'[e]) = Len(buf[e]) + 1
  <1>1. wire[e] \in Seq(Frame) /\ buf[e] \in Seq(Kinds) /\ Other(e) \in Ends /\ Other(e) # e /\ wire[e] # << >>
    BY OtherEnd DEF Sockets, Deliver
  <1>2. /\ Tail(wire[e]) \in Seq(Frame) /\ Len(Tail(wire[e])) = Len(wire[e]) - 1
        /\ Append(buf[e], Head(wire[e]).kind) \in Seq(Kinds)
        /\ Len(Append(buf[e], Head(wire[e]).kind)) = Len(buf[e]) + 1
    BY <1>1, Arrived, 0 \in Int
  <1>3. /\ wire' = [wire EXCEPT ![e] = Tail(wire[e])]
        /\ buf' = [buf EXCEPT ![e] = Append(buf[e], Head(wire[e]).kind)]
    BY DEF Deliver
  <1>4. QED
    BY <1>1, <1>2, <1>3 DEF Sockets

LEMMA PopNet ==
  ASSUME Sockets, NEW e \in Ends, buf[e] # << >>, buf' = [buf EXCEPT ![e] = Tail(@)]
  PROVE  /\ buf' \in [Ends -> Seq(Kinds)]
         /\ buf'[Other(e)] = buf[Other(e)] /\ buf'[e] = Tail(buf[e])
         /\ Len(buf'[e]) = Len(buf[e]) - 1 /\ Len(buf[e]) >= 1
  BY OtherEnd, Popped DEF Sockets

LEMMA TickNet ==
  ASSUME Sockets, Tick
  PROVE  /\ wire' \in [Ends -> Seq(Frame)] /\ buf' = buf
         /\ \A e \in Ends : wire'[e] = Aged(wire[e]) /\ Len(wire'[e]) = Len(wire[e])
  <1>1. wire' = [e \in Ends |-> Aged(wire[e])] /\ buf' = buf
    BY DEF Tick, Aged
  <1>2. \A e \in Ends : Aged(wire[e]) \in Seq(Frame) /\ Len(Aged(wire[e])) = Len(wire[e])
    BY Ageing DEF Sockets
  <1>3. QED
    BY <1>1, <1>2

\* What Advance does to the clocks and the loops.
LEMMA AdvanceTypes ==
  ASSUME Clocks, Flags, NEW e \in Ends, pos[e] < 5, Advance(e)
  PROVE  Clocks' /\ Flags'
  <1> DEFINE h == CASE pos[e] = 2 -> HandshakeTimeout [] pos[e] = 4 -> 0 [] OTHER -> hello[e]
  <1>1. pos[e] + 1 \in 0 .. 5
    BY DEF Clocks
  <1>2. h \in 0 .. HandshakeTimeout
    <2>1. hello[e] \in 0 .. HandshakeTimeout
      BY DEF Clocks
    <2>2. QED
      BY <2>1, Timeouts
  <1>3. /\ pos' = [pos EXCEPT ![e] = pos[e] + 1] /\ hello' = [hello EXCEPT ![e] = h]
        /\ UNCHANGED <<wleft, queue, closed, cut, stalled, stopped, age>>
    BY DEF Advance, faults
  <1> HIDE DEF h
  <1>4. pos' \in [Ends -> 0 .. 5] /\ hello' \in [Ends -> 0 .. HandshakeTimeout]
    BY <1>1, <1>2, <1>3 DEF Clocks
  <1>5. CASE pos[e] = 4
    <2>1. /\ snd' = [snd EXCEPT ![e] = "select"] /\ rcv' = [rcv EXCEPT ![e] = "read"]
          /\ timer' = [timer EXCEPT ![e] = Keepalive] /\ rleft' = [rleft EXCEPT ![e] = Idle]
      BY <1>5 DEF Advance, Keepalive, Idle
    <2>2. Clocks'
      BY <1>3, <1>4, <2>1, Timeouts DEF Clocks
    <2>3. Flags'
      BY <1>3, <2>1 DEF Flags
    <2>4. QED
      BY <2>2, <2>3
  <1>6. CASE pos[e] # 4
    <2>1. UNCHANGED <<snd, timer, rcv, rleft>>
      BY <1>6 DEF Advance
    <2>2. Clocks'
      BY <1>3, <1>4, <2>1 DEF Clocks
    <2>3. Flags'
      BY <1>3, <2>1 DEF Flags
    <2>4. QED
      BY <2>2, <2>3
  <1>7. QED
    BY <1>5, <1>6

LEMMA OpeningKinds ==
  ASSUME NEW n \in 0 .. 5, n < 5
  PROVE  Opening[n + 1] \in Kinds
  <1>1. /\ Opening[1] \in Kinds /\ Opening[2] \in Kinds /\ Opening[3] \in Kinds
        /\ Opening[4] \in Kinds /\ Opening[5] \in Kinds
    BY DEF Opening, Kinds
  <1>2. n + 1 = 1 \/ n + 1 = 2 \/ n + 1 = 3 \/ n + 1 = 4 \/ n + 1 = 5
    OBVIOUS
  <1>3. QED
    BY <1>1, <1>2

LEMMA StepTypes ==
  ASSUME Types, NEW e \in Ends, Step(e)
  PROVE  Types'
  <1> USE DEF Types
  <1>1. CASE Deliver(e)
    <2>1. Sockets'
      BY <1>1, DeliverNet DEF Sockets
    <2>2. UNCHANGED <<opening, loops, closed, faults>>
      BY <1>1 DEF Deliver
    <2>3. Clocks' /\ Flags'
      BY <2>2 DEF Clocks, Flags, opening, loops, faults
    <2>4. QED
      BY <2>1, <2>3
  <1>2. CASE WriteOpening(e)
    <2>1. Opening[pos[e] + 1] \in Kinds
      BY <1>2, OpeningKinds DEF WriteOpening, Clocks
    <2>2. Sockets'
      BY <1>2, <2>1, PutNet DEF WriteOpening, Sockets
    <2>3. QED
      BY <1>2, <2>2, AdvanceTypes DEF WriteOpening
  <1>3. CASE ReadOpening(e)
    <2>1. Sockets'
      BY <1>3, PopNet DEF ReadOpening, Sockets
    <2>2. QED
      BY <1>3, <2>1, AdvanceTypes DEF ReadOpening
  <1>4. CASE OpeningFails(e) \/ RunCloses(e)
    <2>1. closed' = [closed EXCEPT ![e] = TRUE] /\ UNCHANGED <<opening, loops, net, faults>>
      BY <1>4 DEF OpeningFails, RunCloses
    <2>2. QED
      BY <2>1 DEF Clocks, Flags, Sockets, opening, loops, net, faults
  <1>5. CASE TakeMessage(e) \/ WriteKeepalive(e)
    <2>1. queue' \in [Ends -> Nat]
      <3>1. CASE TakeMessage(e)
        <4>1. queue[e] > 0 /\ queue' = [queue EXCEPT ![e] = queue[e] - 1]
          BY <3>1 DEF TakeMessage
        <4>2. queue[e] - 1 \in Nat
          BY <4>1 DEF Clocks
        <4>3. QED
          BY <4>1, <4>2 DEF Clocks
      <3>2. CASE WriteKeepalive(e)
        BY <3>2 DEF WriteKeepalive, Clocks
      <3>3. QED
        BY <1>5, <3>1, <3>2
    <2>2. /\ \E k \in {"data", "keepalive"} : snd' = [snd EXCEPT ![e] = k]
          /\ wleft' = [wleft EXCEPT ![e] = Timeout("write")] /\ timer' = [timer EXCEPT ![e] = 0]
          /\ UNCHANGED <<opening, rcv, rleft, net, closed, faults>>
      BY <1>5 DEF TakeMessage, WriteKeepalive, StartWrite
    <2>3. Clocks'
      BY <2>1, <2>2, Timeouts DEF Clocks, opening, faults
    <2>4. Flags' /\ Sockets'
      BY <2>2 DEF Flags, Sockets, net, faults
    <2>5. QED
      BY <2>3, <2>4
  <1>6. CASE Written(e)
    <2>1. snd[e] \in Kinds
      BY <1>6 DEF Written, Kinds
    <2>2. Sockets'
      BY <1>6, <2>1, PutNet DEF Written, Sockets
    <2>3. /\ snd' = [snd EXCEPT ![e] = "select"] /\ wleft' = [wleft EXCEPT ![e] = 0]
          /\ timer' = [timer EXCEPT ![e] = Keepalive]
          /\ UNCHANGED <<opening, queue, rcv, rleft, closed, faults>>
      BY <1>6 DEF Written, Keepalive
    <2>4. Clocks'
      BY <2>3, Timeouts DEF Clocks, opening, faults
    <2>5. Flags'
      BY <2>3 DEF Flags, faults
    <2>6. QED
      BY <2>2, <2>4, <2>5
  <1>7. CASE SendLoopEnds(e)
    <2>1. /\ snd' = [snd EXCEPT ![e] = "done"] /\ wleft' = [wleft EXCEPT ![e] = 0]
          /\ timer' = [timer EXCEPT ![e] = 0]
          /\ UNCHANGED <<opening, queue, rcv, rleft, net, closed, faults>>
      BY <1>7 DEF SendLoopEnds
    <2>2. Clocks'
      BY <2>1, Timeouts DEF Clocks, opening, faults
    <2>3. Flags' /\ Sockets'
      BY <2>1 DEF Flags, Sockets, net, faults
    <2>4. QED
      BY <2>2, <2>3
  <1>8. CASE Read(e) \/ Handled(e) \/ RecvLoopEnds(e)
    <2>1. /\ \E k \in {"read", "handle", "done"} : rcv' = [rcv EXCEPT ![e] = k] \/ rcv' = rcv
          /\ \E n \in Nat : rleft' = [rleft EXCEPT ![e] = n]
          /\ UNCHANGED <<opening, snd, wleft, timer, queue, closed, faults>>
      BY <1>8, Timeouts DEF Read, Handled, RecvLoopEnds, Rearm, Idle
    <2>2. Clocks'
      BY <2>1 DEF Clocks, opening, faults
    <2>3. Flags'
      BY <2>1 DEF Flags, faults
    <2>4. Sockets'
      BY <1>8, PopNet DEF Read, Handled, RecvLoopEnds, Sockets, net
    <2>5. QED
      BY <2>2, <2>3, <2>4
  <1>9. QED
    BY <1>1, <1>2, <1>3, <1>4, <1>5, <1>6, <1>7, <1>8 DEF Step

LEMMA DownTypes ==
  ASSUME NEW n \in Nat
  PROVE  Down(n) \in Nat /\ Down(n) <= n /\ (n # 0 => Down(n) = n - 1)
  BY DEF Down

LEMMA TickTypes ==
  ASSUME Types, Tick
  PROVE  Types'
  <1>1. Sockets'
    BY TickNet DEF Sockets, Types
  <1>2. Clocks'
    <2>1. \A n \in Nat, m \in Nat : n \in 0 .. m => Down(n) \in 0 .. m
      BY DownTypes
    <2>2. /\ hello' = [e \in Ends |-> IF pos[e] \in {3, 4} THEN Down(hello[e]) ELSE hello[e]]
          /\ wleft' = [e \in Ends |-> Down(wleft[e])] /\ timer' = [e \in Ends |-> Down(timer[e])]
          /\ rleft' = [e \in Ends |-> Down(rleft[e])] /\ UNCHANGED <<pos, queue>>
      BY DEF Tick
    <2>3. \A e \in Ends : /\ hello[e] \in 0 .. HandshakeTimeout /\ hello[e] \in Nat
                           /\ timer[e] \in 0 .. Keepalive /\ timer[e] \in Nat
                           /\ wleft[e] \in Nat /\ rleft[e] \in Nat
      BY Timeouts DEF Types, Clocks
    <2>4. \A e \in Ends : Down(wleft[e]) \in Nat /\ Down(rleft[e]) \in Nat
      BY <2>3, DownTypes
    <2>5. \A e \in Ends : Down(hello[e]) \in 0 .. HandshakeTimeout /\ Down(timer[e]) \in 0 .. Keepalive
      BY <2>1, <2>3, Timeouts
    <2>6. hello' \in [Ends -> 0 .. HandshakeTimeout]
      BY <2>2, <2>3, <2>5
    <2>7. timer' \in [Ends -> 0 .. Keepalive] /\ wleft' \in [Ends -> Nat] /\ rleft' \in [Ends -> Nat]
      BY <2>2, <2>4, <2>5
    <2>8. age' = age \/ age' = age + 1
      BY DEF Tick
    <2>9. QED
      BY <2>2, <2>6, <2>7, <2>8 DEF Types, Clocks
  <1>3. Flags'
    BY DEF Types, Flags, Tick
  <1>4. QED
    BY <1>1, <1>2, <1>3 DEF Types

LEMMA NextTypes == Types /\ [Next]_vars => Types'
  <1> SUFFICES ASSUME Types, [Next]_vars
               PROVE  Types'
    OBVIOUS
  <1> USE DEF Types
  <1>1. ASSUME NEW e \in Ends, Step(e)
        PROVE  Types'
    BY <1>1, StepTypes
  <1>2. ASSUME NEW e \in Ends, SendRaw(e)
        PROVE  Types'
    <2>1. Clocks'
      BY <1>2 DEF SendRaw, Clocks, opening, faults
    <2>2. Flags' /\ Sockets'
      BY <1>2 DEF SendRaw, Flags, Sockets, net, faults
    <2>3. QED
      BY <2>1, <2>2
  <1>3. ASSUME NEW e \in Ends, Stop(e) \/ Stall(e)
        PROVE  Types'
    BY <1>3 DEF Stop, Stall, Clocks, Flags, Sockets, opening, loops, net
  <1>4. CASE Cut
    <2>1. << >> \in Seq(Frame)
      OBVIOUS
    <2>2. QED
      BY <1>4, <2>1 DEF Cut, Clocks, Flags, Sockets, opening, loops
  <1>5. CASE Tick
    BY <1>5, TickTypes
  <1>6. CASE UNCHANGED vars
    BY <1>6 DEF vars, Clocks, Flags, Sockets, opening, loops, net, faults
  <1>7. QED
    BY <1>1, <1>2, <1>3, <1>4, <1>5, <1>6 DEF Next

-----------------------------------------------------------------------------
(* The buffers' bounds and the places of the two ends.                      *)

\* Load of each end, after a write by e, a read by e, and any other step.
LEMMA LoadPut ==
  ASSUME Types, NEW e \in Ends, NEW kind \in Kinds, Put(e, kind)
  PROVE  /\ Load(e)' = Load(e)
         /\ Load(Other(e)) < WireCap
         /\ Len(wire'[Other(e)]) + Len(buf'[Other(e)]) = Load(Other(e)) + 1
  <1> DEFINE w == Len(wire[Other(e)])
             v == Len(wire'[Other(e)])
             b == Len(buf[Other(e)])
  <1>1. /\ buf' = buf /\ wire'[e] = wire[e] /\ v = w + 1 /\ w + b < WireCap
    BY PutNet DEF Types
  <1>2. w \in Nat /\ b \in Nat
    BY OtherEnd DEF Types, Sockets
  <1>3. v + b = (w + b) + 1
    <2> HIDE DEF w, v, b
    <2>1. QED
      BY <1>1, <1>2
  <1>4. QED
    BY <1>1, <1>3 DEF Load

LEMMA LoadPop ==
  ASSUME Types, NEW e \in Ends, buf[e] # << >>, buf' = [buf EXCEPT ![e] = Tail(@)], wire' = wire
  PROVE  /\ Load(e)' = Load(e) - 1 /\ Load(e) >= 1
         /\ Len(wire'[Other(e)]) + Len(buf'[Other(e)]) = Load(Other(e))
  <1> DEFINE w == Len(wire[e])
             b == Len(buf[e])
             c == Len(buf'[e])
  <1>1. buf'[Other(e)] = buf[Other(e)] /\ c = b - 1 /\ b >= 1
    BY PopNet DEF Types
  <1>2. w \in Nat /\ b \in Nat
    BY DEF Types, Sockets
  <1>3. w + c = (w + b) - 1 /\ w + b >= 1
    <2> HIDE DEF w, b, c
    <2>1. QED
      BY <1>1, <1>2
  <1>4. QED
    BY <1>1, <1>3 DEF Load

LEMMA LoadDeliver ==
  ASSUME Types, NEW e \in Ends, Deliver(e), NEW x \in Ends
  PROVE  Load(x)' = Load(x)
  <1> DEFINE w == Len(wire[e])
             v == Len(wire'[e])
             b == Len(buf[e])
             c == Len(buf'[e])
  <1>1. /\ wire'[Other(e)] = wire[Other(e)] /\ buf'[Other(e)] = buf[Other(e)]
        /\ v = w - 1 /\ c = b + 1
    BY DeliverNet DEF Types
  <1>2. w \in Nat /\ b \in Nat
    BY DEF Types, Sockets
  <1>3. v + c = w + b
    <2> HIDE DEF w, v, b, c
    <2>1. QED
      BY <1>1, <1>2
  <1>4. x = e \/ x = Other(e)
    BY DEF Ends, Other
  <1>5. QED
    BY <1>1, <1>3, <1>4 DEF Load

LEMMA LoadTick ==
  ASSUME Types, Tick, NEW x \in Ends
  PROVE  Load(x)' = Load(x)
  BY TickNet DEF Load, Types

LEMMA LoadCut ==
  ASSUME Types, Cut, NEW x \in Ends
  PROVE  Load(x)' <= Load(x) /\ Load(x)' \in Nat
  <1>1. \A y \in Ends : Len(wire[y]) \in Nat /\ Len(buf[y]) \in Nat
    BY DEF Types, Sockets
  <1>2. wire'[x] = << >> /\ buf' = buf
    BY DEF Cut
  <1>3. Len(wire'[x]) = 0
    BY <1>2
  <1>4. QED
    BY <1>1, <1>2, <1>3 DEF Load

LEMMA LoadNat ==
  ASSUME Types, NEW x \in Ends
  PROVE  Load(x) \in Nat
  BY DEF Load, Types, Sockets

LEMMA LoadEmpty ==
  ASSUME Types, NEW x \in Ends
  PROVE  Load(x) = 0 <=> (wire[x] = << >> /\ buf[x] = << >>)
  <1> DEFINE w == Len(wire[x])
             b == Len(buf[x])
  <1>1. w \in Nat /\ b \in Nat /\ wire[x] \in Seq(Frame) /\ buf[x] \in Seq(Kinds)
    BY DEF Types, Sockets
  <1>2. (wire[x] = << >> <=> w = 0) /\ (buf[x] = << >> <=> b = 0)
    BY <1>1, EmptySeq
  <1>3. Load(x) = w + b
    BY DEF Load
  <1> HIDE DEF w, b
  <1>4. QED
    BY <1>1, <1>2, <1>3

\* Load of e and of Other(e) are those of the dialer and the acceptor.
LEMMA WriteLoads ==
  ASSUME Types, NEW kind \in Kinds
  PROVE  /\ Put("dialer", kind) => Load("acceptor")' = Load("acceptor") + 1 /\ Load("dialer")' = Load("dialer")
                                    /\ Load("acceptor") < WireCap
         /\ Put("acceptor", kind) => Load("dialer")' = Load("dialer") + 1 /\ Load("acceptor")' = Load("acceptor")
                                    /\ Load("dialer") < WireCap
  <1>1. "dialer" \in Ends /\ "acceptor" \in Ends /\ Other("dialer") = "acceptor" /\ Other("acceptor") = "dialer"
    BY DEF Ends, Other
  <1>2. QED
    BY <1>1, LoadPut DEF Load

LEMMA ReadLoads ==
  ASSUME Types, wire' = wire
  PROVE  /\ buf["dialer"] # << >> /\ buf' = [buf EXCEPT !["dialer"] = Tail(@)]
              => Load("dialer")' = Load("dialer") - 1 /\ Load("dialer") >= 1 /\ Load("acceptor")' = Load("acceptor")
         /\ buf["acceptor"] # << >> /\ buf' = [buf EXCEPT !["acceptor"] = Tail(@)]
              => Load("acceptor")' = Load("acceptor") - 1 /\ Load("acceptor") >= 1 /\ Load("dialer")' = Load("dialer")
  <1>1. "dialer" \in Ends /\ "acceptor" \in Ends /\ Other("dialer") = "acceptor" /\ Other("acceptor") = "dialer"
    BY DEF Ends, Other
  <1>2. QED
    BY <1>1, LoadPop DEF Load

\* A step of the loops, of a node or of the network: neither end moves on.
LEMMA ShapeKept ==
  ASSUME Types, Shape, UNCHANGED pos, cut' \in BOOLEAN, cut => cut',
         \/ Load("acceptor")' = Load("acceptor") /\ Load("dialer")' = Load("dialer")
         \/ cut' /\ Load("acceptor")' \in Nat /\ Load("acceptor")' <= Load("acceptor")
            /\ Load("dialer")' \in Nat /\ Load("dialer")' <= Load("dialer")
  PROVE  Shape'
  <1>1. Load("acceptor") \in Nat /\ Load("dialer") \in Nat
    BY LoadNat DEF Ends
  <1>2. QED
    BY <1>1 DEF Shape, At

LEMMA ShapeWrite ==
  ASSUME Types, Shape, NEW e \in Ends, WriteOpening(e)
  PROVE  Shape'
  <1>1. Load("acceptor") \in Nat /\ Load("dialer") \in Nat
    BY LoadNat DEF Ends
  <1>2. /\ pos[e] < 5 /\ Writer(pos[e] + 1) = e /\ pos' = [pos EXCEPT ![e] = pos[e] + 1] /\ cut' = cut
        /\ Put(e, Opening[pos[e] + 1])
    BY DEF WriteOpening, Advance, faults
  <1>3. Opening[pos[e] + 1] \in Kinds
    BY <1>2, OpeningKinds DEF Types, Clocks
  <1>4. CASE e = "dialer"
    <2>1. Load("acceptor")' = Load("acceptor") + 1 /\ Load("dialer")' = Load("dialer")
      BY <1>2, <1>3, <1>4, WriteLoads
    <2>2. /\ pos["dialer"] \in {0, 2, 3} /\ pos'["dialer"] = pos["dialer"] + 1
          /\ pos'["acceptor"] = pos["acceptor"]
      BY <1>2, <1>4 DEF Writer, Types, Clocks, Ends
    <2>3. QED
      BY <1>1, <1>2, <2>1, <2>2 DEF Shape, At
  <1>5. CASE e = "acceptor"
    <2>1. Load("dialer")' = Load("dialer") + 1 /\ Load("acceptor")' = Load("acceptor")
      BY <1>2, <1>3, <1>5, WriteLoads
    <2>2. /\ pos["acceptor"] \in {1, 4} /\ pos'["acceptor"] = pos["acceptor"] + 1
          /\ pos'["dialer"] = pos["dialer"]
      BY <1>2, <1>5 DEF Writer, Types, Clocks, Ends
    <2>3. QED
      BY <1>1, <1>2, <2>1, <2>2 DEF Shape, At
  <1>6. QED
    BY <1>4, <1>5 DEF Ends

LEMMA ShapeRead ==
  ASSUME Types, Shape, NEW e \in Ends, ReadOpening(e)
  PROVE  Shape'
  <1>1. Load("acceptor") \in Nat /\ Load("dialer") \in Nat
    BY LoadNat DEF Ends
  <1>2. /\ pos[e] < 5 /\ Writer(pos[e] + 1) # e /\ pos' = [pos EXCEPT ![e] = pos[e] + 1] /\ cut' = cut
        /\ buf[e] # << >> /\ buf' = [buf EXCEPT ![e] = Tail(@)] /\ wire' = wire
    BY DEF ReadOpening, Advance, faults
  <1>3. CASE e = "dialer"
    <2>1. Load("dialer")' = Load("dialer") - 1 /\ Load("dialer") >= 1 /\ Load("acceptor")' = Load("acceptor")
      BY <1>2, <1>3, ReadLoads
    <2>2. /\ pos["dialer"] \in {1, 4} /\ pos'["dialer"] = pos["dialer"] + 1
          /\ pos'["acceptor"] = pos["acceptor"]
      BY <1>2, <1>3 DEF Writer, Types, Clocks, Ends
    <2>3. QED
      BY <1>1, <1>2, <2>1, <2>2 DEF Shape, At
  <1>4. CASE e = "acceptor"
    <2>1. Load("acceptor")' = Load("acceptor") - 1 /\ Load("acceptor") >= 1 /\ Load("dialer")' = Load("dialer")
      BY <1>2, <1>4, ReadLoads
    <2>2. /\ pos["acceptor"] \in {0, 2, 3} /\ pos'["acceptor"] = pos["acceptor"] + 1
          /\ pos'["dialer"] = pos["dialer"]
      BY <1>2, <1>4 DEF Writer, Types, Clocks, Ends
    <2>3. QED
      BY <1>1, <1>2, <2>1, <2>2 DEF Shape, At
  <1>5. QED
    BY <1>3, <1>4 DEF Ends

\* A write of a send loop and a read of a receive loop.
LEMMA ShapeRunning ==
  ASSUME Types, Loops, Shape, NEW e \in Ends, Written(e) \/ Read(e)
  PROVE  Shape'
  <1>1. Load("acceptor") \in Nat /\ Load("dialer") \in Nat
    BY LoadNat DEF Ends
  <1>2. pos[e] = 5 /\ pos' = pos /\ cut' = cut
    BY DEF Written, Read, Loops, opening, faults
  <1>3. CASE e = "dialer"
    BY <1>2, <1>3 DEF Shape, At
  <1>4. CASE e = "acceptor" /\ pos["dialer"] = 5
    BY <1>2, <1>4 DEF Shape, At
  <1>5. CASE e = "acceptor" /\ pos["dialer"] # 5
    <2>1. pos["dialer"] = 4 /\ Load("acceptor") = 0
      BY <1>2, <1>5 DEF Shape, At
    <2>2. CASE Written(e)
      <3>1. Put("acceptor", snd[e]) /\ snd[e] \in Kinds
        BY <1>5, <2>2 DEF Written, Kinds
      <3>2. Load("acceptor")' = 0
        BY <2>1, <3>1, WriteLoads
      <3>3. QED
        BY <1>2, <1>5, <2>1, <3>2 DEF Shape
    <2>3. CASE Read(e)
      BY <1>5, <2>1, <2>3, ReadLoads DEF Read
    <2>4. QED
      BY <2>2, <2>3
  <1>6. QED
    BY <1>3, <1>4, <1>5 DEF Ends

LEMMA NextShape == Types /\ Loops /\ Shape /\ [Next]_vars => Shape'
  <1> SUFFICES ASSUME Types, Loops, Shape, [Next]_vars
               PROVE  Shape'
    OBVIOUS
  <1>0. "dialer" \in Ends /\ "acceptor" \in Ends /\ cut' \in BOOLEAN
    BY NextTypes DEF Ends, Types, Flags
  <1>1. ASSUME NEW e \in Ends, WriteOpening(e) \/ ReadOpening(e) \/ Written(e) \/ Read(e)
        PROVE  Shape'
    BY <1>1, ShapeWrite, ShapeRead, ShapeRunning
  <1>2. ASSUME NEW e \in Ends, Deliver(e)
        PROVE  Shape'
    BY <1>0, <1>2, LoadDeliver, ShapeKept DEF Deliver, opening, faults
  <1>3. ASSUME NEW e \in Ends,
               \/ OpeningFails(e) \/ TakeMessage(e) \/ WriteKeepalive(e) \/ SendLoopEnds(e)
               \/ Handled(e) \/ RecvLoopEnds(e) \/ RunCloses(e) \/ SendRaw(e) \/ Stop(e) \/ Stall(e)
        PROVE  Shape'
    <2>1. UNCHANGED <<pos, cut, wire, buf>>
      BY <1>3 DEF OpeningFails, TakeMessage, WriteKeepalive, StartWrite, SendLoopEnds, Handled,
                  RecvLoopEnds, RunCloses, SendRaw, Stop, Stall, opening, net, faults
    <2>2. Load("acceptor")' = Load("acceptor") /\ Load("dialer")' = Load("dialer")
      BY <2>1 DEF Load
    <2>3. QED
      BY <1>0, <2>1, <2>2, ShapeKept
  <1>4. CASE Cut
    BY <1>0, <1>4, LoadCut, ShapeKept DEF Cut, opening
  <1>5. CASE Tick
    BY <1>0, <1>5, LoadTick, ShapeKept DEF Tick
  <1>6. CASE UNCHANGED vars
    <2>1. UNCHANGED <<pos, cut, wire, buf>>
      BY <1>6 DEF vars, opening, net, faults
    <2>2. Load("acceptor")' = Load("acceptor") /\ Load("dialer")' = Load("dialer")
      BY <2>1 DEF Load
    <2>3. QED
      BY <1>0, <2>1, <2>2, ShapeKept
  <1>7. QED
    BY <1>1, <1>2, <1>3, <1>4, <1>5, <1>6 DEF Next, Step

LEMMA NextLoadBound == Types /\ LoadBound /\ [Next]_vars => LoadBound'
  <1> SUFFICES ASSUME Types, LoadBound, [Next]_vars, NEW x \in Ends
               PROVE  Load(x)' <= WireCap
    BY DEF LoadBound
  <1>0. Load(x) \in Nat /\ Load(x) <= WireCap /\ WireCap \in Nat
    BY LoadNat, Timeouts DEF LoadBound
  <1>1. ASSUME NEW e \in Ends, NEW kind \in Kinds, Put(e, kind)
        PROVE  Load(x)' <= WireCap
    <2>1. CASE x = e
      BY <1>0, <1>1, <2>1, LoadPut DEF Load
    <2>2. CASE x = Other(e)
      <3>1. Load(x)' = Load(x) + 1 /\ Load(x) < WireCap
        BY <1>1, <2>2, LoadPut DEF Load
      <3>2. QED
        BY <1>0, <3>1
    <2>3. QED
      BY <2>1, <2>2 DEF Ends, Other
  <1>2. ASSUME NEW e \in Ends, buf[e] # << >>, buf' = [buf EXCEPT ![e] = Tail(@)], wire' = wire
        PROVE  Load(x)' <= WireCap
    <2>1. CASE x = e
      <3>1. Load(x)' = Load(x) - 1
        BY <1>2, <2>1, LoadPop DEF Load
      <3>2. QED
        BY <1>0, <3>1
    <2>2. CASE x = Other(e)
      <3>1. Load(x)' = Load(x)
        BY <1>2, <2>2, LoadPop DEF Load
      <3>2. QED
        BY <1>0, <3>1
    <2>3. QED
      BY <2>1, <2>2 DEF Ends, Other
  <1>3. CASE UNCHANGED net
    <2>1. Load(x)' = Load(x)
      BY <1>3 DEF net, Load
    <2>2. QED
      BY <1>0, <2>1
  <1>4. ASSUME NEW e \in Ends, WriteOpening(e)
        PROVE  Load(x)' <= WireCap
    <2>1. Opening[pos[e] + 1] \in Kinds /\ Put(e, Opening[pos[e] + 1])
      BY <1>4, OpeningKinds DEF WriteOpening, Types, Clocks
    <2>2. QED
      BY <1>1, <2>1
  <1>5. ASSUME NEW e \in Ends, Written(e)
        PROVE  Load(x)' <= WireCap
    <2>1. snd[e] \in Kinds /\ Put(e, snd[e])
      BY <1>5 DEF Written, Kinds
    <2>2. QED
      BY <1>1, <2>1
  <1>6. ASSUME NEW e \in Ends, ReadOpening(e) \/ Read(e)
        PROVE  Load(x)' <= WireCap
    BY <1>2, <1>6 DEF ReadOpening, Read
  <1>7. ASSUME NEW e \in Ends, Deliver(e)
        PROVE  Load(x)' <= WireCap
    BY <1>0, <1>7, LoadDeliver
  <1>8. ASSUME NEW e \in Ends,
               \/ OpeningFails(e) \/ TakeMessage(e) \/ WriteKeepalive(e) \/ SendLoopEnds(e)
               \/ Handled(e) \/ RecvLoopEnds(e) \/ RunCloses(e) \/ SendRaw(e) \/ Stop(e) \/ Stall(e)
        PROVE  UNCHANGED net
    BY <1>8 DEF OpeningFails, TakeMessage, WriteKeepalive, StartWrite, SendLoopEnds, Handled,
                RecvLoopEnds, RunCloses, SendRaw, Stop, Stall
  <1>9. CASE Cut
    BY <1>0, <1>9, LoadCut
  <1>10. CASE Tick
    BY <1>0, <1>10, LoadTick
  <1>11. CASE UNCHANGED vars
    BY <1>3, <1>11 DEF vars
  <1>12. QED
    BY <1>3, <1>4, <1>5, <1>6, <1>7, <1>8, <1>9, <1>10, <1>11 DEF Next, Step

LEMMA NextLoops == Types /\ Loops /\ [Next]_vars => Loops'
  <1> SUFFICES ASSUME Types, Loops, [Next]_vars
               PROVE  Loops'
    OBVIOUS
  <1> USE DEF Types, Flags
  <1>1. ASSUME NEW e \in Ends, WriteOpening(e) \/ ReadOpening(e)
        PROVE  Loops'
    <2>1. pos[e] \in 0 .. 4 /\ Advance(e)
      BY <1>1 DEF WriteOpening, ReadOpening, Clocks
    <2>2. pos' = [pos EXCEPT ![e] = pos[e] + 1]
      BY <2>1 DEF Advance
    <2>3. CASE pos[e] = 4
      <3>1. /\ snd' = [snd EXCEPT ![e] = "select"] /\ rcv' = [rcv EXCEPT ![e] = "read"]
            /\ rleft' = [rleft EXCEPT ![e] = Idle]
        BY <2>1, <2>3 DEF Advance, Idle
      <3>2. QED
        BY <2>2, <2>3, <3>1, Timeouts DEF Loops, Clocks
    <2>4. CASE pos[e] # 4
      <3>1. UNCHANGED <<snd, rcv, rleft>> /\ pos[e] + 1 # 5
        BY <2>1, <2>4 DEF Advance
      <3>2. QED
        BY <2>1, <2>2, <3>1 DEF Loops, Clocks
    <2>5. QED
      BY <2>3, <2>4
  <1>2. ASSUME NEW e \in Ends, TakeMessage(e) \/ WriteKeepalive(e) \/ Written(e) \/ SendLoopEnds(e)
        PROVE  Loops'
    <2>1. /\ snd[e] # "off" /\ UNCHANGED <<pos, rcv, rleft>>
          /\ \E k \in {"select", "data", "keepalive", "done"} : snd' = [snd EXCEPT ![e] = k]
      BY <1>2 DEF TakeMessage, WriteKeepalive, StartWrite, Written, SendLoopEnds, opening
    <2>2. QED
      BY <2>1 DEF Loops
  <1>3. ASSUME NEW e \in Ends, Read(e) \/ Handled(e) \/ RecvLoopEnds(e)
        PROVE  Loops'
    <2>1. /\ rcv[e] # "off" /\ UNCHANGED <<pos, snd>>
          /\ \/ rcv' = [rcv EXCEPT ![e] = "handle"] /\ rleft' = [rleft EXCEPT ![e] = HandlerMax]
             \/ rcv' = rcv /\ rleft' = [rleft EXCEPT ![e] = Idle]
             \/ rcv' = [rcv EXCEPT ![e] = "read"] /\ rleft' = [rleft EXCEPT ![e] = Idle]
             \/ rcv' = [rcv EXCEPT ![e] = "done"] /\ rleft' = [rleft EXCEPT ![e] = 0]
          /\ rcv' = rcv => rcv[e] = "read"
      BY <1>3 DEF Read, Handled, RecvLoopEnds, Rearm, Idle, opening
    <2>2. QED
      BY <2>1, Timeouts DEF Loops, Clocks
  <1>4. ASSUME NEW e \in Ends,
               Deliver(e) \/ OpeningFails(e) \/ RunCloses(e) \/ SendRaw(e) \/ Stop(e) \/ Stall(e)
        PROVE  UNCHANGED <<pos, snd, rcv, rleft>>
    BY <1>4 DEF Deliver, OpeningFails, RunCloses, SendRaw, Stop, Stall, opening, loops
  <1>5. CASE Tick
    <2>1. UNCHANGED <<pos, snd, rcv>> /\ \A e \in Ends : rleft'[e] = Down(rleft[e])
      BY <1>5 DEF Tick
    <2>2. \A e \in Ends : rleft'[e] \in Nat /\ rleft'[e] <= rleft[e] /\ rleft[e] \in Nat
      BY <2>1, DownTypes DEF Clocks
    <2>3. QED
      BY <2>1, <2>2, Timeouts DEF Loops
  <1>6. CASE Cut \/ UNCHANGED vars
    BY <1>6 DEF Cut, vars, opening, loops, Loops
  <1>7. ASSUME UNCHANGED <<pos, snd, rcv, rleft>>
        PROVE  Loops'
    BY <1>7 DEF Loops
  <1>8. QED
    BY <1>1, <1>2, <1>3, <1>4, <1>5, <1>6, <1>7 DEF Next, Step

-----------------------------------------------------------------------------
(* A dead connection.                                                       *)

\* After a tick nobody can go on with the opening, except that the dialer may
\* still find room for its hello: the frames on their way leave room for all
\* other writes.
LEMMA FrozenByTick ==
  ASSUME Types, Shape, NEW x \in Ends, ~Busy(x), pos[x] < 5, ~closed[x]
  PROVE  (x = "dialer" /\ pos[x] = 3) \/ (Writer(pos[x] + 1) # x /\ buf[x] = << >>)
  <1>0. Load("acceptor") \in Nat /\ Load("dialer") \in Nat /\ WireCap \in Nat \ {0}
    BY LoadNat, Timeouts DEF Ends
  <1>1. pos[x] \in 0 .. 4
    BY DEF Types, Clocks
  <1>2. CASE Writer(pos[x] + 1) # x
    BY <1>2 DEF Busy
  <1>3. CASE Writer(pos[x] + 1) = x /\ x = "dialer"
    <2>1. pos["dialer"] \in {0, 2, 3}
      BY <1>1, <1>3 DEF Writer
    <2>2. ~(Load("acceptor") < WireCap)
      BY <1>3 DEF Busy, Room, Load, Other
    <2>3. pos["dialer"] # 0 /\ pos["dialer"] # 2
      BY <1>0, <2>2 DEF Shape, At
    <2>4. QED
      BY <1>3, <2>1, <2>3
  <1>4. CASE Writer(pos[x] + 1) = x /\ x = "acceptor"
    <2>1. pos["acceptor"] \in {1, 4}
      BY <1>1, <1>4 DEF Writer
    <2>2. ~(Load("dialer") < WireCap)
      BY <1>4 DEF Busy, Room, Load, Other
    <2>3. QED
      BY <1>0, <2>1, <2>2 DEF Shape, At
  <1>5. QED
    BY <1>2, <1>3, <1>4 DEF Ends

\* While the dialer has its hello to write, nothing is on its way to it.
LEMMA NothingForDialer ==
  ASSUME Types, Shape, pos["dialer"] = 3
  PROVE  buf["dialer"] = << >>
  <1>1. Load("dialer") <= 0 /\ Load("dialer") \in Nat
    BY LoadNat DEF Shape, At, Ends
  <1>2. QED
    BY <1>1, LoadEmpty DEF Ends

LEMMA NextFrozen == Types /\ Loops /\ Shape /\ Frozen /\ [Next]_vars => Frozen'
  <1> SUFFICES ASSUME Types, Loops, Shape, Frozen, [Next]_vars
               PROVE  Frozen'
    OBVIOUS
  <1> DEFINE Still(x) == (x = "dialer" /\ pos[x] = 3) \/ (Writer(pos[x] + 1) # x /\ buf[x] = << >>)
  <1>1. CASE Tick
    <2>1. UNCHANGED <<pos, buf, closed, cut>> /\ (~cut => age' = age) /\ \A x \in Ends : ~Busy(x)
      BY <1>1 DEF Tick
    <2>2. ASSUME NEW x \in Ends, pos[x] < 5, ~closed[x]
          PROVE  Still(x)
      BY <2>1, <2>2, FrozenByTick
    <2>3. QED
      BY <2>1, <2>2 DEF Frozen
  <1>2. ASSUME ~Tick
        PROVE  age' = age /\ (~cut' => ~cut)
    BY <1>2 DEF Next, Step, Deliver, WriteOpening, ReadOpening, Advance, OpeningFails, TakeMessage,
                WriteKeepalive, StartWrite, Written, SendLoopEnds, Read, Handled, RecvLoopEnds,
                RunCloses, SendRaw, Stop, Stall, Cut, vars, faults
  <1>3. ASSUME age > 0, NEW x \in Ends, pos'[x] < 5, ~closed'[x], ~Tick
        PROVE  Still(x)'
    <2>1. cut
      BY <1>3 DEF Frozen, Types, Flags
    <2>2. CASE \E e \in Ends : WriteOpening(e)
      <3>1. PICK e \in Ends : WriteOpening(e)
        BY <2>2
      <3>2. /\ pos[e] < 5 /\ ~closed[e] /\ Writer(pos[e] + 1) = e /\ buf' = buf /\ closed' = closed
            /\ pos' = [pos EXCEPT ![e] = pos[e] + 1]
        BY <3>1 DEF WriteOpening, Put, Advance
      <3>3. e = "dialer" /\ pos[e] = 3
        BY <1>3, <3>2 DEF Frozen
      <3>4. CASE x = e
        <4>1. pos'[x] = 4 /\ buf'[x] = << >>
          BY <3>2, <3>3, <3>4, NothingForDialer DEF Types, Clocks, Ends
        <4>2. QED
          BY <3>3, <3>4, <4>1 DEF Writer
      <3>5. CASE x # e
        BY <1>3, <3>2, <3>5 DEF Frozen, Types, Clocks
      <3>6. QED
        BY <3>4, <3>5
    <2>3. CASE \E e \in Ends : ReadOpening(e)
      BY <1>3, <2>3 DEF ReadOpening, Frozen, Writer
    <2>4. CASE \E e \in Ends : Read(e)
      <3>1. PICK e \in Ends : Read(e)
        BY <2>4
      <3>2. pos[e] = 5 /\ pos' = pos /\ closed' = closed /\ buf' = [buf EXCEPT ![e] = Tail(@)]
        BY <3>1 DEF Read, Loops, opening
      <3>3. x # e
        BY <1>3, <3>2
      <3>4. QED
        BY <1>3, <3>2, <3>3 DEF Frozen, Types, Sockets
    <2>5. CASE UNCHANGED <<pos, buf>> /\ (closed[x] => closed'[x])
      BY <1>3, <2>5 DEF Frozen
    <2>6. ASSUME NEW e \in Ends,
                 \/ OpeningFails(e) \/ TakeMessage(e) \/ WriteKeepalive(e) \/ Written(e) \/ SendLoopEnds(e)
                 \/ Handled(e) \/ RecvLoopEnds(e) \/ RunCloses(e) \/ SendRaw(e) \/ Stop(e) \/ Stall(e)
          PROVE  UNCHANGED <<pos, buf>> /\ (closed[x] => closed'[x])
      BY <2>6 DEF OpeningFails, TakeMessage, WriteKeepalive, StartWrite, Written, Put, SendLoopEnds, Handled,
                  RecvLoopEnds, RunCloses, SendRaw, Stop, Stall, opening, net, Types, Flags
    <2>7. ASSUME NEW e \in Ends, Deliver(e)
          PROVE  FALSE
      BY <2>1, <2>7 DEF Deliver
    <2>8. CASE Cut \/ UNCHANGED vars
      BY <2>1, <2>5, <2>8 DEF Cut, vars, opening, net
    <2>9. QED
      BY <1>3, <2>2, <2>3, <2>4, <2>5, <2>6, <2>7, <2>8 DEF Next, Step
  <1>4. CASE ~Tick
    BY <1>2, <1>3, <1>4 DEF Frozen
  <1>5. QED
    BY <1>1, <1>4

LEMMA Products ==
  ASSUME NEW n \in Nat
  PROVE  /\ n * HandlerMax \in Nat
         /\ n > 0 => n * HandlerMax = (n - 1) * HandlerMax + HandlerMax /\ (n - 1) * HandlerMax \in Nat
         /\ n <= WireCap => n * HandlerMax + HandlerMax <= (WireCap + 1) * HandlerMax
         /\ 0 * HandlerMax = 0
  <1>1. HandlerMax \in Nat /\ WireCap \in Nat
    BY Timeouts
  <1>2. n * HandlerMax \in Nat
    BY <1>1
  <1>3. n > 0 => n * HandlerMax = (n - 1) * HandlerMax + HandlerMax /\ (n - 1) * HandlerMax \in Nat
    BY <1>1
  <1>4. \A k \in Nat : (n + k + 1) * HandlerMax = n * HandlerMax + k * HandlerMax + HandlerMax
                       /\ k * HandlerMax \in Nat
    BY <1>1
  <1>5. n <= WireCap => n * HandlerMax + HandlerMax <= (WireCap + 1) * HandlerMax
    <2> SUFFICES ASSUME n <= WireCap
                 PROVE  n * HandlerMax + HandlerMax <= (WireCap + 1) * HandlerMax
      OBVIOUS
    <2>1. WireCap - n \in Nat /\ n + (WireCap - n) + 1 = WireCap + 1
      BY <1>1
    <2>2. (WireCap + 1) * HandlerMax = n * HandlerMax + (WireCap - n) * HandlerMax + HandlerMax
          /\ (WireCap - n) * HandlerMax \in Nat
      BY <1>4, <2>1
    <2>3. QED
      BY <1>1, <1>2, <2>2
  <1>6. QED
    BY <1>1, <1>2, <1>3, <1>5

\* What is left is a number, and when the network is cut it is at most EvictionTime.
LEMMA TimeLeftBound ==
  ASSUME NEW p \in 3 .. 5, NEW h \in 0 .. HandshakeTimeout,
         NEW r \in {"off", "read", "handle", "done"}, NEW l \in Nat, NEW n \in Nat, n <= WireCap,
         r = "read" => l <= Idle, r = "handle" => l <= HandlerMax
  PROVE  TimeLeft(p, h, r, l, n) \in Nat /\ TimeLeft(p, h, r, l, n) <= EvictionTime
  <1> DEFINE m == n * HandlerMax
             top == (WireCap + 1) * HandlerMax
  <1>1. m \in Nat /\ m + HandlerMax <= top /\ top \in Nat
    BY Products, Timeouts
  <1>2. HandshakeTimeout <= EvictionTime /\ Idle + top <= EvictionTime /\ EvictionTime \in Nat
    BY EvictionBounds
  <1>3. TimeLeft(p, h, r, l, n) = IF p \in {3, 4} THEN h ELSE IF r = "handle" THEN l + m + Idle
                                  ELSE IF r = "read" THEN (IF n > 0 THEN m + Idle ELSE l) ELSE 0
    BY DEF TimeLeft
  <1> HIDE DEF m, top
  <1>4. QED
    BY <1>1, <1>2, <1>3, Timeouts

LEMMA BufLen ==
  ASSUME Types, LoadBound, NEW x \in Ends
  PROVE  /\ Len(buf[x]) \in Nat /\ Len(buf[x]) <= WireCap
         /\ buf[x] # << >> <=> Len(buf[x]) > 0
  <1> DEFINE w == Len(wire[x])
             b == Len(buf[x])
  <1>1. w \in Nat /\ b \in Nat /\ buf[x] \in Seq(Kinds)
    BY DEF Types, Sockets
  <1>2. buf[x] = << >> <=> b = 0
    BY <1>1, EmptySeq
  <1>3. w + b <= WireCap
    BY DEF LoadBound, Load
  <1> HIDE DEF w, b
  <1>4. w + b <= WireCap => b <= WireCap
    BY <1>1, Timeouts
  <1>5. b \in Nat /\ b <= WireCap /\ (buf[x] # << >> <=> b > 0)
    BY <1>1, <1>2, <1>3, <1>4
  <1>6. QED
    BY <1>5 DEF b

\* At the moment of the cut.
Bounded ==
    \A x \in Ends : pos[x] >= 3 => Remaining(x) \in Nat /\ Remaining(x) <= EvictionTime

LEMMA RemainingBound == Types /\ LoadBound /\ Loops => Bounded
  <1> SUFFICES ASSUME Types, LoadBound, Loops, NEW x \in Ends, pos[x] >= 3
               PROVE  Remaining(x) \in Nat /\ Remaining(x) <= EvictionTime
    BY DEF Bounded
  <1>1. pos[x] \in 3 .. 5 /\ hello[x] \in 0 .. HandshakeTimeout /\ rleft[x] \in Nat
    BY DEF Types, Clocks
  <1>2. rcv[x] \in {"off", "read", "handle", "done"}
    BY DEF Types, Flags
  <1>3. (rcv[x] = "read" => rleft[x] <= Idle) /\ (rcv[x] = "handle" => rleft[x] <= HandlerMax)
    BY DEF Loops
  <1>4. QED
    BY <1>1, <1>2, <1>3, BufLen, TimeLeftBound DEF Remaining

\* The clock moves: an end that has not given up has less time left.
LEMMA DyingTick ==
  ASSUME Types, LoadBound, Loops, stalled = {}, NEW x \in Ends, pos[x] >= 3, ~closed[x], Tick
  PROVE  Remaining(x)' = Remaining(x) - 1
  <1>1. ~Busy(x) /\ UNCHANGED <<pos, rcv, buf>>
    BY DEF Tick
  <1>2. /\ hello'[x] = IF pos[x] \in {3, 4} THEN Down(hello[x]) ELSE hello[x]
        /\ rleft'[x] = Down(rleft[x])
    BY DEF Tick
  <1>3. hello[x] \in Nat /\ rleft[x] \in Nat /\ pos[x] \in {3, 4, 5}
    BY Timeouts DEF Types, Clocks
  <1>4. Remaining(x)' = TimeLeft(pos[x], hello'[x], rcv[x], rleft'[x], Len(buf[x]))
    BY <1>1 DEF Remaining
  <1>5. CASE pos[x] \in {3, 4}
    <2>1. hello[x] # 0
      BY <1>1, <1>5 DEF Busy
    <2>2. hello'[x] = hello[x] - 1
      BY <1>2, <1>3, <1>5, <2>1, DownTypes
    <2>3. Remaining(x)' = hello'[x] /\ Remaining(x) = hello[x]
      BY <1>4, <1>5 DEF TimeLeft, Remaining
    <2>4. QED
      BY <1>3, <2>2, <2>3
  <1>6. CASE pos[x] = 5
    <2>1. rcv[x] \in {"read", "handle"}
      BY <1>1, <1>6 DEF Busy, OneEnded, Loops, Types, Flags
    <2>2. rleft[x] # 0 /\ (rcv[x] = "read" => buf[x] = << >>)
      BY <1>1, <2>1 DEF Busy
    <2>3. rleft'[x] = rleft[x] - 1
      BY <1>2, <1>3, <2>2, DownTypes
    <2>4. Len(buf[x]) \in Nat /\ (buf[x] = << >> => Len(buf[x]) = 0)
      BY BufLen
    <2>5. CASE rcv[x] = "read"
      <3>1. Remaining(x)' = rleft'[x] /\ Remaining(x) = rleft[x]
        BY <1>4, <1>6, <2>2, <2>4, <2>5 DEF TimeLeft, Remaining
      <3>2. QED
        BY <1>3, <2>3, <3>1
    <2>6. CASE rcv[x] = "handle"
      <3> DEFINE m == Len(buf[x]) * HandlerMax
      <3>1. Remaining(x)' = rleft'[x] + m + Idle /\ Remaining(x) = rleft[x] + m + Idle
        BY <1>4, <1>6, <2>6 DEF TimeLeft, Remaining
      <3>2. m \in Nat
        BY <2>4, Products
      <3> HIDE DEF m
      <3>3. QED
        BY <1>3, <2>3, <3>1, <3>2, Timeouts
    <2>7. QED
      BY <2>1, <2>5, <2>6
  <1>7. QED
    BY <1>3, <1>5, <1>6

\* Any other step after the clock has moved leaves an end no more time.
LEMMA DyingStep ==
  ASSUME Types, LoadBound, Loops, Shape, Frozen, age > 0, [Next]_vars, ~Tick,
         NEW x \in Ends, pos'[x] >= 3, ~closed'[x]
  PROVE  pos[x] >= 3 /\ ~closed[x] /\ Remaining(x)' <= Remaining(x)
  <1>0. cut /\ pos[x] \in 0 .. 5 /\ rleft[x] \in Nat
    BY DEF Frozen, Types, Flags, Clocks
  <1>1. ASSUME pos'[x] = pos[x], hello'[x] = hello[x], rcv'[x] = rcv[x], rleft'[x] = rleft[x],
               buf'[x] = buf[x], closed[x] => closed'[x]
        PROVE  pos[x] >= 3 /\ ~closed[x] /\ Remaining(x)' <= Remaining(x)
    <2>1. pos[x] >= 3 /\ ~closed[x]
      BY <1>1
    <2>2. Remaining(x)' = Remaining(x)
      BY <1>1 DEF Remaining
    <2>3. Remaining(x) \in Nat
      BY <2>1, RemainingBound DEF Bounded
    <2>4. QED
      BY <2>1, <2>2, <2>3
  <1>2. ASSUME NEW e \in Ends, WriteOpening(e)
        PROVE  pos[x] >= 3 /\ ~closed[x] /\ Remaining(x)' <= Remaining(x)
    <2>1. /\ pos[e] < 5 /\ ~closed[e] /\ Writer(pos[e] + 1) = e /\ buf' = buf /\ closed' = closed
          /\ Advance(e)
      BY <1>2 DEF WriteOpening, Put, Advance
    <2>2. e = "dialer" /\ pos[e] = 3
      BY <2>1 DEF Frozen
    <2>3. /\ pos' = [pos EXCEPT ![e] = 4] /\ hello' = [hello EXCEPT ![e] = hello[e]]
          /\ UNCHANGED <<rcv, rleft>>
      BY <2>1, <2>2 DEF Advance
    <2>4. CASE x = e
      <3>1. pos'[x] = 4 /\ hello'[x] = hello[x] /\ hello[x] \in Nat
        BY <2>3, <2>4, Timeouts DEF Types, Clocks
      <3>2. Remaining(x)' = hello[x] /\ Remaining(x) = hello[x]
        BY <2>2, <2>4, <3>1 DEF Remaining, TimeLeft
      <3>3. QED
        BY <2>1, <2>2, <2>4, <3>1, <3>2
    <2>5. CASE x # e
      BY <1>1, <2>1, <2>3, <2>5 DEF Types, Clocks
    <2>6. QED
      BY <2>4, <2>5
  <1>3. ASSUME NEW e \in Ends, ReadOpening(e)
        PROVE  FALSE
    BY <1>3 DEF ReadOpening, Frozen, Writer
  <1>4. ASSUME NEW e \in Ends, Deliver(e)
        PROVE  FALSE
    BY <1>0, <1>4 DEF Deliver
  <1>5. ASSUME NEW e \in Ends, e # x, Read(e) \/ Handled(e) \/ RecvLoopEnds(e)
        PROVE  pos[x] >= 3 /\ ~closed[x] /\ Remaining(x)' <= Remaining(x)
    <2>1. pos' = pos /\ hello' = hello /\ closed' = closed /\ rcv'[x] = rcv[x] /\ rleft'[x] = rleft[x]
          /\ buf'[x] = buf[x]
      BY <1>5 DEF Read, Handled, RecvLoopEnds, Rearm, opening, net, Types, Clocks, Flags, Sockets
    <2>2. QED
      BY <1>1, <2>1
  <1>6. ASSUME Read(x) \/ Handled(x) \/ RecvLoopEnds(x)
        PROVE  pos[x] >= 3 /\ ~closed[x] /\ Remaining(x)' <= Remaining(x)
    <2>1. pos[x] = 5 /\ pos' = pos /\ ~closed[x]
      BY <1>6 DEF Read, Handled, RecvLoopEnds, Loops, opening, Types, Flags
    <2>2. Len(buf[x]) \in Nat /\ (buf[x] # << >> <=> Len(buf[x]) > 0)
      BY BufLen
    <2> DEFINE n == Len(buf[x])
               m == n * HandlerMax
               k == (n - 1) * HandlerMax
    <2>3. m \in Nat /\ (n > 0 => m = k + HandlerMax /\ k \in Nat) /\ HandlerMax \in Nat /\ Idle \in Nat
      BY <2>2, Products, Timeouts
    <2>4. Remaining(x)' = IF rcv'[x] = "handle" THEN rleft'[x] + Len(buf'[x]) * HandlerMax + Idle
                          ELSE IF rcv'[x] = "read"
                               THEN (IF Len(buf'[x]) > 0 THEN Len(buf'[x]) * HandlerMax + Idle ELSE rleft'[x])
                          ELSE 0
      BY <2>1 DEF Remaining, TimeLeft
    <2>5. Remaining(x) = IF rcv[x] = "handle" THEN rleft[x] + m + Idle
                         ELSE IF rcv[x] = "read" THEN (IF n > 0 THEN m + Idle ELSE rleft[x])
                         ELSE 0
      BY <2>1 DEF Remaining, TimeLeft
    <2>6. CASE Read(x)
      <3>1. /\ rcv[x] = "read" /\ n > 0 /\ Len(buf'[x]) = n - 1
        BY <2>2, <2>6, PopNet DEF Read, Types
      <3>2. Remaining(x) = m + Idle
        BY <2>5, <3>1
      <3>3. CASE Head(buf[x]) = "data"
        <4>1. rcv'[x] = "handle" /\ rleft'[x] = HandlerMax
          BY <2>6, <3>3 DEF Read, Types, Flags, Clocks
        <4>2. Remaining(x)' = HandlerMax + k + Idle
          BY <2>4, <3>1, <4>1
        <4> HIDE DEF n, m, k
        <4>3. QED
          BY <2>1, <2>3, <3>1, <3>2, <4>2
      <3>4. CASE Head(buf[x]) # "data"
        <4>1. rcv'[x] = "read" /\ rleft'[x] = Idle
          BY <2>6, <3>1, <3>4 DEF Read, Rearm, Types, Flags, Clocks, Idle
        <4>2. Remaining(x)' = IF n - 1 > 0 THEN k + Idle ELSE Idle
          BY <2>4, <3>1, <4>1
        <4> HIDE DEF n, m, k
        <4>3. QED
          BY <2>1, <2>3, <3>1, <3>2, <4>2
      <3>5. QED
        BY <3>3, <3>4
    <2>7. CASE Handled(x)
      <3>1. rcv[x] = "handle" /\ rcv'[x] = "read" /\ rleft'[x] = Idle /\ buf' = buf
        BY <2>7 DEF Handled, Rearm, net, Types, Flags, Clocks, Idle
      <3>2. Remaining(x) = rleft[x] + m + Idle /\ Remaining(x)' = IF n > 0 THEN m + Idle ELSE Idle
        BY <2>4, <2>5, <3>1
      <3> HIDE DEF n, m, k
      <3>3. QED
        BY <1>0, <2>1, <2>3, <3>2
    <2>8. CASE RecvLoopEnds(x)
      <3>1. rcv'[x] = "done"
        BY <2>8 DEF RecvLoopEnds, Types, Flags
      <3>2. Remaining(x)' = 0 /\ Remaining(x) \in Nat
        BY <2>1, <2>4, <3>1, RemainingBound DEF Bounded
      <3>3. QED
        BY <2>1, <3>2
    <2>9. QED
      BY <1>6, <2>6, <2>7, <2>8
  <1>7. ASSUME NEW e \in Ends,
               \/ OpeningFails(e) \/ TakeMessage(e) \/ WriteKeepalive(e) \/ Written(e) \/ SendLoopEnds(e)
               \/ RunCloses(e) \/ SendRaw(e) \/ Stop(e) \/ Stall(e)
        PROVE  pos[x] >= 3 /\ ~closed[x] /\ Remaining(x)' <= Remaining(x)
    <2>1. UNCHANGED <<pos, hello, rcv, rleft, buf>> /\ (closed[x] => closed'[x])
      BY <1>7 DEF OpeningFails, TakeMessage, WriteKeepalive, StartWrite, Written, Put, SendLoopEnds,
                  RunCloses, SendRaw, Stop, Stall, opening, loops, net, Types, Flags
    <2>2. QED
      BY <1>1, <2>1
  <1>8. CASE Cut \/ UNCHANGED vars
    <2>1. UNCHANGED <<pos, hello, rcv, rleft, buf, closed>>
      BY <1>8 DEF Cut, vars, opening, loops, net
    <2>2. QED
      BY <1>1, <2>1
  <1>9. QED
    BY <1>2, <1>3, <1>4, <1>5, <1>6, <1>7, <1>8 DEF Next, Step

LEMMA NextDying == DeadInv /\ [Next]_vars => Dying'
  <1> SUFFICES ASSUME DeadInv, [Next]_vars, stalled' = {}, NEW x \in Ends, pos'[x] >= 3, ~closed'[x]
               PROVE  age' + Remaining(x)' <= EvictionTime
    BY DEF Dying
  <1> USE DEF DeadInv
  <1>1. Types' /\ LoadBound' /\ Loops' /\ age \in Nat /\ EvictionTime \in Nat
    BY NextTypes, NextLoadBound, NextLoops, EvictionBounds DEF Types, Clocks
  <1>2. Remaining(x)' \in Nat /\ Remaining(x)' <= EvictionTime
    <2>1. Types' /\ LoadBound' /\ Loops' => Bounded'
      BY RemainingBound, PTL
    <2>2. QED
      BY <1>1, <2>1 DEF Bounded
  <1>3. stalled = {}
    BY DEF Next, Step, Deliver, WriteOpening, ReadOpening, Advance, OpeningFails, TakeMessage,
           WriteKeepalive, StartWrite, Written, SendLoopEnds, Read, Handled, RecvLoopEnds,
           RunCloses, SendRaw, Stop, Stall, Cut, Tick, vars, faults
  <1>4. CASE Tick
    <2>1. pos[x] >= 3 /\ ~closed[x] /\ (age' = age \/ age' = age + 1)
      BY <1>4 DEF Tick
    <2>2. Remaining(x)' = Remaining(x) - 1 /\ Remaining(x) \in Nat
      BY <1>3, <1>4, <2>1, DyingTick, RemainingBound DEF Bounded
    <2>3. age + Remaining(x) <= EvictionTime
      BY <1>3, <2>1 DEF Dying
    <2>4. QED
      BY <1>1, <2>1, <2>2, <2>3
  <1>5. CASE ~Tick
    <2>1. age' = age
      BY <1>5 DEF Next, Step, Deliver, WriteOpening, ReadOpening, Advance, OpeningFails, TakeMessage,
                WriteKeepalive, StartWrite, Written, SendLoopEnds, Read, Handled, RecvLoopEnds,
                RunCloses, SendRaw, Stop, Stall, Cut, vars, faults
    <2>2. CASE age = 0
      BY <1>1, <1>2, <2>1, <2>2
    <2>3. CASE age > 0
      <3>1. pos[x] >= 3 /\ ~closed[x] /\ Remaining(x)' <= Remaining(x)
        BY <1>5, <2>3, DyingStep
      <3>2. age + Remaining(x) <= EvictionTime /\ Remaining(x) \in Nat
        BY <1>3, <3>1, RemainingBound DEF Dying, Bounded
      <3>3. QED
        BY <1>1, <1>2, <2>1, <3>1, <3>2
    <2>4. QED
      BY <1>1, <2>2, <2>3
  <1>6. QED
    BY <1>4, <1>5

LEMMA InitTypes == Init => Types /\ LoadBound /\ Loops /\ Shape
  <1> SUFFICES ASSUME Init
               PROVE  Types /\ LoadBound /\ Loops /\ Shape
    OBVIOUS
  <1>1. Clocks
    BY Timeouts DEF Init, Clocks
  <1>2. Flags
    BY DEF Init, Flags
  <1>3. Sockets
    BY DEF Init, Sockets
  <1>4. \A e \in Ends : wire[e] = << >> /\ buf[e] = << >>
    BY DEF Init
  <1>5. Types
    BY <1>1, <1>2, <1>3 DEF Types
  <1>6. \A e \in Ends : Load(e) = 0
    BY <1>4, <1>5, LoadEmpty
  <1>7. LoadBound
    BY <1>6, Timeouts DEF LoadBound
  <1>8. Loops
    BY DEF Init, Loops
  <1>9. Shape
    <2>1. pos["dialer"] = 0 /\ pos["acceptor"] = 0 /\ Load("dialer") = 0 /\ Load("acceptor") = 0
      BY <1>6 DEF Init, Ends
    <2>2. QED
      BY <2>1 DEF Shape, At
  <1>10. QED
    BY <1>5, <1>7, <1>8, <1>9

\* Types, bounds of the buffers and deadlines, and the places of the two ends,
\* hold whatever fails.
THEOREM Invariance == Spec => [](Types /\ LoadBound /\ Loops /\ Shape)
  BY InitTypes, NextTypes, NextLoadBound, NextLoops, NextShape, PTL DEF Spec

\* An end that is past the Noise handshake gives up a dead connection within
\* EvictionTime, for all timeouts, delays and buffers: each handler that is still
\* to run is paid for once, and each read that starts anew sets the idle deadline
\* only after a frame that had arrived before the cut.
THEOREM DeadNoticedHolds == Spec => []DeadNoticed
  <1>1. Init => DeadInv
    <2> SUFFICES ASSUME Init
                 PROVE  Frozen /\ Dying
      BY InitTypes DEF DeadInv
    <2>1. age = 0 /\ \A e \in Ends : pos[e] = 0
      BY DEF Init
    <2>2. QED
      BY <2>1 DEF Frozen, Dying
  <1>2. DeadInv /\ [Next]_vars => DeadInv'
    BY NextTypes, NextLoadBound, NextLoops, NextShape, NextFrozen, NextDying DEF DeadInv
  <1>3. DeadInv => DeadNoticed
    <2> SUFFICES ASSUME DeadInv, age > EvictionTime, stalled = {}, NEW e \in Ends, pos[e] >= 3, ~closed[e]
                 PROVE  FALSE
      BY DEF DeadNoticed
    <2>1. Remaining(e) \in Nat /\ age + Remaining(e) <= EvictionTime
      BY RemainingBound DEF DeadInv, Dying, Bounded
    <2>2. age \in Nat /\ EvictionTime \in Nat
      BY EvictionBounds DEF DeadInv, Types, Clocks
    <2>3. QED
      BY <2>1, <2>2
  <1>4. QED
    BY <1>1, <1>2, <1>3, PTL DEF Spec

-----------------------------------------------------------------------------
(* A healthy connection.                                                    *)

\* What is used of the types and bounds at each end.
LEMMA EndTypes ==
  ASSUME Types, NEW x \in Ends
  PROVE  /\ wire[x] \in Seq(Frame) /\ buf[x] \in Seq(Kinds)
         /\ pos[x] \in 0 .. 5 /\ hello[x] \in Nat /\ wleft[x] \in Nat /\ rleft[x] \in Nat
         /\ timer[x] \in Nat /\ timer[x] <= Keepalive
  BY Timeouts DEF Types, Clocks, Sockets

\* The deadlines in numbers.
LEMMA TimelyFacts ==
  ASSUME Timely
  PROVE  /\ HandshakeTimeout - 2 * Delay > Delay /\ HandshakeTimeout > 2 * Delay /\ HandshakeTimeout > Delay
         /\ Idle - Keepalive - Delay > Delay /\ Idle > Keepalive + Delay /\ Idle > Delay
         /\ Timeout("write") > Delay /\ Timeout("write") > HandlerMax
  BY Timeouts DEF Timely, Idle, Keepalive

LEMMA BothEnds ==
  ASSUME NEW e \in Ends, AllUp', HelloInTime',
         ReadInTime(e, Other(e))', ReadInTime(Other(e), e)',
         WriteInTime(e, Other(e))', WriteInTime(Other(e), e)'
  PROVE  InTime'
  <1>1. \A x \in Ends : x = e \/ x = Other(e)
    BY DEF Ends, Other
  <1>2. Other(e) \in Ends /\ Other(Other(e)) = e
    BY OtherEnd
  <1>3. ASSUME NEW x \in Ends
        PROVE  ReadInTime(x, Other(x))' /\ WriteInTime(x, Other(x))'
    <2>1. CASE x = e
      BY <2>1
    <2>2. CASE x = Other(e)
      BY <1>2, <2>2 DEF ReadInTime, WriteInTime, Room
    <2>3. QED
      BY <1>1, <2>1, <2>2
  <1>4. QED
    BY <1>3 DEF InTime

LEMMA EachEnd ==
  ASSUME InTime, NEW e \in Ends
  PROVE  /\ AllUp /\ HelloInTime
         /\ ReadInTime(e, Other(e)) /\ ReadInTime(Other(e), e)
         /\ WriteInTime(e, Other(e)) /\ WriteInTime(Other(e), e)
  <1>1. Other(e) \in Ends /\ Other(Other(e)) = e
    BY OtherEnd
  <1>2. ReadInTime(Other(e), Other(Other(e))) /\ WriteInTime(Other(e), Other(Other(e)))
    BY <1>1 DEF InTime
  <1>3. QED
    BY <1>1, <1>2 DEF InTime

\* SendRaw only queues.
LEMMA HealthyQueue ==
  ASSUME InTime, NEW e \in Ends, SendRaw(e)
  PROVE  InTime'
  BY DEF SendRaw, InTime, AllUp, HelloInTime, ReadInTime, WriteInTime, Room, opening, net

\* The send loop takes a message or a keepalive: there is room, or what fills
\* the sockets will be read in time.
LEMMA HealthyStart ==
  ASSUME Types, LoadBound, Loops, Timely, InTime, NEW e \in Ends, TakeMessage(e) \/ WriteKeepalive(e)
  PROVE  InTime'
  <1> DEFINE o == Other(e)
  <1>0. o \in Ends /\ o # e
    BY OtherEnd
  <1> HIDE DEF o
  <1>1. /\ snd[e] = "select" /\ \E k \in {"data", "keepalive"} : snd' = [snd EXCEPT ![e] = k]
        /\ wleft' = [wleft EXCEPT ![e] = Timeout("write")] /\ timer' = [timer EXCEPT ![e] = 0]
        /\ UNCHANGED <<pos, hello, rcv, rleft, wire, buf, closed>>
    BY DEF TakeMessage, WriteKeepalive, StartWrite, opening, net
  <1>2. /\ snd'[e] \in {"data", "keepalive"} /\ wleft'[e] = Timeout("write")
        /\ snd'[o] = snd[o] /\ wleft'[o] = wleft[o] /\ timer'[o] = timer[o]
    BY <1>0, <1>1 DEF Types, Flags, Clocks
  <1>3. AllUp /\ HelloInTime /\ ReadInTime(e, o) /\ ReadInTime(o, e) /\ WriteInTime(e, o) /\ WriteInTime(o, e)
    BY EachEnd DEF o
  <1>4. AllUp' /\ HelloInTime'
    <2>1. HelloInTime'
      BY <1>1, <1>3 DEF HelloInTime
    <2>2. AllUp'
      BY <1>0, <1>1, <1>2, <1>3 DEF AllUp, Types, Flags
    <2>3. QED
      BY <2>1, <2>2
  <1>5. ReadInTime(e, o)'
    BY <1>1, <1>2, <1>3 DEF ReadInTime
  <1>6. ReadInTime(o, e)'
    <2>1. snd[e] = "select" /\ rleft[o] > timer[e] + Delay => rleft[o] > Delay
      BY <1>0, EndTypes, Timeouts
    <2>2. QED
      BY <1>1, <1>2, <1>3, <2>1 DEF ReadInTime
  <1>7. WriteInTime(o, e)'
    BY <1>1, <1>2, <1>3 DEF WriteInTime, Room
  <1>8. WriteInTime(e, o)'
    <2>1. Timeout("write") > 0 /\ (rcv[o] = "handle" => Timeout("write") > rleft[o])
      BY <1>0, EndTypes, Timeouts, TimelyFacts DEF Loops
    <2>2. CASE Room(e)
      BY <1>1, <1>2, <2>1, <2>2 DEF WriteInTime, Room
    <2>3. CASE ~Room(e)
      <3>1. ~(Load(o) < WireCap) /\ WireCap \in Nat \ {0} /\ Load(o) \in Nat
        BY <1>0, <2>3, Timeouts, LoadNat DEF Room, Load, o
      <3>2. Load(o) # 0
        BY <3>1
      <3>3. wire[o] # << >> \/ buf[o] # << >>
        BY <1>0, <3>2, LoadEmpty
      <3>4. Soon(wire[o], buf[o], Timeout("write"))
        BY <1>0, <3>3, EndTypes, Timeouts, TimelyFacts, SoonEnough
      <3>5. QED
        BY <1>1, <1>2, <2>1, <3>4 DEF WriteInTime
    <2>4. QED
      BY <2>2, <2>3
  <1>9. QED
    BY <1>4, <1>5, <1>6, <1>7, <1>8, BothEnds DEF o

\* A write goes through: the reader finds a frame under way.
LEMMA HealthyWritten ==
  ASSUME Types, LoadBound, Loops, Shape, Timely, InTime, NEW e \in Ends, Written(e)
  PROVE  InTime'
  <1> DEFINE o == Other(e)
  <1>0. o \in Ends /\ o # e
    BY OtherEnd
  <1>1. /\ snd[e] \in {"data", "keepalive"} /\ Put(e, snd[e]) /\ snd' = [snd EXCEPT ![e] = "select"]
        /\ timer' = [timer EXCEPT ![e] = Keepalive] /\ wleft' = [wleft EXCEPT ![e] = 0]
        /\ UNCHANGED <<pos, hello, rcv, rleft, closed>>
    BY DEF Written, opening, Keepalive
  <1>2. /\ snd'[e] = "select" /\ snd'[o] = snd[o] /\ wleft'[o] = wleft[o] /\ timer'[o] = timer[o]
    BY <1>0, <1>1 DEF Types, Flags, Clocks
  <1>3. pos[e] = 5
    BY <1>1 DEF Loops
  <1> DEFINE f == NewFrame(snd[e])
  <1>4. /\ f \in Frame /\ buf' = buf /\ wire'[e] = wire[e] /\ wire'[o] = Append(wire[o], f)
    <2>1. snd[e] \in Kinds
      BY <1>1 DEF Kinds
    <2>2. QED
      BY <1>1, <2>1, PutNet DEF Types
  <1>5. AllUp /\ HelloInTime /\ ReadInTime(e, o) /\ ReadInTime(o, e) /\ WriteInTime(e, o) /\ WriteInTime(o, e)
    BY EachEnd
  <1> HIDE DEF o, f
  <1>6. ASSUME NEW t \in Int
        PROVE  /\ Soon(wire[o], buf[o], t) => Soon(wire'[o], buf'[o], t)
               /\ t > Delay => Soon(wire'[o], buf'[o], t)
    <2>1. wire[o] \in Seq(Frame)
      BY <1>0, EndTypes
    <2>2. /\ Soon(wire[o], buf[o], t) => Soon(Append(wire[o], f), buf[o], t)
          /\ t > Delay => Soon(Append(wire[o], f), buf[o], t)
      BY <1>4, <2>1, Appended
    <2>3. QED
      BY <1>4, <2>2
  <1>7. AllUp'
    BY <1>0, <1>1, <1>5 DEF AllUp, Types, Flags
  <1>8. HelloInTime'
    <2>1. CASE pos["dialer"] = 5
      <3>1. pos["acceptor"] = 5
        BY <2>1 DEF Shape, At
      <3>2. QED
        BY <1>1, <2>1, <3>1 DEF HelloInTime
    <2>2. CASE pos["dialer"] # 5
      <3>1. e = "acceptor" /\ o = "dialer"
        BY <1>3, <2>2 DEF Ends, Other, o
      <3>2. hello["dialer"] \in Int
        BY <1>0, <3>1, EndTypes
      <3>3. Soon(wire["dialer"], buf["dialer"], hello["dialer"])
              => Soon(wire'["dialer"], buf'["dialer"], hello["dialer"])
        BY <1>6, <3>1, <3>2
      <3>4. pos["dialer"] = 4 /\ pos["acceptor"] = 5
        BY <1>3, <2>2, <3>1 DEF Shape, At
      <3>5. QED
        BY <1>1, <1>5, <3>3, <3>4 DEF HelloInTime
    <2>3. QED
      BY <2>1, <2>2
  <1>9. ReadInTime(o, e)'
    <2>1. rleft[o] \in Int
      BY <1>0, EndTypes
    <2>2. rcv[o] = "read" => rleft[o] > 0 /\ (Soon(wire[o], buf[o], rleft[o]) \/ rleft[o] > Delay)
      BY <1>1, <1>3, <1>5 DEF ReadInTime
    <2>3. /\ Soon(wire[o], buf[o], rleft[o]) => Soon(wire'[o], buf'[o], rleft[o])
          /\ rleft[o] > Delay => Soon(wire'[o], buf'[o], rleft[o])
      BY <1>6, <2>1
    <2>4. QED
      BY <1>1, <2>2, <2>3 DEF ReadInTime
  <1>10. ReadInTime(e, o)'
    <2>1. rleft[e] - Keepalive - Delay \in Int
      BY EndTypes, Timeouts
    <2>2. Soon(wire[o], buf[o], rleft[e] - Keepalive - Delay)
            => Soon(wire'[o], buf'[o], rleft[e] - Keepalive - Delay)
      BY <1>6, <2>1
    <2>3. QED
      BY <1>1, <1>2, <1>4, <1>5, <2>2 DEF ReadInTime
  <1>11. WriteInTime(e, o)'
    BY <1>2 DEF WriteInTime
  <1>12. WriteInTime(o, e)'
    <2>1. Other(o) = e
      BY OtherEnd DEF o
    <2>2. Room(o) => Room(o)'
      BY <1>4, <2>1 DEF Room
    <2>3. QED
      BY <1>1, <1>2, <1>4, <1>5, <2>2 DEF WriteInTime
  <1>13. QED
    BY <1>7, <1>8, <1>9, <1>10, <1>11, <1>12, BothEnds DEF o

\* A frame arrives.
LEMMA HealthyDeliver ==
  ASSUME Types, InTime, NEW e \in Ends, Deliver(e)
  PROVE  InTime'
  <1> DEFINE o == Other(e)
  <1>0. o \in Ends /\ o # e /\ Other(o) = e /\ \A x \in Ends : x = e \/ x = o
    BY OtherEnd DEF Ends, Other
  <1>1. UNCHANGED <<pos, hello, snd, wleft, timer, rcv, rleft, closed>>
    BY DEF Deliver, opening, loops
  <1>2. /\ wire'[o] = wire[o] /\ buf'[o] = buf[o]
    BY DeliverNet DEF Types
  <1>12. ASSUME NEW t \in Int
        PROVE  Soon(wire'[e], buf'[e], t) /\ (All(wire[e], t) => All(wire'[e], t))
    <2>1. wire[e] \in Seq(Frame) /\ buf[e] \in Seq(Kinds)
      BY EndTypes
    <2>2. wire[e] # << >> /\ wire'[e] = Tail(wire[e]) /\ buf'[e] = Append(buf[e], Head(wire[e]).kind)
      BY DeliverNet DEF Types
    <2>3. /\ Soon(Tail(wire[e]), Append(buf[e], Head(wire[e]).kind), t)
          /\ All(wire[e], t) => All(Tail(wire[e]), t)
      BY <2>1, <2>2, Arrived
    <2>4. QED
      BY <2>2, <2>3
  <1>3. AllUp /\ HelloInTime /\ ReadInTime(e, o) /\ ReadInTime(o, e) /\ WriteInTime(e, o) /\ WriteInTime(o, e)
    BY EachEnd
  <1>4. Load(o)' = Load(o) /\ Load(e)' = Load(e)
    BY <1>0, LoadDeliver
  <1> HIDE DEF o
  <1>5. AllUp'
    BY <1>1, <1>3 DEF AllUp
  <1>6. HelloInTime'
    <2>1. ASSUME NEW x \in Ends, NEW t \in Int
          PROVE  /\ Soon(wire[x], buf[x], t) => Soon(wire'[x], buf'[x], t)
                 /\ All(wire[x], t) => All(wire'[x], t)
      BY <1>0, <1>2, <1>12
    <2>2. /\ "dialer" \in Ends /\ "acceptor" \in Ends /\ hello["dialer"] \in Int /\ hello["acceptor"] \in Int
          /\ hello["dialer"] - 2 * Delay \in Int /\ hello["dialer"] - Delay \in Int
      BY EndTypes, Timeouts DEF Ends
    <2>3. /\ Soon(wire["dialer"], buf["dialer"], hello["dialer"])
               => Soon(wire'["dialer"], buf'["dialer"], hello["dialer"])
          /\ All(wire["acceptor"], hello["acceptor"]) => All(wire'["acceptor"], hello["acceptor"])
          /\ All(wire["acceptor"], hello["dialer"] - 2 * Delay) => All(wire'["acceptor"], hello["dialer"] - 2 * Delay)
          /\ All(wire["acceptor"], hello["dialer"] - Delay) => All(wire'["acceptor"], hello["dialer"] - Delay)
      BY <2>1, <2>2
    <2>4. QED
      BY <1>1, <1>3, <2>3 DEF HelloInTime
  <1>7. ReadInTime(e, o)'
    <2>1. rleft[e] \in Int
      BY EndTypes
    <2>2. Soon(wire'[e], buf'[e], rleft[e])
      BY <1>12, <2>1
    <2>3. QED
      BY <1>1, <1>3, <2>2 DEF ReadInTime
  <1>8. ReadInTime(o, e)'
    <2>1. rleft[o] - Keepalive - Delay \in Int
      BY <1>0, EndTypes, Timeouts
    <2>2. Soon(wire'[e], buf'[e], rleft[o] - Keepalive - Delay)
      BY <1>12, <2>1
    <2>3. QED
      BY <1>1, <1>2, <1>3, <2>2 DEF ReadInTime
  <1>9. WriteInTime(e, o)'
    <2>1. Room(e) => Room(e)'
      BY <1>4 DEF Room, Load, o
    <2>2. QED
      BY <1>1, <1>2, <1>3, <2>1 DEF WriteInTime
  <1>10. WriteInTime(o, e)'
    <2>1. Room(o) => Room(o)'
      BY <1>0, <1>4 DEF Room, Load
    <2>2. wleft[o] \in Int
      BY <1>0, EndTypes
    <2>3. Soon(wire'[e], buf'[e], wleft[o])
      BY <1>12, <2>2
    <2>4. QED
      BY <1>1, <1>3, <2>1, <2>3 DEF WriteInTime
  <1>11. QED
    BY <1>5, <1>6, <1>7, <1>8, <1>9, <1>10, BothEnds DEF o

\* The idle deadline is set anew: it leaves time for whatever the other end does next.
LEMMA Rearmed ==
  ASSUME Types, Loops, Shape, Timely, AllUp, HelloInTime, NEW e \in Ends, pos[e] = 5
  PROVE  /\ Idle > 0
         /\ \/ snd[Other(e)] = "select" /\ Idle > timer[Other(e)] + Delay
            \/ snd[Other(e)] \in {"data", "keepalive"} /\ Idle > Delay
            \/ /\ e = "acceptor" /\ pos["dialer"] = 4 /\ Idle > Keepalive + Delay
               /\ Soon(wire["dialer"], buf["dialer"], Idle - Keepalive - Delay)
  <1>0. Other(e) \in Ends /\ "dialer" \in Ends /\ Idle > 0
    BY OtherEnd, Timeouts DEF Ends
  <1>1. CASE pos[Other(e)] = 5
    <2>1. snd[Other(e)] \in {"select", "data", "keepalive"}
      BY <1>0, <1>1 DEF Loops, AllUp, Types, Flags
    <2>2. Idle > timer[Other(e)] + Delay /\ Idle > Delay
      BY <1>0, EndTypes, Timeouts, TimelyFacts
    <2>3. QED
      BY <1>0, <2>1, <2>2
  <1>2. CASE pos[Other(e)] # 5
    <2>1. e = "acceptor" /\ pos["acceptor"] = 5 /\ pos["dialer"] = 4
      BY <1>2 DEF Shape, At, Ends, Other
    <2>2. Soon(wire["dialer"], buf["dialer"], hello["dialer"])
      BY <2>1 DEF HelloInTime
    <2>3. wire["dialer"] # << >> \/ buf["dialer"] # << >>
      BY <2>2 DEF Soon
    <2>4. Idle - Keepalive - Delay \in Int
      BY Timeouts
    <2>5. Soon(wire["dialer"], buf["dialer"], Idle - Keepalive - Delay)
      BY <1>0, <2>3, <2>4, EndTypes, TimelyFacts, SoonEnough
    <2>6. QED
      BY <1>0, <2>1, <2>5, TimelyFacts
  <1>3. QED
    BY <1>1, <1>2

\* A frame is read: there is room for the next one.
LEMMA HealthyRead ==
  ASSUME Types, LoadBound, Loops, Shape, Timely, InTime, NEW e \in Ends, Read(e)
  PROVE  InTime'
  <1> DEFINE o == Other(e)
  <1>0. o \in Ends /\ o # e /\ Other(o) = e
    BY OtherEnd
  <1>1. /\ rcv[e] = "read" /\ buf[e] # << >> /\ buf' = [buf EXCEPT ![e] = Tail(@)]
        /\ UNCHANGED <<pos, hello, snd, wleft, timer, queue, wire, closed>>
        /\ \/ rcv' = [rcv EXCEPT ![e] = "handle"] /\ rleft' = [rleft EXCEPT ![e] = HandlerMax]
           \/ rcv' = rcv /\ rleft' = [rleft EXCEPT ![e] = Idle]
    BY DEF Read, Rearm, Idle, opening
  <1>2. rcv'[o] = rcv[o] /\ rleft'[o] = rleft[o] /\ buf'[o] = buf[o]
        /\ (rcv'[e] = "handle" \/ (rcv'[e] = "read" /\ rleft'[e] = Idle))
    BY <1>0, <1>1 DEF Types, Flags, Clocks, Sockets
  <1>3. pos[e] = 5
    BY <1>1 DEF Loops
  <1>4. AllUp /\ HelloInTime /\ ReadInTime(e, o) /\ ReadInTime(o, e) /\ WriteInTime(e, o) /\ WriteInTime(o, e)
    BY EachEnd
  <1>5. pos[o] = 5
    <2>1. CASE pos[o] # 5
      <3>1. e = "acceptor" /\ Load("acceptor") = 0
        BY <1>3, <2>1 DEF Shape, At, Ends, Other
      <3>2. QED
        BY <1>1, <3>1, LoadEmpty
    <2>2. QED
      BY <2>1
  <1>6. Load(e)' < WireCap /\ Load(o)' = Load(o)
    <2>1. Load(e)' = Load(e) - 1 /\ Load(o)' = Load(o)
      BY <1>1, LoadPop DEF Load
    <2>2. Load(e) \in Nat /\ Load(e) <= WireCap /\ WireCap \in Nat
      BY LoadNat, Timeouts DEF LoadBound
    <2>3. QED
      BY <2>1, <2>2
  <1>7. Idle > 0 /\ \/ snd[o] = "select" /\ Idle > timer[o] + Delay
                    \/ snd[o] \in {"data", "keepalive"} /\ Idle > Delay
    <2>1. e = "acceptor" => pos["dialer"] # 4
      BY <1>5 DEF Other
    <2>2. QED
      BY <1>3, <1>4, <2>1, Rearmed
  <1>8. AllUp'
    <2>1. \A x \in Ends : rcv'[x] # "done"
      BY <1>0, <1>2, <1>4 DEF AllUp, Ends, Other
    <2>2. QED
      BY <1>1, <1>4, <2>1 DEF AllUp
  <1>9. HelloInTime'
    <2>1. pos["dialer"] = 5 /\ pos["acceptor"] = 5
      BY <1>0, <1>3, <1>5 DEF Ends, Other
    <2>2. QED
      BY <1>1, <2>1 DEF HelloInTime
  <1>10. ReadInTime(e, o)'
    BY <1>1, <1>2, <1>7 DEF ReadInTime
  <1>11. ReadInTime(o, e)'
    BY <1>1, <1>2, <1>3, <1>4 DEF ReadInTime
  <1>12. WriteInTime(e, o)'
    <2>1. Room(e) => Room(e)'
      BY <1>6 DEF Room, Load
    <2>2. QED
      BY <1>1, <1>2, <1>4, <2>1 DEF WriteInTime
  <1>13. WriteInTime(o, e)'
    <2>1. Room(o)'
      BY <1>0, <1>6 DEF Room, Load
    <2>2. QED
      BY <1>1, <1>4, <2>1 DEF WriteInTime
  <1>14. QED
    BY <1>8, <1>9, <1>10, <1>11, <1>12, <1>13, BothEnds

\* A handler returns.
LEMMA HealthyHandled ==
  ASSUME Types, Loops, Shape, Timely, InTime, NEW e \in Ends, Handled(e)
  PROVE  InTime'
  <1> DEFINE o == Other(e)
  <1>0. o \in Ends /\ o # e /\ Other(o) = e
    BY OtherEnd
  <1>1. /\ rcv[e] = "handle" /\ rcv' = [rcv EXCEPT ![e] = "read"] /\ rleft' = [rleft EXCEPT ![e] = Idle]
        /\ UNCHANGED <<pos, hello, snd, wleft, timer, queue, wire, buf, closed>>
    BY DEF Handled, Rearm, Idle, opening, net
  <1>2. rcv'[o] = rcv[o] /\ rleft'[o] = rleft[o] /\ rcv'[e] = "read" /\ rleft'[e] = Idle
    BY <1>0, <1>1 DEF Types, Flags, Clocks
  <1>3. pos[e] = 5
    BY <1>1 DEF Loops
  <1>4. AllUp /\ HelloInTime /\ ReadInTime(e, o) /\ ReadInTime(o, e) /\ WriteInTime(e, o) /\ WriteInTime(o, e)
    BY EachEnd
  <1>5. /\ Idle > 0
        /\ \/ snd[o] = "select" /\ Idle > timer[o] + Delay
           \/ snd[o] \in {"data", "keepalive"} /\ Idle > Delay
           \/ /\ pos[o] = 4 /\ Idle > Keepalive + Delay
              /\ Soon(wire[o], buf[o], Idle - Keepalive - Delay)
    BY <1>3, <1>4, Rearmed DEF Other
  <1>6. AllUp'
    BY <1>1, <1>4 DEF AllUp, Types, Flags
  <1>7. HelloInTime'
    BY <1>1, <1>4 DEF HelloInTime
  <1> HIDE DEF o
  <1>8. ReadInTime(e, o)'
    BY <1>1, <1>2, <1>5 DEF ReadInTime
  <1>9. ReadInTime(o, e)'
    BY <1>1, <1>2, <1>4 DEF ReadInTime
  <1>10. WriteInTime(e, o)' /\ WriteInTime(o, e)'
    BY <1>1, <1>2, <1>4 DEF WriteInTime, Room
  <1>11. QED
    BY <1>6, <1>7, <1>8, <1>9, <1>10, BothEnds DEF o

\* What an end does when it has dealt with a message of the opening.
LEMMA AdvanceFacts ==
  ASSUME NEW e \in Ends, pos[e] \in 0 .. 4, Advance(e)
  PROVE  /\ pos' = [pos EXCEPT ![e] = pos[e] + 1] /\ UNCHANGED <<wleft, closed>>
         /\ pos[e] = 2 => hello' = [hello EXCEPT ![e] = HandshakeTimeout]
         /\ pos[e] = 3 => hello' = [hello EXCEPT ![e] = hello[e]]
         /\ pos[e] = 4 => hello' = [hello EXCEPT ![e] = 0]
         /\ pos[e] # 4 => UNCHANGED <<snd, timer, rcv, rleft>>
         /\ pos[e] = 4 => /\ snd' = [snd EXCEPT ![e] = "select"] /\ rcv' = [rcv EXCEPT ![e] = "read"]
                          /\ rleft' = [rleft EXCEPT ![e] = Idle] /\ timer' = [timer EXCEPT ![e] = Keepalive]
  <1>1. pos' = [pos EXCEPT ![e] = pos[e] + 1] /\ UNCHANGED <<wleft, closed>>
    BY DEF Advance
  <1>2. CASE pos[e] = 2
    <2>1. hello' = [hello EXCEPT ![e] = HandshakeTimeout] /\ UNCHANGED <<snd, timer, rcv, rleft>>
      BY <1>2 DEF Advance
    <2>2. QED
      BY <1>1, <1>2, <2>1
  <1>3. CASE pos[e] = 4
    <2>1. hello' = [hello EXCEPT ![e] = 0]
      BY <1>3 DEF Advance
    <2>2. /\ snd' = [snd EXCEPT ![e] = "select"] /\ rcv' = [rcv EXCEPT ![e] = "read"]
          /\ rleft' = [rleft EXCEPT ![e] = Idle] /\ timer' = [timer EXCEPT ![e] = Keepalive]
      BY <1>3 DEF Advance, Idle, Keepalive
    <2>3. QED
      BY <1>1, <1>3, <2>1, <2>2
  <1>4. CASE pos[e] # 2 /\ pos[e] # 4
    <2>1. hello' = [hello EXCEPT ![e] = hello[e]] /\ UNCHANGED <<snd, timer, rcv, rleft>>
      BY <1>4 DEF Advance
    <2>2. QED
      BY <1>1, <1>4, <2>1
  <1>5. QED
    BY <1>2, <1>3, <1>4

\* A message of the opening is written.
LEMMA HealthyWriteOpening ==
  ASSUME Types, LoadBound, Loops, Shape, Loops', Timely, InTime, ~cut, NEW e \in Ends, WriteOpening(e)
  PROVE  InTime'
  <1> DEFINE o == Other(e)
             f == NewFrame(Opening[pos[e] + 1])
  <1>0. o \in Ends /\ o # e /\ Other(o) = e /\ "dialer" \in Ends /\ "acceptor" \in Ends
    BY OtherEnd DEF Ends
  <1>1. pos[e] \in 0 .. 4 /\ Writer(pos[e] + 1) = e /\ Put(e, Opening[pos[e] + 1]) /\ Advance(e)
    BY DEF WriteOpening, Types, Clocks
  <1>2. f \in Frame /\ buf' = buf /\ wire'[e] = wire[e] /\ wire'[o] = Append(wire[o], f)
        /\ wire' \in [Ends -> Seq(Frame)]
    <2>1. Opening[pos[e] + 1] \in Kinds
      BY <1>1, OpeningKinds
    <2>2. QED
      BY <1>1, <2>1, PutNet DEF Types
  <1>3. AllUp /\ HelloInTime
    BY EachEnd
  <1>4. /\ pos' = [pos EXCEPT ![e] = pos[e] + 1] /\ UNCHANGED <<wleft, closed>>
        /\ pos[e] = 2 => hello' = [hello EXCEPT ![e] = HandshakeTimeout]
        /\ pos[e] = 3 => hello' = [hello EXCEPT ![e] = hello[e]]
        /\ pos[e] = 4 => hello' = [hello EXCEPT ![e] = 0]
        /\ pos[e] # 4 => UNCHANGED <<snd, timer, rcv, rleft>>
        /\ pos[e] = 4 => /\ snd' = [snd EXCEPT ![e] = "select"] /\ rcv' = [rcv EXCEPT ![e] = "read"]
                         /\ rleft' = [rleft EXCEPT ![e] = Idle]
    BY <1>1, AdvanceFacts
  <1>5. AllUp'
    BY <1>3, <1>4 DEF AllUp, Types, Flags
  <1>6. CASE e = "dialer"
    <2>1. /\ pos["dialer"] \in {0, 2, 3} /\ pos'["dialer"] = pos["dialer"] + 1
          /\ pos'["acceptor"] = pos["acceptor"]
      BY <1>0, <1>1, <1>4, <1>6 DEF Writer, Types, Clocks
    <2>2. pos["acceptor"] \in {0, 2, 3} /\ (pos["dialer"] = 0 => pos["acceptor"] = 0)
          /\ (pos["dialer"] = 2 => pos["acceptor"] = 2)
      BY <2>1 DEF Shape, At
    <2>3. pos'["dialer"] # 5 /\ pos'["acceptor"] # 5
      BY <2>1, <2>2
    <2>4. rcv'["dialer"] = "off" /\ rcv'["acceptor"] = "off" /\ snd'["dialer"] = "off" /\ snd'["acceptor"] = "off"
      BY <1>0, <2>3 DEF Loops
    <2>5. \A x \in Ends, y \in Ends : ReadInTime(x, y)' /\ WriteInTime(x, y)'
      BY <2>4 DEF ReadInTime, WriteInTime, Ends
    <2>6. wire'["acceptor"] \in Seq(Frame) /\ hello["dialer"] \in Int /\ hello["acceptor"] \in Int /\ Delay \in Nat
          /\ HandshakeTimeout \in Int
      BY <1>0, <1>2, EndTypes, Timeouts
    <2>7. HelloInTime'
      <3>1. CASE pos["dialer"] = 0
        BY <2>1, <2>2, <3>1 DEF HelloInTime
      <3>2. CASE pos["dialer"] = 2
        <4>1. hello'["dialer"] = HandshakeTimeout /\ pos'["dialer"] = 3 /\ pos'["acceptor"] = 2
          BY <1>0, <1>4, <1>6, <2>1, <2>2, <3>2 DEF Types, Clocks
        <4>2. HandshakeTimeout - 2 * Delay \in Int /\ HandshakeTimeout - 2 * Delay > Delay
          BY <2>6, TimelyFacts
        <4>3. All(wire'["acceptor"], HandshakeTimeout - 2 * Delay)
          BY <2>6, <4>2, SoonEnough
        <4>4. QED
          BY <4>1, <4>3, TimelyFacts DEF HelloInTime
      <3>3. CASE pos["dialer"] = 3
        <4>1. /\ hello'["dialer"] = hello["dialer"] /\ pos'["dialer"] = 4 /\ pos'["acceptor"] = pos["acceptor"]
              /\ hello'["acceptor"] = hello["acceptor"]
          BY <1>0, <1>4, <1>6, <2>1, <3>3 DEF Types, Clocks
        <4>2. hello["dialer"] - Delay \in Int /\ hello["dialer"] - Delay > Delay /\ hello["dialer"] > Delay
          BY <1>3, <2>6, <3>3 DEF HelloInTime
        <4>3. All(wire'["acceptor"], hello["dialer"] - Delay)
          BY <2>6, <4>2, SoonEnough
        <4>4. pos["acceptor"] = 3 => hello["acceptor"] > Delay /\ hello["acceptor"] > 0
          BY <1>3, <2>6, <3>3 DEF HelloInTime
        <4>5. pos["acceptor"] = 3 => All(wire'["acceptor"], hello["acceptor"])
          BY <2>6, <4>4, SoonEnough
        <4>6. pos'["acceptor"] # 4 /\ pos'["acceptor"] # 5
          BY <2>2, <4>1
        <4>7. QED
          BY <4>1, <4>2, <4>3, <4>4, <4>5, <4>6 DEF HelloInTime
      <3>4. QED
        BY <2>1, <3>1, <3>2, <3>3
    <2>8. QED
      BY <1>0, <1>5, <2>5, <2>7, BothEnds
  <1>7. CASE e = "acceptor" /\ pos["acceptor"] = 1
    <2>1. pos["dialer"] = 1 /\ pos'["dialer"] = 1 /\ pos'["acceptor"] = 2
      <3>1. pos["dialer"] = 1
        BY <1>7 DEF Shape, At
      <3>2. QED
        BY <1>0, <1>4, <1>7, <3>1 DEF Types, Clocks
    <2>2. rcv'["dialer"] = "off" /\ rcv'["acceptor"] = "off" /\ snd'["dialer"] = "off" /\ snd'["acceptor"] = "off"
      BY <1>0, <2>1 DEF Loops
    <2>3. \A x \in Ends, y \in Ends : ReadInTime(x, y)' /\ WriteInTime(x, y)'
      BY <2>2 DEF ReadInTime, WriteInTime, Ends
    <2>4. HelloInTime'
      BY <2>1 DEF HelloInTime
    <2>5. QED
      BY <1>0, <1>5, <2>3, <2>4, BothEnds
  <1>8. CASE e = "acceptor" /\ pos["acceptor"] = 4
    <2>1. pos["dialer"] = 4 /\ o = "dialer"
      BY <1>8 DEF Shape, At, Other
    <2>2. /\ pos'["dialer"] = 4 /\ pos'["acceptor"] = 5 /\ hello'["dialer"] = hello["dialer"]
          /\ snd'["acceptor"] = "select" /\ rcv'["acceptor"] = "read" /\ rleft'["acceptor"] = Idle
      BY <1>0, <1>4, <1>8, <2>1 DEF Types, Clocks, Flags
    <2>3. rcv'["dialer"] = "off" /\ snd'["dialer"] = "off"
      BY <1>0, <2>2 DEF Loops
    <2>4. hello["dialer"] \in Int /\ hello["dialer"] > Delay /\ Idle - Keepalive - Delay \in Int
          /\ wire["dialer"] \in Seq(Frame) /\ Delay \in Nat
      BY <1>0, <1>3, <1>8, <2>1, EndTypes, Timeouts DEF HelloInTime
    <2>5. Soon(wire'["dialer"], buf'["dialer"], hello["dialer"])
      BY <1>2, <2>1, <2>4, Appended
    <2>6. Soon(wire'["dialer"], buf'["dialer"], Idle - Keepalive - Delay)
      BY <1>2, <2>1, <2>4, Appended, TimelyFacts
    <2>7. HelloInTime'
      <3>1. hello["dialer"] > 0
        BY <2>4
      <3>2. QED
        BY <2>2, <2>5, <3>1 DEF HelloInTime
    <2>8. ReadInTime("acceptor", "dialer")'
      BY <2>2, <2>6, TimelyFacts, Timeouts DEF ReadInTime
    <2>9. ReadInTime("dialer", "acceptor")' /\ WriteInTime("dialer", "acceptor")'
      BY <2>3 DEF ReadInTime, WriteInTime
    <2>10. WriteInTime("acceptor", "dialer")'
      BY <2>2 DEF WriteInTime
    <2>11. QED
      BY <1>0, <1>5, <2>1, <2>7, <2>8, <2>9, <2>10, <1>8, BothEnds
  <1>9. QED
    <2>1. e = "acceptor" => pos["acceptor"] \in {1, 4}
      BY <1>1 DEF Writer
    <2>2. QED
      BY <1>6, <1>7, <1>8, <2>1 DEF Ends

\* A message of the opening is read.
LEMMA HealthyReadOpening ==
  ASSUME Types, LoadBound, Loops, Shape, Loops', Timely, InTime, ~cut, NEW e \in Ends, ReadOpening(e)
  PROVE  InTime'
  <1>0. "dialer" \in Ends /\ "acceptor" \in Ends /\ Other("dialer") = "acceptor" /\ Other("acceptor") = "dialer"
    BY DEF Ends, Other
  <1>1. pos[e] \in 0 .. 4 /\ Writer(pos[e] + 1) # e /\ Advance(e) /\ wire' = wire /\ buf[e] # << >>
        /\ buf' = [buf EXCEPT ![e] = Tail(@)]
    BY DEF ReadOpening, Types, Clocks
  <1>2. AllUp /\ HelloInTime
    BY EachEnd
  <1>3. /\ pos' = [pos EXCEPT ![e] = pos[e] + 1] /\ UNCHANGED <<wleft, closed>>
        /\ pos[e] = 2 => hello' = [hello EXCEPT ![e] = HandshakeTimeout]
        /\ pos[e] = 3 => hello' = [hello EXCEPT ![e] = hello[e]]
        /\ pos[e] # 4 => UNCHANGED <<snd, timer, rcv, rleft>>
        /\ pos[e] = 4 => /\ snd' = [snd EXCEPT ![e] = "select"] /\ rcv' = [rcv EXCEPT ![e] = "read"]
                         /\ rleft' = [rleft EXCEPT ![e] = Idle] /\ timer' = [timer EXCEPT ![e] = Keepalive]
    BY <1>1, AdvanceFacts
  <1>4. AllUp'
    BY <1>2, <1>3 DEF AllUp, Types, Flags
  <1>5. CASE e = "dialer" /\ pos["dialer"] = 4
    <2>1. Load("dialer") >= 1 /\ Load("dialer")' < WireCap
      <3>1. Load("dialer")' = Load("dialer") - 1 /\ Load("dialer") >= 1
        BY <1>1, <1>5, ReadLoads
      <3>2. Load("dialer") \in Nat /\ Load("dialer") <= WireCap /\ WireCap \in Nat
        BY <1>0, LoadNat, Timeouts DEF LoadBound
      <3>3. QED
        BY <3>1, <3>2
    <2>2. pos["acceptor"] = 5
      BY <1>5, <2>1 DEF Shape, At
    <2>3. /\ pos'["dialer"] = 5 /\ pos'["acceptor"] = 5 /\ snd'["dialer"] = "select" /\ rcv'["dialer"] = "read"
          /\ rleft'["dialer"] = Idle /\ timer'["dialer"] = Keepalive /\ snd'["acceptor"] = snd["acceptor"]
          /\ rcv'["acceptor"] = rcv["acceptor"] /\ rleft'["acceptor"] = rleft["acceptor"]
          /\ timer'["acceptor"] = timer["acceptor"] /\ buf'["acceptor"] = buf["acceptor"]
      BY <1>0, <1>1, <1>3, <1>5, <2>2 DEF Types, Clocks, Flags, Sockets
    <2>4. HelloInTime'
      BY <2>3 DEF HelloInTime
    <2>5. ReadInTime("dialer", "acceptor")'
      <3>1. snd["acceptor"] \in {"select", "data", "keepalive"}
        BY <1>0, <1>2, <2>2 DEF AllUp, Loops, Types, Flags
      <3>2. Idle > timer["acceptor"] + Delay /\ Idle > Delay /\ Idle > 0
        BY <1>0, EndTypes, Timeouts, TimelyFacts
      <3>3. QED
        BY <2>3, <3>1, <3>2 DEF ReadInTime
    <2>6. ReadInTime("acceptor", "dialer")'
      <3>1. ReadInTime("acceptor", "dialer") /\ snd["dialer"] = "off"
        BY <1>0, <1>5 DEF InTime, Loops
      <3>2. QED
        BY <1>1, <2>3, <3>1 DEF ReadInTime
    <2>7. WriteInTime("acceptor", "dialer")'
      <3>1. WriteInTime("acceptor", "dialer")
        BY <1>0 DEF InTime
      <3>2. Room("acceptor")'
        BY <1>0, <2>1 DEF Room, Load
      <3>3. QED
        BY <1>3, <2>3, <3>1, <3>2 DEF WriteInTime
    <2>8. WriteInTime("dialer", "acceptor")'
      BY <2>3 DEF WriteInTime
    <2>9. QED
      BY <1>0, <1>4, <2>4, <2>5, <2>6, <2>7, <2>8, BothEnds
  <1>6. CASE ~(e = "dialer" /\ pos["dialer"] = 4)
    <2>0. Load("dialer") \in Nat /\ Load("acceptor") \in Nat
      BY <1>0, LoadNat
    <2>1. \/ e = "dialer" /\ pos["dialer"] = 1 /\ pos["acceptor"] = 2
          \/ e = "acceptor" /\ pos["dialer"] = 1 /\ pos["acceptor"] = 0
          \/ e = "acceptor" /\ pos["dialer"] = 3 /\ pos["acceptor"] = 2
          \/ e = "acceptor" /\ pos["dialer"] = 4 /\ pos["acceptor"] = 2
          \/ e = "acceptor" /\ pos["dialer"] = 4 /\ pos["acceptor"] = 3
      <3>1. CASE e = "dialer"
        <4>1. pos["dialer"] = 1 /\ Load("dialer") >= 1
          BY <1>1, <1>6, <3>1, ReadLoads DEF Writer
        <4>2. QED
          BY <2>0, <3>1, <4>1 DEF Shape, At
      <3>2. CASE e = "acceptor"
        <4>1. pos["acceptor"] \in {0, 2, 3} /\ Load("acceptor") >= 1
          BY <1>1, <3>2, ReadLoads DEF Writer
        <4>2. QED
          BY <2>0, <3>2, <4>1 DEF Shape, At
      <3>3. QED
        BY <3>1, <3>2 DEF Ends
    <2>2. pos'["dialer"] # 5 /\ pos'["acceptor"] # 5
      BY <1>0, <1>3, <2>1 DEF Types, Clocks
    <2>3. rcv'["dialer"] = "off" /\ rcv'["acceptor"] = "off" /\ snd'["dialer"] = "off" /\ snd'["acceptor"] = "off"
      BY <1>0, <2>2 DEF Loops
    <2>4. \A x \in Ends, y \in Ends : ReadInTime(x, y)' /\ WriteInTime(x, y)'
      BY <2>3 DEF ReadInTime, WriteInTime, Ends
    <2>5. wire["acceptor"] \in Seq(Frame) /\ HandshakeTimeout \in Int /\ Delay \in Nat
      BY <1>0, EndTypes, Timeouts
    <2>6. HelloInTime'
      <3>1. CASE e = "dialer"
        <4>1. pos'["dialer"] = 2 /\ pos'["acceptor"] = 2
          BY <1>0, <1>3, <2>1, <3>1 DEF Types, Clocks
        <4>2. QED
          BY <4>1 DEF HelloInTime
      <3>2. CASE e = "acceptor" /\ pos["acceptor"] = 0
        <4>1. pos'["dialer"] = 1 /\ pos'["acceptor"] = 1
          BY <1>0, <1>3, <2>1, <3>2 DEF Types, Clocks
        <4>2. QED
          BY <4>1 DEF HelloInTime
      <3>3. CASE e = "acceptor" /\ pos["acceptor"] = 2
        <4>1. /\ pos'["dialer"] = pos["dialer"] /\ pos'["acceptor"] = 3 /\ hello'["acceptor"] = HandshakeTimeout
              /\ hello'["dialer"] = hello["dialer"]
          BY <1>0, <1>3, <2>1, <3>3 DEF Types, Clocks
        <4>2. HandshakeTimeout > 0 /\ HandshakeTimeout > Delay
          BY <2>5, TimelyFacts
        <4>3. All(wire["acceptor"], HandshakeTimeout)
          BY <2>5, <4>2, SoonEnough
        <4>4. QED
          BY <1>1, <1>2, <2>1, <3>3, <4>1, <4>2, <4>3 DEF HelloInTime
      <3>4. CASE e = "acceptor" /\ pos["acceptor"] = 3
        <4>1. /\ pos["dialer"] = 4 /\ pos'["dialer"] = 4 /\ pos'["acceptor"] = 4
              /\ hello'["acceptor"] = hello["acceptor"] /\ hello'["dialer"] = hello["dialer"]
          BY <1>0, <1>3, <2>1, <3>4 DEF Types, Clocks
        <4>2. QED
          BY <1>1, <1>2, <3>4, <4>1 DEF HelloInTime
      <3>5. QED
        BY <2>1, <3>1, <3>2, <3>3, <3>4
    <2>7. QED
      BY <1>0, <1>4, <2>4, <2>6, BothEnds
  <1>7. QED
    BY <1>5, <1>6

\* When the clock moves nothing can be done at an end of a connection that is up.
LEMMA TickWaits ==
  ASSUME Types, AllUp, ~cut, stalled = {}, Tick, NEW x \in Ends
  PROVE  /\ pos[x] < 5 /\ Writer(pos[x] + 1) = x => ~Room(x)
         /\ pos[x] < 5 /\ Writer(pos[x] + 1) # x => buf[x] = << >>
         /\ snd[x] = "select" => timer[x] # 0
         /\ snd[x] \in {"data", "keepalive"} => ~Room(x)
         /\ rcv[x] = "read" => buf[x] = << >>
         /\ rcv[x] = "handle" => rleft[x] # 0
         /\ wire[x] # << >> => wire[x][1].left # 0
  <1>1. ~Busy(x) /\ ~closed[x]
    BY DEF Tick, AllUp
  <1>2. wire[x] \in Seq(Frame)
    BY EndTypes
  <1>3. wire[x] # << >> => wire[x][1].left # 0
    BY <1>1, <1>2 DEF Busy
  <1>4. QED
    BY <1>1, <1>3 DEF Busy

\* What the clock does to the frames under way to an end.
LEMMA TickSoon ==
  ASSUME Types, AllUp, ~cut, stalled = {}, Tick, NEW x \in Ends, NEW t \in Int
  PROVE  /\ buf[x] = << >> /\ Soon(wire[x], buf[x], t) => Soon(wire'[x], buf'[x], t - 1) /\ t > 1
         /\ buf[x] # << >> => Soon(wire'[x], buf'[x], t)
         /\ wire[x] # << >> /\ All(wire[x], t) => All(wire'[x], t - 1) /\ t > 1
  <1>1. wire[x] \in Seq(Frame) /\ (wire[x] # << >> => wire[x][1].left # 0)
    BY EndTypes, TickWaits
  <1>2. wire'[x] = Aged(wire[x]) /\ buf' = buf
    BY TickNet DEF Types
  <1>3. /\ Soon(wire[x], << >>, t) => Soon(Aged(wire[x]), << >>, t - 1) /\ t > 1
        /\ wire[x] # << >> /\ All(wire[x], t) => All(Aged(wire[x]), t - 1) /\ t > 1
    BY <1>1, AgedInTime
  <1>4. buf[x] = << >> /\ Soon(wire[x], buf[x], t) => Soon(wire'[x], buf'[x], t - 1) /\ t > 1
    BY <1>2, <1>3
  <1>5. buf[x] # << >> => Soon(wire'[x], buf'[x], t)
    BY <1>2 DEF Soon
  <1>6. QED
    BY <1>2, <1>3, <1>4, <1>5

\* What the clock does to the deadlines of an end.
LEMMA TickClocks ==
  ASSUME Types, Tick, NEW x \in Ends
  PROVE  /\ pos[x] \in {3, 4} /\ hello[x] # 0 => hello'[x] = hello[x] - 1
         /\ wleft[x] # 0 => wleft'[x] = wleft[x] - 1
         /\ rleft[x] # 0 => rleft'[x] = rleft[x] - 1
         /\ timer[x] # 0 => timer'[x] = timer[x] - 1
         /\ UNCHANGED <<pos, snd, rcv, buf, closed>>
  BY DEF Tick, Down

\* A full socket has something for its reader.
LEMMA FullSocket ==
  ASSUME Types, NEW x \in Ends, ~Room(x)
  PROVE  wire[Other(x)] # << >> \/ buf[Other(x)] # << >>
  <1>1. Other(x) \in Ends
    BY OtherEnd
  <1>2. ~(Load(Other(x)) < WireCap) /\ WireCap \in Nat \ {0} /\ Load(Other(x)) \in Nat
    BY <1>1, Timeouts, LoadNat DEF Room, Load
  <1>3. Load(Other(x)) # 0
    BY <1>2
  <1>4. QED
    BY <1>1, <1>3, LoadEmpty

\* The hello exchange still has time.
LEMMA TickHello ==
  ASSUME Types, Shape, InTime, ~cut, stalled = {}, Tick
  PROVE  HelloInTime'
  <1>0. "dialer" \in Ends /\ "acceptor" \in Ends /\ Other("dialer") = "acceptor" /\ Other("acceptor") = "dialer"
    BY DEF Ends, Other
  <1>1. AllUp /\ HelloInTime
    BY DEF InTime
  <1>2. UNCHANGED pos /\ pos["dialer"] \in 0 .. 5 /\ pos["acceptor"] \in 0 .. 5
    BY <1>0, EndTypes, TickClocks
  <1>3. Load("dialer") \in Nat /\ Load("acceptor") \in Nat /\ WireCap \in Nat \ {0} /\ Delay \in Nat
        /\ hello["dialer"] \in Nat /\ hello["acceptor"] \in Nat
    BY <1>0, LoadNat, Timeouts, EndTypes
  <1>4. ~(pos["dialer"] = 3 /\ pos["acceptor"] = 3)
    <2> SUFFICES ASSUME pos["dialer"] = 3, pos["acceptor"] = 3
                 PROVE  FALSE
      OBVIOUS
    <2>1. Load("acceptor") = 0
      BY DEF Shape, At
    <2>2. Load("acceptor") < WireCap
      BY <1>3, <2>1
    <2>3. Room("dialer")
      BY <1>0, <2>2 DEF Room, Load
    <2>4. QED
      BY <1>0, <1>1, <2>3, TickWaits DEF Writer
  <1>5. pos["acceptor"] # 4
    <2> SUFFICES ASSUME pos["acceptor"] = 4
                 PROVE  FALSE
      OBVIOUS
    <2>1. Load("dialer") = 0
      BY DEF Shape, At
    <2>2. Load("dialer") < WireCap
      BY <1>3, <2>1
    <2>3. Room("acceptor")
      BY <1>0, <2>2 DEF Room, Load
    <2>4. QED
      BY <1>0, <1>1, <2>3, TickWaits DEF Writer
  <1>6. CASE pos["dialer"] \in {3, 4} /\ pos["acceptor"] < 5
    <2>1. pos["acceptor"] \in {2, 3} /\ Load("acceptor") # 0
      BY <1>4, <1>5, <1>6 DEF Shape, At
    <2>2. buf["acceptor"] = << >>
      BY <1>0, <1>1, <2>1, TickWaits DEF Writer
    <2>3. wire["acceptor"] # << >>
      BY <1>0, <2>1, <2>2, LoadEmpty
    <2>4. CASE pos["dialer"] = 3
      <3>1. pos["acceptor"] # 3
        BY <1>4, <2>4
      <3>2. All(wire["acceptor"], hello["dialer"] - 2 * Delay) /\ hello["dialer"] - 2 * Delay \in Int
        BY <1>1, <1>3, <2>4 DEF HelloInTime
      <3>3. All(wire'["acceptor"], hello["dialer"] - 2 * Delay - 1) /\ hello["dialer"] - 2 * Delay > 1
        BY <1>0, <1>1, <2>3, <3>2, TickSoon
      <3>4. hello["dialer"] # 0
        BY <1>3, <3>3
      <3>5. hello'["dialer"] = hello["dialer"] - 1
        BY <1>0, <2>4, <3>4, TickClocks
      <3>6. hello'["dialer"] - 2 * Delay = hello["dialer"] - 2 * Delay - 1 /\ hello'["dialer"] > 2 * Delay
        BY <1>3, <3>3, <3>5
      <3>7. QED
        BY <1>2, <1>5, <2>4, <3>1, <3>3, <3>6 DEF HelloInTime
    <2>5. CASE pos["dialer"] = 4
      <3>1. All(wire["acceptor"], hello["dialer"] - Delay) /\ hello["dialer"] - Delay \in Int
        BY <1>1, <1>3, <1>6, <2>5 DEF HelloInTime
      <3>2. All(wire'["acceptor"], hello["dialer"] - Delay - 1) /\ hello["dialer"] - Delay > 1
        BY <1>0, <1>1, <2>3, <3>1, TickSoon
      <3>3. hello["dialer"] # 0
        BY <1>3, <3>2
      <3>4. hello'["dialer"] = hello["dialer"] - 1
        BY <1>0, <2>5, <3>3, TickClocks
      <3>5. hello'["dialer"] - Delay = hello["dialer"] - Delay - 1 /\ hello'["dialer"] > Delay
        BY <1>3, <3>2, <3>4
      <3>6. All(wire'["acceptor"], hello'["dialer"] - Delay)
        BY <3>2, <3>5
      <3>7. ASSUME pos["acceptor"] = 3
            PROVE  All(wire'["acceptor"], hello'["acceptor"]) /\ hello'["acceptor"] > 0
        <4>1. All(wire["acceptor"], hello["acceptor"]) /\ hello["acceptor"] \in Int
          BY <1>1, <1>3, <3>7 DEF HelloInTime
        <4>2. All(wire'["acceptor"], hello["acceptor"] - 1) /\ hello["acceptor"] > 1
          BY <1>0, <1>1, <2>3, <4>1, TickSoon
        <4>3. hello["acceptor"] # 0
          BY <1>3, <4>2
        <4>4. hello'["acceptor"] = hello["acceptor"] - 1
          BY <1>0, <3>7, <4>3, TickClocks
        <4>5. QED
          BY <1>3, <4>2, <4>4
      <3>8. QED
        BY <1>2, <1>5, <1>6, <2>5, <3>5, <3>6, <3>7 DEF HelloInTime
    <2>6. QED
      BY <1>6, <2>4, <2>5
  <1>7. CASE pos["dialer"] = 4 /\ pos["acceptor"] = 5
    <2>1. buf["dialer"] = << >>
      BY <1>0, <1>1, <1>7, TickWaits DEF Writer
    <2>2. Soon(wire["dialer"], buf["dialer"], hello["dialer"]) /\ hello["dialer"] \in Int
      BY <1>1, <1>3, <1>7 DEF HelloInTime
    <2>3. Soon(wire'["dialer"], buf'["dialer"], hello["dialer"] - 1) /\ hello["dialer"] > 1
      BY <1>0, <1>1, <2>1, <2>2, TickSoon
    <2>4. hello["dialer"] # 0
      BY <1>3, <2>3
    <2>5. hello'["dialer"] = hello["dialer"] - 1
      BY <1>0, <1>7, <2>4, TickClocks
    <2>6. hello'["dialer"] > 0
      BY <1>3, <2>3, <2>5
    <2>7. QED
      BY <1>2, <1>7, <2>3, <2>5, <2>6 DEF HelloInTime
  <1>8. CASE pos["dialer"] \notin {3, 4}
    <2>1. pos["acceptor"] # 3
      BY <1>8 DEF Shape, At
    <2>2. QED
      BY <1>2, <1>5, <1>8, <2>1 DEF HelloInTime
  <1>9. pos["dialer"] = 3 => pos["acceptor"] < 5
    BY DEF Shape, At
  <1>10. QED
    BY <1>2, <1>6, <1>7, <1>8, <1>9

\* The receive loop still has time.
LEMMA TickRead ==
  ASSUME Types, Loops, Shape, Timely, InTime, ~cut, stalled = {}, Tick, NEW e \in Ends
  PROVE  ReadInTime(e, Other(e))'
  <1> DEFINE o == Other(e)
  <1>0. o \in Ends /\ o # e /\ Other(o) = e /\ AllUp
    BY OtherEnd DEF InTime
  <1>1. ReadInTime(e, o)
    BY DEF InTime
  <1> SUFFICES ASSUME rcv'[e] = "read"
               PROVE  ReadInTime(e, o)'
    BY DEF ReadInTime
  <1>2. UNCHANGED <<pos, snd, rcv, buf>> /\ rcv[e] = "read"
    BY TickClocks
  <1>3. rleft[e] \in Nat /\ timer[o] \in Nat /\ Delay \in Nat /\ Keepalive \in Nat /\ rleft[e] # 0
        /\ wire[e] \in Seq(Frame)
    BY <1>0, <1>1, <1>2, EndTypes, Timeouts DEF ReadInTime
  <1>4. rleft'[e] = rleft[e] - 1 /\ buf[e] = << >>
    BY <1>0, <1>2, <1>3, TickClocks, TickWaits
  <1>5. ASSUME Soon(wire[e], buf[e], rleft[e])
        PROVE  ReadInTime(e, o)'
    <2>1. Soon(wire'[e], buf'[e], rleft[e] - 1) /\ rleft[e] > 1
      BY <1>0, <1>3, <1>4, <1>5, TickSoon
    <2>2. rleft'[e] > 0
      BY <1>3, <1>4, <2>1
    <2>3. QED
      BY <1>4, <2>1, <2>2 DEF ReadInTime
  <1>6. CASE snd[o] = "select" /\ rleft[e] > timer[o] + Delay
    <2>1. timer[o] # 0
      BY <1>0, <1>6, TickWaits
    <2>2. timer'[o] = timer[o] - 1
      BY <1>0, <2>1, TickClocks
    <2>3. rleft'[e] > timer'[o] + Delay /\ rleft'[e] > 0
      BY <1>3, <1>4, <1>6, <2>1, <2>2
    <2>4. QED
      BY <1>2, <1>6, <2>3 DEF ReadInTime
  <1>7. CASE snd[o] \in {"data", "keepalive"} /\ rleft[e] > Delay
    <2>1. ~Room(o)
      BY <1>0, <1>7, TickWaits
    <2>2. wire[e] # << >> \/ buf[e] # << >>
      BY <1>0, <2>1, FullSocket
    <2>3. Soon(wire[e], buf[e], rleft[e])
      BY <1>3, <1>7, <2>2, SoonEnough
    <2>4. QED
      BY <1>5, <2>3
  <1>8. CASE /\ pos[o] = 4 /\ rleft[e] > Keepalive + Delay
             /\ Soon(wire[o], buf[o], rleft[e] - Keepalive - Delay)
    <2>1. pos[e] = 5
      BY <1>2 DEF Loops
    <2>2. o = "dialer"
      BY <1>8, <2>1 DEF Shape, At, Ends, Other
    <2>3. buf[o] = << >>
      BY <1>0, <1>8, <2>2, TickWaits DEF Writer
    <2>4. rleft[e] - Keepalive - Delay \in Int
      BY <1>3
    <2>5. Soon(wire'[o], buf'[o], rleft[e] - Keepalive - Delay - 1) /\ rleft[e] - Keepalive - Delay > 1
      BY <1>0, <1>8, <2>3, <2>4, TickSoon
    <2>6. /\ rleft'[e] - Keepalive - Delay = rleft[e] - Keepalive - Delay - 1
          /\ rleft'[e] > Keepalive + Delay /\ rleft'[e] > 0
      BY <1>3, <1>4, <2>5
    <2>7. QED
      BY <1>2, <1>8, <2>5, <2>6 DEF ReadInTime
  <1>9. QED
    BY <1>1, <1>2, <1>5, <1>6, <1>7, <1>8 DEF ReadInTime

\* A write still has time.
LEMMA TickWrite ==
  ASSUME Types, Loops, Shape, InTime, ~cut, stalled = {}, Tick, NEW e \in Ends
  PROVE  WriteInTime(e, Other(e))'
  <1> DEFINE o == Other(e)
  <1>0. o \in Ends /\ o # e /\ AllUp
    BY OtherEnd DEF InTime
  <1>1. WriteInTime(e, o)
    BY DEF InTime
  <1> SUFFICES ASSUME snd'[e] \in {"data", "keepalive"}
               PROVE  WriteInTime(e, o)'
    BY DEF WriteInTime
  <1>2. UNCHANGED <<pos, snd, rcv, buf>> /\ snd[e] \in {"data", "keepalive"}
    BY TickClocks
  <1>3. ~Room(e)
    BY <1>0, <1>2, TickWaits
  <1>4. Soon(wire[o], buf[o], wleft[e]) /\ (rcv[o] = "handle" => wleft[e] > rleft[o]) /\ wleft[e] > 0
    BY <1>1, <1>2, <1>3 DEF WriteInTime
  <1>5. wleft[e] \in Nat /\ rleft[o] \in Nat /\ wleft[e] # 0
    BY <1>0, <1>4, EndTypes
  <1>6. wleft'[e] = wleft[e] - 1
    BY <1>5, TickClocks
  <1>7. buf[o] = << >> => Soon(wire'[o], buf'[o], wleft[e] - 1) /\ wleft[e] > 1
    BY <1>0, <1>4, <1>5, TickSoon
  <1>8. CASE rcv[o] = "handle"
    <2>1. rleft[o] # 0
      BY <1>0, <1>8, TickWaits
    <2>2. rleft'[o] = rleft[o] - 1
      BY <1>0, <2>1, TickClocks
    <2>3. wleft'[e] > rleft'[o] /\ wleft'[e] > 0
      BY <1>4, <1>5, <1>6, <1>8, <2>1, <2>2
    <2>4. wleft[e] - 1 \in Int
      BY <1>5
    <2>5. buf[o] # << >> => Soon(wire'[o], buf'[o], wleft[e] - 1)
      BY <1>0, <2>4, TickSoon
    <2>6. Soon(wire'[o], buf'[o], wleft'[e])
      BY <1>6, <1>7, <2>5
    <2>7. QED
      BY <2>3, <2>6 DEF WriteInTime
  <1>9. CASE rcv[o] # "handle"
    <2>1. buf[o] = << >>
      <3>1. CASE rcv[o] = "read"
        BY <1>0, <3>1, TickWaits
      <3>2. CASE rcv[o] = "off"
        <4>1. pos[e] = 5 /\ pos[o] # 5
          BY <1>0, <1>2, <3>2 DEF Loops
        <4>2. o = "dialer" /\ pos[o] = 4
          BY <1>0, <4>1 DEF Shape, At, Ends, Other
        <4>3. QED
          BY <1>0, <4>2, TickWaits DEF Writer
      <3>3. QED
        BY <1>0, <1>9, <3>1, <3>2 DEF AllUp, Types, Flags
    <2>2. wleft'[e] > 0
      BY <1>5, <1>6, <1>7, <2>1
    <2>3. rcv'[o] # "handle"
      BY <1>2, <1>9
    <2>4. QED
      BY <1>6, <1>7, <2>1, <2>2, <2>3 DEF WriteInTime
  <1>10. QED
    BY <1>8, <1>9

\* The clock moves.
LEMMA HealthyTick ==
  ASSUME Types, Loops, Shape, Timely, InTime, Healthy, Tick
  PROVE  InTime'
  <1>1. ~cut /\ stalled = {}
    BY DEF Healthy
  <1>2. AllUp'
    BY DEF InTime, AllUp, Tick
  <1>3. HelloInTime'
    BY <1>1, TickHello
  <1>4. ASSUME NEW e \in Ends
        PROVE  ReadInTime(e, Other(e))' /\ WriteInTime(e, Other(e))'
    BY <1>1, TickRead, TickWrite
  <1>5. QED
    BY <1>2, <1>3, <1>4 DEF InTime

\* No loop ends and no deadline passes.
LEMMA HealthyGoesOn ==
  ASSUME Types, Shape, InTime, Healthy, NEW e \in Ends
  PROVE  ~OpeningFails(e) /\ ~SendLoopEnds(e) /\ ~RecvLoopEnds(e) /\ ~RunCloses(e)
  <1>0. Other(e) \in Ends /\ "dialer" \in Ends /\ "acceptor" \in Ends
    BY OtherEnd DEF Ends
  <1>1. AllUp /\ HelloInTime /\ ReadInTime(e, Other(e)) /\ WriteInTime(e, Other(e))
    BY EachEnd
  <1>2. ~closed[e] /\ snd[e] # "done" /\ rcv[e] # "done" /\ ~Reset(e)
    BY <1>0, <1>1 DEF AllUp, Reset
  <1>3. ~RunCloses(e)
    BY <1>2 DEF RunCloses, OneEnded
  <1>4. rcv[e] = "read" => rleft[e] # 0
    BY <1>1, EndTypes DEF ReadInTime
  <1>5. snd[e] \in {"data", "keepalive"} => wleft[e] # 0
    BY <1>1, EndTypes DEF WriteInTime
  <1>6. pos[e] < 5 /\ pos[e] >= 3 => hello[e] # 0
    <2>1. hello["dialer"] \in Nat /\ hello["acceptor"] \in Nat /\ Delay \in Nat /\ pos[e] \in 0 .. 5
      BY <1>0, EndTypes, Timeouts
    <2>2. pos["dialer"] = 3 => hello["dialer"] # 0
      BY <1>1, <2>1 DEF HelloInTime
    <2>3. pos["dialer"] = 4 => hello["dialer"] # 0
      <3>1. pos["acceptor"] \in 0 .. 5
        BY <1>0, EndTypes
      <3>2. QED
        BY <1>1, <2>1, <3>1 DEF HelloInTime
    <2>4. pos["acceptor"] = 3 \/ pos["acceptor"] = 4 => hello["acceptor"] # 0
      BY <1>1, <2>1 DEF HelloInTime
    <2>5. pos[e] < 5 /\ pos[e] >= 3 => pos[e] = 3 \/ pos[e] = 4
      BY <2>1
    <2>6. QED
      BY <2>2, <2>3, <2>4, <2>5 DEF Ends
  <1>7. QED
    BY <1>2, <1>3, <1>4, <1>5, <1>6 DEF OpeningFails, SendLoopEnds, RecvLoopEnds

\* A connection stays in time for as long as it is healthy.
LEMMA NextInTime ==
  ASSUME Timely, Types, LoadBound, Loops, Shape, InTime, Healthy, Loops', [Next]_vars, Healthy'
  PROVE  InTime'
  <1>0. ~cut
    BY DEF Healthy
  <1>1. ASSUME NEW e \in Ends, Step(e)
        PROVE  InTime'
    <2>1. CASE Deliver(e)
      BY <2>1, HealthyDeliver
    <2>2. CASE WriteOpening(e)
      BY <1>0, <2>2, HealthyWriteOpening
    <2>3. CASE ReadOpening(e)
      BY <1>0, <2>3, HealthyReadOpening
    <2>4. CASE TakeMessage(e) \/ WriteKeepalive(e)
      BY <2>4, HealthyStart
    <2>5. CASE Written(e)
      BY <2>5, HealthyWritten
    <2>6. CASE Read(e)
      BY <2>6, HealthyRead
    <2>7. CASE Handled(e)
      BY <2>7, HealthyHandled
    <2>8. QED
      BY <1>1, <2>1, <2>2, <2>3, <2>4, <2>5, <2>6, <2>7, HealthyGoesOn DEF Step
  <1>2. ASSUME NEW e \in Ends, SendRaw(e)
        PROVE  InTime'
    BY <1>2, HealthyQueue
  <1>3. ASSUME NEW e \in Ends
        PROVE  ~Stop(e) /\ ~Stall(e)
    BY DEF Stop, Stall, Healthy
  <1>4. ~Cut
    BY DEF Cut, Healthy
  <1>5. CASE Tick
    BY <1>5, HealthyTick
  <1>6. CASE UNCHANGED vars
    BY <1>6 DEF vars, opening, loops, net, InTime, AllUp, HelloInTime, ReadInTime, WriteInTime, Room
  <1>7. QED
    BY <1>1, <1>2, <1>3, <1>4, <1>5, <1>6 DEF Next

\* What has failed stays failed.
LEMMA HealthyBefore ==
  ASSUME Types, [Next]_vars, Healthy'
  PROVE  Healthy
  <1>1. ASSUME NEW e \in Ends, Step(e) \/ SendRaw(e)
        PROVE  UNCHANGED faults
    BY <1>1 DEF Step, SendRaw, Deliver, WriteOpening, ReadOpening, Advance, OpeningFails, TakeMessage,
                WriteKeepalive, StartWrite, Written, SendLoopEnds, Read, Handled, RecvLoopEnds, RunCloses
  <1>2. ASSUME NEW e \in Ends, Stop(e) \/ Stall(e)
        PROVE  Healthy
    BY <1>2 DEF Stop, Stall, Healthy
  <1>3. CASE Cut
    BY <1>3 DEF Cut, Healthy
  <1>4. CASE Tick
    BY <1>4 DEF Tick, Healthy
  <1>5. CASE UNCHANGED vars
    BY <1>5 DEF vars, faults, Healthy
  <1>6. QED
    BY <1>1, <1>2, <1>3, <1>4, <1>5 DEF Next, faults, Healthy

\* As long as the network is not cut, no node stops and no handler hangs,
\* neither end of the connection closes it and no loop of Run ends, whatever is
\* sent, for all timeouts that leave time for the network and the handlers.
THEOREM HealthyStaysUpHolds == ASSUME Timely PROVE Spec => []HealthyStaysUp
  <1>1. Init => HealthyInv
    <2>1. Init => InTime
      BY DEF Init, InTime, AllUp, HelloInTime, ReadInTime, WriteInTime, Ends
    <2>2. QED
      BY <2>1, InitTypes DEF HealthyInv
  <1>2. HealthyInv /\ [Next]_vars => HealthyInv'
    <2> SUFFICES ASSUME HealthyInv, [Next]_vars
                 PROVE  HealthyInv'
      OBVIOUS
    <2>1. Types' /\ LoadBound' /\ Loops' /\ Shape'
      BY NextTypes, NextLoadBound, NextLoops, NextShape DEF HealthyInv
    <2>2. Healthy' => InTime'
      BY <2>1, HealthyBefore, NextInTime DEF HealthyInv
    <2>3. QED
      BY <2>1, <2>2 DEF HealthyInv
  <1>3. HealthyInv => HealthyStaysUp
    BY DEF HealthyInv, Healthy, InTime, AllUp, HealthyStaysUp
  <1>4. QED
    BY <1>1, <1>2, <1>3, PTL DEF Spec
=============================================================================
