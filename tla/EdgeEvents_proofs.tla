--------------------------- MODULE EdgeEvents_proofs ---------------------------
(* The edge channel keeps its promise for every number of connections, of events and
   any limit of the queues. *)
EXTENDS EdgeEvents, FiniteSetTheorems, SequenceTheorems, TLAPS

Settled == handled \cup doubtful

Frames(s) == {s[k] : k \in DOMAIN s}

\* Every number below an element of s is in A or stands before the element.
Backed(s, A) ==
    \A k \in DOMAIN s : \A d \in 1..(s[k] - 1) :
        d \in A \/ \E j \in DOMAIN s : j < k /\ s[j] = d

\* Only events that exist are under way.
Numbered ==
    \A c \in Conns :
        /\ \A k \in DOMAIN up[c] : up[c][k] <= emitted
        /\ \A k \in DOMAIN down[c] : down[c][k] <= emitted
        /\ \A k \in DOMAIN queue[c] : queue[c][k] <= emitted
        /\ acked[c] <= emitted

\* What is acknowledged is settled, with everything below it.
AcksSettled ==
    \A c \in Conns :
        /\ 1..acked[c] \subseteq Settled
        /\ \A k \in DOMAIN down[c] : 1..down[c][k] \subseteq Settled

\* No event overtakes one that is not settled: neither in a queue nor on its way.
QueueBacked  == \A c \in Conns : Backed(queue[c], Settled)
FramesBacked == \A c \in Conns : Backed(up[c], Settled \cup Frames(queue[c]))

\* Once the gateway has had the state, its connection carries all that is not settled.
GatewayBacked ==
    gw # 0 /\ informed => 1..emitted \subseteq Settled \cup Frames(queue[gw]) \cup Frames(up[gw])

\* The gateway keeps what is not settled.
KeptOrSettled == 1..emitted \subseteq unacked \cup Settled

IInv ==
    /\ TypeOK /\ Numbered /\ QueueAscends
    /\ AcksSettled /\ QueueBacked /\ FramesBacked /\ GatewayBacked /\ KeptOrSettled

-----------------------------------------------------------------------------
(* Sequences of numbers *)

\* What is left after the head, element by element.
LEMMA TailOf ==
    ASSUME NEW S, NEW s \in Seq(S), s # <<>>
    PROVE  /\ Len(s) \in Nat \ {0} /\ DOMAIN s = 1..Len(s)
           /\ Head(s) = s[1] /\ Head(s) \in S
           /\ Tail(s) \in Seq(S) /\ DOMAIN Tail(s) = 1..(Len(s) - 1)
           /\ \A k \in 1..(Len(s) - 1) : Tail(s)[k] = s[k + 1]
<1>1. Len(s) \in Nat \ {0} /\ DOMAIN s = 1..Len(s)
  BY EmptySeq, LenProperties
<1>2. /\ Head(s) \in S /\ Tail(s) \in Seq(S) /\ Len(Tail(s)) = Len(s) - 1
      /\ \A i \in 1..Len(Tail(s)) : Tail(s)[i] = s[i + 1]
  BY HeadTailProperties
<1>3. DOMAIN Tail(s) = 1..(Len(s) - 1)
  BY <1>2, LenProperties
<1>4. Head(s) = s[1]
  OBVIOUS
<1> QED BY <1>1, <1>2, <1>3, <1>4

\* An appended element comes last.
LEMMA AppendOf ==
    ASSUME NEW S, NEW s \in Seq(S), NEW e \in S
    PROVE  /\ Append(s, e) \in Seq(S) /\ Append(s, e) # <<>>
           /\ Len(s) \in Nat /\ DOMAIN s = 1..Len(s) /\ DOMAIN Append(s, e) = 1..(Len(s) + 1)
           /\ \A k \in 1..Len(s) : Append(s, e)[k] = s[k]
           /\ Append(s, e)[Len(s) + 1] = e
  OBVIOUS

\* A longer list of excuses.
LEMMA BackedMore ==
    ASSUME NEW s, NEW A, NEW B, A \subseteq B, Backed(s, A)
    PROVE  Backed(s, B)
  BY DEF Backed

\* Nothing stands before nothing.
LEMMA BackedEmpty == \A A : Backed(<<>>, A) /\ Frames(<<>>) = {}
  BY DEF Backed, Frames

\* The head may go when it is excused from then on, or is no number of an event.
LEMMA BackedTail ==
    ASSUME NEW s \in Seq(Nat), s # <<>>, NEW A, NEW B, A \subseteq B, Backed(s, A),
           Head(s) = 0 \/ Head(s) \in B
    PROVE  Backed(Tail(s), B)
<1> SUFFICES ASSUME NEW k \in DOMAIN Tail(s), NEW d \in 1..(Tail(s)[k] - 1), d \notin B
             PROVE  \E j \in DOMAIN Tail(s) : j < k /\ Tail(s)[j] = d
  BY DEF Backed
<1>1. /\ Len(s) \in Nat \ {0} /\ DOMAIN s = 1..Len(s) /\ Head(s) = s[1]
      /\ DOMAIN Tail(s) = 1..(Len(s) - 1)
      /\ \A i \in 1..(Len(s) - 1) : Tail(s)[i] = s[i + 1]
  BY TailOf
<1>2. k \in Nat /\ k + 1 \in DOMAIN s /\ Tail(s)[k] = s[k + 1]
  BY <1>1
<1>3. PICK j \in DOMAIN s : j < k + 1 /\ s[j] = d
  BY <1>2 DEF Backed
<1>4. j # 1
  BY <1>1, <1>3
<1>5. j - 1 \in DOMAIN Tail(s) /\ j - 1 < k /\ Tail(s)[j - 1] = s[j]
  BY <1>1, <1>2, <1>3, <1>4
<1> QED BY <1>3, <1>5

\* An element may come when all below it are excused or stand already.
LEMMA BackedAppend ==
    ASSUME NEW s \in Seq(Nat), NEW A, Backed(s, A), NEW e \in Nat, 1..(e - 1) \subseteq A \cup Frames(s)
    PROVE  Backed(Append(s, e), A) /\ Frames(Append(s, e)) = Frames(s) \cup {e}
<1> DEFINE t == Append(s, e)
<1>1. /\ Len(s) \in Nat /\ DOMAIN s = 1..Len(s) /\ DOMAIN t = 1..(Len(s) + 1)
      /\ \A i \in 1..Len(s) : t[i] = s[i]
      /\ t[Len(s) + 1] = e
  BY AppendOf
<1> HIDE DEF t
<1>2. ASSUME NEW k \in DOMAIN t, NEW d \in 1..(t[k] - 1), d \notin A
      PROVE  \E j \in DOMAIN t : j < k /\ t[j] = d
  <2>1. CASE k \in 1..Len(s)
    <3>1. PICK j \in DOMAIN s : j < k /\ s[j] = d
      BY <1>1, <1>2, <2>1 DEF Backed
    <3> QED BY <1>1, <3>1
  <2>2. CASE k = Len(s) + 1
    <3>1. PICK j \in DOMAIN s : s[j] = d
      BY <1>1, <1>2, <2>2 DEF Frames
    <3> QED BY <1>1, <2>2, <3>1
  <2> QED BY <1>1, <2>1, <2>2
<1>3. Frames(t) = Frames(s) \cup {e}
  BY <1>1 DEF Frames
<1> QED BY <1>2, <1>3 DEF Backed, t

\* The head of a sequence and what follows it are all its elements.
LEMMA FramesTail ==
    ASSUME NEW S, NEW s \in Seq(S), s # <<>>
    PROVE  Frames(s) = {Head(s)} \cup Frames(Tail(s))
<1>1. /\ Len(s) \in Nat \ {0} /\ DOMAIN s = 1..Len(s) /\ Head(s) = s[1]
      /\ DOMAIN Tail(s) = 1..(Len(s) - 1)
      /\ \A i \in 1..(Len(s) - 1) : Tail(s)[i] = s[i + 1]
  BY TailOf
<1> DEFINE t == Tail(s)
           h == Head(s)
<1>2. \A k \in DOMAIN s : k = 1 \/ (k - 1 \in DOMAIN t /\ t[k - 1] = s[k])
  BY <1>1
<1>3. \A k \in DOMAIN t : k + 1 \in DOMAIN s /\ t[k] = s[k + 1]
  BY <1>1
<1>4. 1 \in DOMAIN s /\ h = s[1]
  BY <1>1
<1> HIDE DEF t, h
<1>5. Frames(s) \subseteq {h} \cup Frames(t)
  BY <1>2, <1>4 DEF Frames
<1>6. {h} \cup Frames(t) \subseteq Frames(s)
  BY <1>3, <1>4 DEF Frames
<1> QED BY <1>5, <1>6 DEF t, h

\* The last of a queue and everything below it are in the queue or excused.
LEMMA BackedLast ==
    ASSUME NEW s \in Seq(Nat), s # <<>>, NEW A, Backed(s, A), NEW e \in Nat \ {0}, e <= s[Len(s)]
    PROVE  e \in A \cup Frames(s)
<1>1. Len(s) \in DOMAIN s /\ s[Len(s)] \in Nat
  BY TailOf, ElementOfSeq
<1>2. CASE e = s[Len(s)]
  BY <1>1, <1>2 DEF Frames
<1>3. CASE e < s[Len(s)]
  BY <1>1, <1>3 DEF Frames, Backed
<1> QED BY <1>1, <1>2, <1>3

\* Everything the gateway keeps, sent again in its order.
LEMMA Resent ==
    ASSUME NEW s \in Seq(Nat), NEW t \in Seq(Nat), NEW A, Backed(s, A),
           \A i, j \in DOMAIN t : i < j => t[i] < t[j],
           \A k \in DOMAIN t : 1..(t[k] - 1) \subseteq A \cup Frames(t)
    PROVE  s \o t \in Seq(Nat) /\ Backed(s \o t, A) /\ Frames(s \o t) = Frames(s) \cup Frames(t)
<1> DEFINE u == s \o t
           n == Len(s)
           m == Len(t)
<1>1. /\ n \in Nat /\ m \in Nat /\ DOMAIN s = 1..n /\ DOMAIN t = 1..m
      /\ u \in Seq(Nat) /\ DOMAIN u = 1..(n + m)
      /\ \A i \in 1..n : u[i] = s[i]
      /\ \A i \in 1..m : u[n + i] = t[i]
  BY LenProperties, ConcatProperties
<1>2. \A i \in 1..m : t[i] \in Nat
  BY ElementOfSeq
<1> HIDE DEF u, n, m
<1>3. ASSUME NEW k \in DOMAIN u, NEW d \in 1..(u[k] - 1), d \notin A
      PROVE  \E j \in DOMAIN u : j < k /\ u[j] = d
  <2>1. CASE k \in 1..n
    <3>1. PICK j \in DOMAIN s : j < k /\ s[j] = d
      BY <1>1, <1>3, <2>1 DEF Backed
    <3> QED BY <1>1, <3>1
  <2>2. CASE k > n
    <3>1. k - n \in 1..m /\ u[k] = t[k - n]
      BY <1>1, <2>2
    <3>2. n \in Nat /\ m \in Nat /\ DOMAIN t = 1..m /\ DOMAIN u = 1..(n + m) /\ k \in Nat
      BY <1>1
    <3> DEFINE e == k - n
    <3>4. e \in 1..m /\ k = n + e
      BY <3>1, <3>2
    <3>5. t[e] \in Nat /\ d \in 1..(t[e] - 1)
      BY <1>2, <1>3, <3>1
    <3>6. e \in DOMAIN t /\ u[k] = t[e]
      BY <3>1, <3>2
    <3> HIDE DEF e
    <3>7. d \in Frames(t)
      BY <1>3, <3>5, <3>6
    <3>8. PICK j \in DOMAIN t : t[j] = d
      BY <3>7 DEF Frames
    <3>9. j \in 1..m
      BY <3>2
    <3>10. t[j] < t[e]
      BY <3>5, <3>8
    <3>11. e < j => t[e] < t[j]
      BY <3>6
    <3>12. j < e
      <4>1. ~(t[e] < t[j]) /\ j # e
        BY <3>5, <3>8, <3>10
      <4> QED BY <3>4, <3>9, <3>11, <4>1
    <3>13. n + j \in 1..(n + m) /\ n + j < k
      BY <3>2, <3>4, <3>9, <3>12
    <3>14. u[n + j] = t[j]
      BY <1>1, <3>9
    <3> QED BY <3>2, <3>8, <3>13, <3>14
  <2> QED BY <1>1, <2>1, <2>2
<1>4. Frames(u) = Frames(s) \cup Frames(t)
  <2>1. ASSUME NEW k \in DOMAIN u PROVE u[k] \in Frames(s) \cup Frames(t)
    <3>1. CASE k \in 1..n
      BY <1>1, <3>1 DEF Frames
    <3>2. CASE k > n
      <4>1. k - n \in 1..m /\ u[k] = t[k - n]
        BY <1>1, <3>2
      <4> QED BY <1>1, <4>1 DEF Frames
    <3> QED BY <1>1, <3>1, <3>2
  <2>2. ASSUME NEW k \in DOMAIN s PROVE s[k] \in Frames(u)
    <3>1. k \in DOMAIN u /\ u[k] = s[k]
      BY <1>1, <2>2
    <3> QED BY <3>1 DEF Frames
  <2>3. ASSUME NEW k \in DOMAIN t PROVE t[k] \in Frames(u)
    <3>1. n + k \in DOMAIN u /\ u[n + k] = t[k]
      BY <1>1, <2>3
    <3> QED BY <3>1 DEF Frames
  <2> QED BY <2>1, <2>2, <2>3 DEF Frames
<1> QED BY <1>1, <1>3, <1>4 DEF Backed, u

\* One frame more at the end.
LEMMA OneMore ==
    ASSUME NEW S, NEW s \in Seq(S), NEW e \in S
    PROVE  s \o <<e>> = Append(s, e)
  OBVIOUS

-----------------------------------------------------------------------------
(* Types *)

\* What the types say of one connection.
LEMMA SeqTypes ==
    ASSUME TypeOK, NEW c \in Conns
    PROVE  /\ up[c] \in Seq(0..MaxSeq) /\ down[c] \in Seq(0..MaxSeq) /\ queue[c] \in Seq(1..MaxSeq)
           /\ up[c] \in Seq(Nat) /\ down[c] \in Seq(Nat) /\ queue[c] \in Seq(Nat)
           /\ acked[c] \in 0..MaxSeq /\ acked[c] \in Nat /\ emitted \in 0..MaxSeq /\ MaxSeq \in Nat
           /\ gw \in Conns \cup {0} /\ Conns \subseteq Nat \ {0}
<1>1. MaxSeq \in Nat /\ MaxConns \in Nat
  BY EventsAssumption, ConnectionsAssumption
<1>2. up[c] \in Seq(0..MaxSeq) /\ down[c] \in Seq(0..MaxSeq) /\ queue[c] \in Seq(1..MaxSeq)
  BY DEF TypeOK, Events
<1>3. 0..MaxSeq \subseteq Nat /\ 1..MaxSeq \subseteq Nat
  BY <1>1
<1>4. up[c] \in Seq(Nat) /\ down[c] \in Seq(Nat) /\ queue[c] \in Seq(Nat)
  BY <1>2, <1>3, SeqMonotonic
<1>5. gw \in Conns \cup {0} /\ Conns \subseteq Nat \ {0}
  BY <1>1 DEF TypeOK, ConnectionsTypeOK, Conns
<1> QED BY <1>1, <1>2, <1>4, <1>5 DEF TypeOK

\* A frame to the gateway is sent or lost.
LEMMA AnswerOf ==
    ASSUME TypeOK, NEW c \in Conns, NEW n \in 0..MaxSeq
    PROVE  /\ Answer(c, <<n>>) \in [Conns -> Seq(0..MaxSeq)]
           /\ \A d \in Conns : \A k \in DOMAIN Answer(c, <<n>>)[d] :
                 \/ Answer(c, <<n>>)[d][k] = n
                 \/ k \in DOMAIN down[d] /\ Answer(c, <<n>>)[d][k] = down[d][k]
<1>1. down \in [Conns -> Seq(0..MaxSeq)]
  BY DEF TypeOK
<1>2. CASE Answer(c, <<n>>) = down
  BY <1>1, <1>2
<1>3. CASE Answer(c, <<n>>) = [down EXCEPT ![c] = @ \o <<n>>]
  <2>1. down[c] \o <<n>> = Append(down[c], n)
    BY <1>1, OneMore
  <2>2. /\ Append(down[c], n) \in Seq(0..MaxSeq)
        /\ Len(down[c]) \in Nat /\ DOMAIN down[c] = 1..Len(down[c])
        /\ DOMAIN Append(down[c], n) = 1..(Len(down[c]) + 1)
        /\ \A k \in 1..Len(down[c]) : Append(down[c], n)[k] = down[c][k]
        /\ Append(down[c], n)[Len(down[c]) + 1] = n
    BY <1>1, AppendOf
  <2>3. /\ Answer(c, <<n>>) \in [Conns -> Seq(0..MaxSeq)]
        /\ Answer(c, <<n>>)[c] = Append(down[c], n)
        /\ \A d \in Conns \ {c} : Answer(c, <<n>>)[d] = down[d]
    BY <1>1, <1>3, <2>1, <2>2
  <2>4. ASSUME NEW k \in DOMAIN Append(down[c], n)
        PROVE  \/ Append(down[c], n)[k] = n
               \/ k \in DOMAIN down[c] /\ Append(down[c], n)[k] = down[c][k]
    BY <2>2, <2>4
  <2> QED BY <2>3, <2>4
<1> QED BY <1>2, <1>3 DEF Answer

\* A step that takes the first frame of a connection leaves sequences of frames.
LEMMA ArrivesTypes ==
    ASSUME TypeOK, NEW c \in Conns, Arrives(c)
    PROVE  /\ up' \in [Conns -> Seq(0..MaxSeq)] /\ up'[c] = Tail(up[c])
           /\ \A d \in Conns \ {c} : up'[d] = up[d]
           /\ up[c] # <<>> /\ Head(up[c]) \in 0..MaxSeq
<1>1. up \in [Conns -> Seq(0..MaxSeq)] /\ up[c] # <<>> /\ up' = [up EXCEPT ![c] = Tail(@)]
  BY DEF TypeOK, Arrives
<1>2. Tail(up[c]) \in Seq(0..MaxSeq) /\ Head(up[c]) \in 0..MaxSeq
  BY <1>1, TailOf
<1> QED BY <1>1, <1>2

-----------------------------------------------------------------------------
(* The initial states, and steps that only lose frames *)

\* The initial states satisfy the invariant.
LEMMA InitInv == Init => IInv
<1> SUFFICES ASSUME Init PROVE IInv
  OBVIOUS
<1>1. /\ MaxSeq \in Nat /\ MaxConns \in Nat /\ effective \in BOOLEAN /\ informed = FALSE
      /\ emitted = 0 /\ unacked = {} /\ handled = {} /\ doubtful = {}
  BY EventsAssumption, ConnectionsAssumption DEF Init
<1>2. \A c \in Conns : up[c] = <<>> /\ down[c] = <<>> /\ queue[c] = <<>> /\ acked[c] = 0 /\ pump[c] = "idle"
  BY DEF Init
<1>3. ConnectionsTypeOK
  <2>1. ws = [c \in Conns |-> "none"] /\ ready = {} /\ current = 0 /\ gw = 0
    BY DEF Init, ConnectionsInit
  <2> QED BY <1>1, <2>1 DEF ConnectionsTypeOK
<1>4. /\ up \in [Conns -> Seq(0..MaxSeq)] /\ down \in [Conns -> Seq(0..MaxSeq)]
      /\ queue \in [Conns -> Seq(Events)] /\ acked \in [Conns -> 0..MaxSeq]
      /\ pump \in [Conns -> {"idle", "delivering", "waiting"}]
  BY <1>1, EmptySeq DEF Init
<1>5. TypeOK
  <2>1. emitted \in 0..MaxSeq /\ unacked \subseteq 1..emitted /\ handled \subseteq 1..emitted
    BY <1>1
  <2>2. informed \in BOOLEAN
    BY <1>1, Zenon
  <2>3. effective \in BOOLEAN
    BY <1>1, Zenon
  <2>4. \A c \in Conns : pump[c] # "idle" => queue[c] # <<>>
    BY <1>2
  <2> QED BY <1>3, <1>4, <2>1, <2>2, <2>3, <2>4, Zenon DEF TypeOK
<1>6. Numbered /\ QueueAscends
  BY <1>1, <1>2 DEF Numbered, QueueAscends
<1>7. AcksSettled /\ KeptOrSettled /\ GatewayBacked
  BY <1>1, <1>2 DEF AcksSettled, KeptOrSettled, GatewayBacked
<1>8. QueueBacked /\ FramesBacked
  BY <1>2, BackedEmpty DEF QueueBacked, FramesBacked
<1> QED BY <1>5, <1>6, <1>7, <1>8 DEF IInv

\* A connection that has sent nothing but its hello.
LEMMA HelloOnly == \A A : Backed(<< 0 >>, A)
  BY DEF Backed

\* A step that loses frames and queues, but none of a connection the gateway goes on
\* with, and settles events or none.
LEMMA Lost ==
    ASSUME IInv, TypeOK', UNCHANGED <<emitted, unacked>>,
           handled \subseteq handled', doubtful \subseteq doubtful',
           \A c \in Conns :
               /\ acked'[c] = acked[c]
               /\ down'[c] = down[c] \/ down'[c] = <<>>
               /\ \/ up'[c] = up[c] /\ queue'[c] = queue[c]
                  \/ (up'[c] = <<>> \/ up'[c] = << 0 >>) /\ (queue'[c] = queue[c] \/ queue'[c] = <<>>),
           gw' # 0 /\ informed' => /\ gw' = gw /\ informed
                                   /\ up'[gw] = up[gw] /\ queue'[gw] = queue[gw]
    PROVE  IInv'
<1>1. Settled \subseteq Settled'
  BY DEF Settled
<1>2. Numbered'
  <2>1. ASSUME NEW c \in Conns
        PROVE  /\ \A k \in DOMAIN up'[c] : up'[c][k] <= emitted
               /\ \A k \in DOMAIN down'[c] : down'[c][k] <= emitted
               /\ \A k \in DOMAIN queue'[c] : queue'[c][k] <= emitted
               /\ acked'[c] <= emitted
    <3>1. emitted \in Nat
      BY DEF IInv, TypeOK
    <3>2. \A k \in DOMAIN << 0 >> : << 0 >>[k] <= emitted
      BY <3>1
    <3>3. \A k \in DOMAIN <<>> : <<>>[k] <= emitted
      OBVIOUS
    <3>4. /\ \A k \in DOMAIN up[c] : up[c][k] <= emitted
          /\ \A k \in DOMAIN down[c] : down[c][k] <= emitted
          /\ \A k \in DOMAIN queue[c] : queue[c][k] <= emitted
          /\ acked[c] <= emitted
      BY DEF IInv, Numbered
    <3>5. up'[c] = up[c] \/ up'[c] = <<>> \/ up'[c] = << 0 >>
      BY Zenon
    <3>6. queue'[c] = queue[c] \/ queue'[c] = <<>>
      BY Zenon
    <3>10. down'[c] = down[c] \/ down'[c] = <<>>
      BY Zenon
    <3>7. \A k \in DOMAIN up'[c] : up'[c][k] <= emitted
      BY <3>2, <3>3, <3>4, <3>5, Zenon
    <3>8. \A k \in DOMAIN down'[c] : down'[c][k] <= emitted
      BY <3>3, <3>4, <3>10, Zenon
    <3>9. \A k \in DOMAIN queue'[c] : queue'[c][k] <= emitted
      BY <3>3, <3>4, <3>6, Zenon
    <3> QED BY <3>4, <3>7, <3>8, <3>9
  <2> QED BY <2>1 DEF Numbered
<1>3. QueueAscends'
  BY DEF IInv, QueueAscends
<1>4. AcksSettled'
  BY <1>1 DEF IInv, AcksSettled
<1>5. QueueBacked'
  <2>1. ASSUME NEW c \in Conns PROVE Backed(queue'[c], Settled')
    <3>1. Backed(queue[c], Settled')
      BY <1>1, BackedMore DEF IInv, QueueBacked
    <3> QED BY <3>1, BackedEmpty
  <2> QED BY <2>1 DEF QueueBacked
<1>6. FramesBacked'
  <2>1. ASSUME NEW c \in Conns PROVE Backed(up'[c], Settled' \cup Frames(queue'[c]))
    <3> DEFINE A == Settled \cup Frames(queue[c])
               B == Settled' \cup Frames(queue[c])
    <3>2. Backed(up[c], A) /\ A \subseteq B
      BY <1>1 DEF IInv, FramesBacked
    <3> HIDE DEF A, B
    <3>3. Backed(up[c], B)
      BY <3>2, BackedMore
    <3>1. Backed(up[c], Settled' \cup Frames(queue[c]))
      BY <3>3 DEF B
    <3> QED BY <3>1, BackedEmpty, HelloOnly
  <2> QED BY <2>1 DEF FramesBacked
<1>7. GatewayBacked'
  BY <1>1 DEF IInv, GatewayBacked
<1>8. KeptOrSettled'
  BY <1>1 DEF IInv, KeptOrSettled
<1> QED BY <1>2, <1>3, <1>4, <1>5, <1>6, <1>7, <1>8 DEF IInv

\* The steps of EdgeConnections keep its types.
LEMMA ConnectionTypes ==
    ASSUME ConnectionsTypeOK, NEW c \in Conns,
           Connects(c) \/ Greets(c) \/ Drops(c) \/ Leaves \/ Closes(c) \/ AllClose
    PROVE  ConnectionsTypeOK'
<1> DEFINE States == {"none", "open", "closing", "closed"}
<1>1. MaxConns \in Nat /\ c \in 0..MaxConns
  BY ConnectionsAssumption DEF Conns
<1>2. ws \in [Conns -> States] /\ ready \subseteq Conns /\ current \in 0..MaxConns /\ gw \in 0..MaxConns
  BY DEF ConnectionsTypeOK
<1>3. ASSUME NEW d PROVE Closing(d) \in [Conns -> States]
  BY <1>2 DEF Closing
<1>4. ws' \in [Conns -> States]
  <2>1. CASE Connects(c)
    BY <1>3, <2>1 DEF Connects
  <2>2. CASE Drops(c)
    BY <1>3, <2>2 DEF Drops
  <2>3. CASE Closes(c)
    BY <1>2, <2>3 DEF Closes
  <2>4. CASE AllClose
    BY <1>2, <2>4 DEF AllClose
  <2>5. CASE Greets(c) \/ Leaves
    BY <1>2, <2>5 DEF Greets, Leaves
  <2> QED BY <2>1, <2>2, <2>3, <2>4, <2>5
<1>5. ready' \subseteq Conns
  BY <1>2 DEF Connects, Greets, Drops, Leaves, Closes, AllClose
<1>6. current' \in 0..MaxConns /\ gw' \in 0..MaxConns
  BY <1>1, <1>2 DEF Connects, Greets, Drops, Leaves, Closes, AllClose
<1> QED BY <1>4, <1>5, <1>6 DEF ConnectionsTypeOK

\* A step that leaves queues, counts and the plugin alone keeps the types when it keeps
\* those of the connections and the frames.
LEMMA QuietTypes ==
    ASSUME TypeOK, ConnectionsTypeOK', informed' \in BOOLEAN, effective' \in BOOLEAN,
           up' \in [Conns -> Seq(0..MaxSeq)], down' \in [Conns -> Seq(0..MaxSeq)],
           queue' \in [Conns -> Seq(Events)], pump' \in [Conns -> {"idle", "delivering", "waiting"}],
           acked' \in [Conns -> 0..MaxSeq],
           \A c \in Conns : pump'[c] # "idle" => queue'[c] # <<>>,
           emitted' = emitted, unacked' \subseteq unacked, handled' = handled
    PROVE  TypeOK'
  BY Zenon DEF TypeOK

\* Steps of the gateway, of timers and of the server that only lose frames.
LEMMA LosingSteps ==
    ASSUME IInv, NEW c \in Conns,
           Retry(c) \/ Drop(c) \/ Leave \/ Close(c) \/ ServerRestart \/ Connect(c)
    PROVE  IInv'
<1> DEFINE Pumps == {"idle", "delivering", "waiting"}
<1>1. TypeOK /\ ConnectionsTypeOK
  BY DEF IInv, TypeOK
<1>2. /\ up \in [Conns -> Seq(0..MaxSeq)] /\ down \in [Conns -> Seq(0..MaxSeq)]
      /\ queue \in [Conns -> Seq(Events)] /\ pump \in [Conns -> Pumps] /\ acked \in [Conns -> 0..MaxSeq]
      /\ \A d \in Conns : pump[d] # "idle" => queue[d] # <<>>
  BY <1>1 DEF TypeOK
<1>3. informed \in BOOLEAN /\ effective \in BOOLEAN
  BY <1>1, Zenon DEF TypeOK
<1>4. gw \in Conns \cup {0} /\ Conns \subseteq Nat \ {0} /\ MaxSeq \in Nat
  BY <1>1, SeqTypes
<1>5. <<>> \in Seq(0..MaxSeq) /\ <<>> \in Seq(Events) /\ << 0 >> \in Seq(0..MaxSeq)
  BY <1>4
<1>7. CASE Retry(c)
  <2>1. /\ ConnectionsTypeOK' /\ UNCHANGED <<gw, informed, emitted, unacked, up, down, queue, acked, handled, doubtful>>
        /\ effective' = effective
    BY <1>1, <1>7 DEF Retry, connectionVars, gatewayVars, ConnectionsTypeOK
  <2>2. pump' \in [Conns -> Pumps] /\ \A d \in Conns : pump'[d] # "idle" => queue'[d] # <<>>
    BY <1>2, <1>7 DEF Retry, Pumped
  <2>3. TypeOK'
    BY <1>1, <1>2, <1>3, <2>1, <2>2, QuietTypes
  <2> QED BY <1>4, <2>1, <2>3, Lost
<1>8. CASE Drop(c)
  <2>1. /\ ConnectionsTypeOK' /\ UNCHANGED <<gw, informed, emitted, unacked, up, down, queue, pump, acked, handled, doubtful>>
        /\ effective' = effective
    BY <1>1, <1>8, ConnectionTypes DEF Drop, Drops, gatewayVars, pumpVars
  <2>3. TypeOK'
    BY <1>1, <1>2, <1>3, <2>1, QuietTypes
  <2> QED BY <1>4, <2>1, <2>3, Lost
<1>9. CASE Leave
  <2>1. /\ ConnectionsTypeOK' /\ UNCHANGED <<emitted, unacked, up, queue, pump, acked, handled, doubtful>>
        /\ effective' = effective /\ informed' = FALSE /\ gw' = 0 /\ gw \in Conns
        /\ down' = [down EXCEPT ![gw] = <<>>]
    BY <1>1, <1>4, <1>9, ConnectionTypes DEF Leave, Leaves, pumpVars
  <2>2. informed' \in BOOLEAN /\ effective' \in BOOLEAN
    BY <1>3, <2>1, Zenon
  <2>3. TypeOK'
    BY <1>1, <1>2, <1>5, <2>1, <2>2, QuietTypes
  <2>4. \A d \in Conns : down'[d] = down[d] \/ down'[d] = <<>>
    BY <1>2, <2>1
  <2> QED BY <2>1, <2>3, <2>4, Lost
<1>10. CASE Close(c)
  <2>1. /\ ConnectionsTypeOK' /\ UNCHANGED <<emitted, unacked, queue, acked, handled, doubtful>>
        /\ effective' = effective
        /\ gw' = IF gw = c THEN 0 ELSE gw
        /\ up' = [up EXCEPT ![c] = <<>>] /\ down' = [down EXCEPT ![c] = <<>>]
        /\ pump' = [pump EXCEPT ![c] = IF @ = "waiting" THEN "idle" ELSE @]
    BY <1>1, <1>10, ConnectionTypes DEF Close, Closes
  <2>2. informed' = (informed /\ gw # c)
    BY <1>10 DEF Close
  <2>3. informed' \in BOOLEAN /\ effective' \in BOOLEAN /\ (informed' => informed /\ gw # c)
    BY <1>3, <2>1, <2>2, Zenon
  <2>4. pump' \in [Conns -> Pumps] /\ \A d \in Conns : pump'[d] # "idle" => queue'[d] # <<>>
    BY <1>2, <2>1
  <2>5. up' \in [Conns -> Seq(0..MaxSeq)] /\ down' \in [Conns -> Seq(0..MaxSeq)]
    BY <1>2, <1>5, <2>1
  <2>6. TypeOK'
    BY <1>1, <1>2, <2>1, <2>3, <2>4, <2>5, QuietTypes
  <2>7. \A d \in Conns : /\ down'[d] = down[d] \/ down'[d] = <<>>
                         /\ up'[d] = up[d] \/ up'[d] = <<>>
                         /\ d # c => up'[d] = up[d]
    BY <1>2, <2>1
  <2>8. gw' # 0 /\ informed' => gw' = gw /\ informed /\ gw # c /\ gw \in Conns
    BY <1>4, <2>1, <2>3
  <2> QED BY <2>1, <2>6, <2>7, <2>8, Lost
<1>11. CASE ServerRestart
  <2>1. /\ ConnectionsTypeOK' /\ UNCHANGED <<emitted, unacked, acked, handled, doubtful>>
        /\ effective' = effective /\ gw' = 0 /\ informed' = FALSE
        /\ up' = [d \in Conns |-> <<>>] /\ down' = [d \in Conns |-> <<>>]
        /\ queue' = [d \in Conns |-> <<>>] /\ pump' = [d \in Conns |-> "idle"]
    BY <1>1, <1>11, ConnectionTypes DEF ServerRestart, AllClose
  <2>2. informed' \in BOOLEAN /\ effective' \in BOOLEAN
    BY <1>3, <2>1, Zenon
  <2>3. /\ up' \in [Conns -> Seq(0..MaxSeq)] /\ down' \in [Conns -> Seq(0..MaxSeq)]
        /\ queue' \in [Conns -> Seq(Events)] /\ pump' \in [Conns -> Pumps]
    BY <1>5, <2>1
  <2>4. \A d \in Conns : pump'[d] = "idle" /\ up'[d] = <<>> /\ down'[d] = <<>> /\ queue'[d] = <<>>
    BY <2>1
  <2>5. TypeOK'
    BY <1>1, <1>2, <2>1, <2>2, <2>3, <2>4, QuietTypes
  <2> QED BY <2>1, <2>4, <2>5, Lost
<1>12. CASE Connect(c)
  <2>1. /\ ConnectionsTypeOK' /\ UNCHANGED <<emitted, unacked, down, queue, pump, acked, handled, doubtful>>
        /\ effective' = effective /\ informed' = FALSE
        /\ up' = [up EXCEPT ![c] = << 0 >>]
    BY <1>1, <1>12, ConnectionTypes DEF Connect, pumpVars
  <2>2. informed' \in BOOLEAN /\ effective' \in BOOLEAN /\ ~informed'
    BY <1>3, <2>1, Zenon
  <2>3. up' \in [Conns -> Seq(0..MaxSeq)]
    BY <1>2, <1>5, <2>1
  <2>4. TypeOK'
    BY <1>1, <1>2, <2>1, <2>2, <2>3, QuietTypes
  <2>5. \A d \in Conns : up'[d] = up[d] \/ up'[d] = << 0 >>
    BY <1>2, <2>1
  <2> QED BY <2>1, <2>2, <2>4, <2>5, Lost
<1> QED BY <1>7, <1>8, <1>9, <1>10, <1>11, <1>12

\* The administrator's switch touches no event.
LEMMA SwitchStep == IInv /\ Switch => IInv'
<1> SUFFICES ASSUME IInv, Switch PROVE IInv'
  OBVIOUS
<1>1. UNCHANGED <<ws, ready, current, gw, emitted, unacked, informed, up, down, queue, pump, acked, handled, doubtful>>
  BY DEF Switch, connectionVars, gatewayVars, pumpVars
<1>2. effective' \in BOOLEAN
  <2>1. effective \in BOOLEAN
    BY DEF IInv, TypeOK
  <2> QED BY <2>1, Zenon DEF Switch
<1>3. TypeOK'
  BY <1>1, <1>2 DEF IInv, TypeOK, ConnectionsTypeOK
<1>4. Numbered' /\ QueueAscends'
  BY <1>1 DEF IInv, Numbered, QueueAscends
<1>5. AcksSettled' /\ QueueBacked' /\ FramesBacked' /\ GatewayBacked' /\ KeptOrSettled'
  BY <1>1 DEF IInv, AcksSettled, QueueBacked, FramesBacked, GatewayBacked, KeptOrSettled, Settled
<1> QED BY <1>3, <1>4, <1>5 DEF IInv

-----------------------------------------------------------------------------
(* Deliveries *)

\* The event a connection delivers: the oldest that is not settled on it.
LEMMA HeadOfQueue ==
    ASSUME IInv, NEW c \in Conns, pump[c] = "delivering"
    PROVE  /\ queue[c] # <<>> /\ Head(queue[c]) \in 1..emitted /\ Head(queue[c]) > acked[c]
           /\ 1..(Head(queue[c]) - 1) \subseteq Settled
<1>1. queue[c] # <<>> /\ queue[c] \in Seq(1..MaxSeq) /\ emitted \in Nat /\ acked[c] \in Nat
  BY SeqTypes DEF IInv, TypeOK
<1>2. 1 \in DOMAIN queue[c] /\ Head(queue[c]) = queue[c][1] /\ Head(queue[c]) \in 1..MaxSeq
  <2> DEFINE s == queue[c]
  <2>1. s # <<>> /\ s \in Seq(1..MaxSeq)
    BY <1>1
  <2> HIDE DEF s
  <2>2. /\ Len(s) \in Nat \ {0} /\ DOMAIN s = 1..Len(s)
        /\ Head(s) = s[1] /\ Head(s) \in 1..MaxSeq
    BY <2>1, TailOf
  <2> QED BY <2>2 DEF s
<1>3. Head(queue[c]) <= emitted /\ Head(queue[c]) > acked[c]
  BY <1>1, <1>2 DEF IInv, Numbered, QueueAscends
<1>4. \A d \in 1..(Head(queue[c]) - 1) : d \in Settled
  <2>1. \A j \in DOMAIN queue[c] : ~(j < 1)
    BY <1>1, TailOf
  <2> QED BY <1>2, <2>1 DEF IInv, QueueBacked, Backed
<1> QED BY <1>1, <1>2, <1>3, <1>4

\* A delivery that fails, whether or not the handlers ran.
LEMMA DeliveryFailsStep ==
    ASSUME IInv, NEW c \in Conns, DeliveryFails(c)
    PROVE  IInv'
<1> DEFINE Pumps == {"idle", "delivering", "waiting"}
<1>1. TypeOK /\ ConnectionsTypeOK /\ pump \in [Conns -> Pumps] /\ handled \subseteq 1..emitted
      /\ \A d \in Conns : pump[d] # "idle" => queue[d] # <<>>
  BY DEF IInv, TypeOK
<1>2. /\ pump[c] = "delivering" /\ pump' = [pump EXCEPT ![c] = "waiting"]
      /\ handled' \in {handled, handled \cup {Head(queue[c])}}
      /\ UNCHANGED <<connectionVars, gatewayVars, up, down, queue, acked, effective, doubtful>>
  BY DEF DeliveryFails
<1>3. handled' \subseteq 1..emitted /\ handled \subseteq handled'
  BY <1>1, <1>2, HeadOfQueue
<1>4. pump' \in [Conns -> Pumps] /\ \A d \in Conns : pump'[d] # "idle" => queue'[d] # <<>>
  BY <1>1, <1>2
<1>5. UNCHANGED <<ws, ready, current, gw, emitted, unacked, informed>>
  BY <1>2 DEF connectionVars, gatewayVars
<1>6. TypeOK'
  BY <1>1, <1>2, <1>3, <1>4, <1>5 DEF TypeOK, ConnectionsTypeOK
<1>7. gw \in Conns \cup {0}
  BY <1>1, SeqTypes
<1> QED BY <1>2, <1>3, <1>5, <1>6, <1>7, Lost

\* The queue after its head was delivered or a new event was put into it ascends.
LEMMA TailAscends ==
    ASSUME NEW s \in Seq(Nat), s # <<>>, \A i, j \in DOMAIN s : i < j => s[i] < s[j]
    PROVE  /\ \A i, j \in DOMAIN Tail(s) : i < j => Tail(s)[i] < Tail(s)[j]
           /\ Tail(s) # <<>> => Head(Tail(s)) > Head(s)
<1>1. /\ Len(s) \in Nat \ {0} /\ DOMAIN s = 1..Len(s) /\ Head(s) = s[1]
      /\ DOMAIN Tail(s) = 1..(Len(s) - 1) /\ Tail(s) \in Seq(Nat)
      /\ \A i \in 1..(Len(s) - 1) : Tail(s)[i] = s[i + 1]
  BY TailOf
<1>2. ASSUME NEW i \in DOMAIN Tail(s), NEW j \in DOMAIN Tail(s), i < j
      PROVE  Tail(s)[i] < Tail(s)[j]
  <2>1. i + 1 \in DOMAIN s /\ j + 1 \in DOMAIN s /\ i + 1 < j + 1
    BY <1>1, <1>2
  <2>2. s[i + 1] < s[j + 1]
    BY <2>1
  <2> QED BY <1>1, <1>2, <2>2
<1>3. ASSUME Tail(s) # <<>> PROVE Head(Tail(s)) > Head(s)
  <2>1. Head(Tail(s)) = Tail(s)[1] /\ 1 \in DOMAIN Tail(s)
    BY <1>1, <1>3, TailOf
  <2>2. Tail(s)[1] = s[2] /\ 1 \in DOMAIN s /\ 2 \in DOMAIN s
    BY <1>1, <2>1
  <2>3. s[1] < s[2] /\ s[1] \in Nat /\ s[2] \in Nat
    BY <1>1, <2>2, ElementOfSeq
  <2> QED BY <1>1, <2>1, <2>2, <2>3
<1> QED BY <1>2, <1>3

\* A delivery that succeeds: its event is settled, acknowledged and leaves the queue.
LEMMA DeliveredStep ==
    ASSUME IInv, NEW c \in Conns, Delivered(c)
    PROVE  IInv'
<1> DEFINE Pumps == {"idle", "delivering", "waiting"}
           e == Head(queue[c])
           q == queue[c]
<1>1. /\ TypeOK /\ ConnectionsTypeOK /\ pump \in [Conns -> Pumps] /\ handled \subseteq 1..emitted
      /\ queue \in [Conns -> Seq(Events)] /\ acked \in [Conns -> 0..MaxSeq]
      /\ \A d \in Conns : pump[d] # "idle" => queue[d] # <<>>
  BY DEF IInv, TypeOK
<1>2. /\ pump[c] = "delivering" /\ handled' = handled \cup {e}
      /\ queue' = [queue EXCEPT ![c] = Tail(@)]
      /\ acked' = [acked EXCEPT ![c] = e]
      /\ down' = Answer(c, <<e>>)
      /\ pump' = [pump EXCEPT ![c] = Pumped(c, queue'[c])]
      /\ UNCHANGED <<ws, ready, current, gw, emitted, unacked, informed, up, effective, doubtful>>
  BY DEF Delivered, connectionVars, gatewayVars
<1>3. /\ q # <<>> /\ e \in 1..emitted /\ e > acked[c] /\ 1..(e - 1) \subseteq Settled
      /\ q \in Seq(Nat) /\ q \in Seq(Events) /\ emitted \in 0..MaxSeq /\ MaxSeq \in Nat /\ gw \in Conns \cup {0}
      /\ Conns \subseteq Nat \ {0}
  BY <1>1, <1>2, HeadOfQueue, SeqTypes DEF Events
<1>4. /\ queue'[c] = Tail(q) /\ acked'[c] = e
      /\ \A d \in Conns \ {c} : queue'[d] = queue[d] /\ acked'[d] = acked[d]
  BY <1>1, <1>2
<1>21. e \in 0..MaxSeq /\ e = Head(q) /\ q = queue[c]
  BY <1>3
<1> HIDE DEF e, q
<1>5. Settled' = Settled \cup {e}
  BY <1>2 DEF Settled
<1>6. Frames(q) = {e} \cup Frames(Tail(q)) /\ Tail(q) \in Seq(Events)
  BY <1>3, <1>21, FramesTail, TailOf
<1>7. TypeOK'
  <2>1. down' \in [Conns -> Seq(0..MaxSeq)]
    BY <1>1, <1>2, <1>21, AnswerOf
  <2>2. queue' \in [Conns -> Seq(Events)]
    BY <1>1, <1>2, <1>6, <1>21
  <2>3. acked' \in [Conns -> 0..MaxSeq]
    BY <1>1, <1>2, <1>3
  <2>4. pump' \in [Conns -> Pumps] /\ \A d \in Conns : pump'[d] # "idle" => queue'[d] # <<>>
    BY <1>1, <1>2, <1>4 DEF Pumped
  <2>5. handled' \subseteq 1..emitted
    BY <1>1, <1>2, <1>3
  <2> QED
    BY <1>1, <1>2, <2>1, <2>2, <2>3, <2>4, <2>5 DEF TypeOK, ConnectionsTypeOK
<1>8. \A d \in Conns : \A k \in DOMAIN down'[d] :
        down'[d][k] = e \/ (k \in DOMAIN down[d] /\ down'[d][k] = down[d][k])
  BY <1>1, <1>2, <1>21, AnswerOf
<1>9. Numbered'
  <2>1. ASSUME NEW d \in Conns, NEW k \in DOMAIN queue'[d] PROVE queue'[d][k] <= emitted
    <3>1. CASE d = c
      <4>1. /\ Len(q) \in Nat \ {0} /\ DOMAIN q = 1..Len(q)
            /\ DOMAIN Tail(q) = 1..(Len(q) - 1)
            /\ \A j \in 1..(Len(q) - 1) : Tail(q)[j] = q[j + 1]
        BY <1>3, TailOf
      <4>2. k \in DOMAIN Tail(q)
        BY <1>4, <2>1, <3>1
      <4>3. k + 1 \in DOMAIN q /\ Tail(q)[k] = q[k + 1]
        BY <4>1, <4>2
      <4> QED BY <1>4, <1>21, <3>1, <4>3 DEF IInv, Numbered
    <3>2. CASE d # c
      BY <1>4, <2>1, <3>2 DEF IInv, Numbered
    <3> QED BY <3>1, <3>2
  <2>2. \A d \in Conns : \A k \in DOMAIN down'[d] : down'[d][k] <= emitted
    BY <1>3, <1>8 DEF IInv, Numbered
  <2>3. \A d \in Conns : acked'[d] <= emitted
    BY <1>3, <1>4 DEF IInv, Numbered
  <2> QED BY <1>2, <2>1, <2>2, <2>3 DEF IInv, Numbered
<1>10. QueueAscends'
  <2>1. /\ \A i, j \in DOMAIN Tail(q) : i < j => Tail(q)[i] < Tail(q)[j]
        /\ Tail(q) # <<>> => Head(Tail(q)) > e
    <3>1. \A i, j \in DOMAIN q : i < j => q[i] < q[j]
      BY <1>21 DEF IInv, QueueAscends
    <3> QED BY <1>3, <1>21, <3>1, TailAscends
  <2> QED BY <1>4, <2>1 DEF IInv, QueueAscends
<1>11. AcksSettled'
  <2>1. 1..e \subseteq Settled'
    BY <1>3, <1>5
  <2>2. \A d \in Conns : 1..acked'[d] \subseteq Settled'
    BY <1>4, <1>5, <2>1 DEF IInv, AcksSettled
  <2>3. \A d \in Conns : \A k \in DOMAIN down'[d] : 1..down'[d][k] \subseteq Settled'
    BY <1>5, <1>8, <2>1 DEF IInv, AcksSettled
  <2> QED BY <2>2, <2>3 DEF AcksSettled
<1>12. QueueBacked'
  <2>1. Backed(Tail(q), Settled')
    <3>1. Backed(q, Settled) /\ Settled \subseteq Settled' /\ Head(q) \in Settled'
      BY <1>5, <1>21 DEF IInv, QueueBacked
    <3> QED BY <1>3, <3>1, BackedTail
  <2>2. ASSUME NEW d \in Conns, d # c PROVE Backed(queue[d], Settled')
    BY <1>5, <2>2, BackedMore DEF IInv, QueueBacked
  <2> QED BY <1>4, <2>1, <2>2 DEF QueueBacked
<1>13. FramesBacked'
  <2>1. ASSUME NEW d \in Conns PROVE Backed(up[d], Settled' \cup Frames(queue'[d]))
    <3> DEFINE A == Settled \cup Frames(queue[d])
               B == Settled' \cup Frames(queue'[d])
    <3>1. Backed(up[d], A)
      BY DEF IInv, FramesBacked
    <3>2. A \subseteq B
      BY <1>4, <1>5, <1>6, <1>21
    <3> HIDE DEF A, B
    <3>3. Backed(up[d], B)
      BY <3>1, <3>2, BackedMore
    <3> QED BY <3>3 DEF B
  <2> QED BY <1>2, <2>1 DEF FramesBacked
<1>14. GatewayBacked'
  BY <1>2, <1>3, <1>4, <1>5, <1>6, <1>21 DEF IInv, GatewayBacked
<1>15. KeptOrSettled'
  BY <1>2, <1>5 DEF IInv, KeptOrSettled
<1> QED BY <1>7, <1>9, <1>10, <1>11, <1>12, <1>13, <1>14, <1>15 DEF IInv

-----------------------------------------------------------------------------
(* The gateway *)

\* An ack: what the gateway forgets is settled.
LEMMA AckStep ==
    ASSUME IInv, GatewayAck
    PROVE  /\ IInv'
           /\ \E n \in 1..emitted : unacked \cap 1..n \subseteq Settled /\ unacked' = unacked \ 1..n
<1> DEFINE n == Head(down[gw])
           s == down[gw]
<1>21. TypeOK /\ s # <<>> /\ n # 0 /\ gw # 0 /\ MaxSeq \in Nat /\ MaxConns \in Nat
  BY EventsAssumption, ConnectionsAssumption DEF GatewayAck, IInv
<1>22. gw \in Conns /\ emitted \in Nat /\ unacked \subseteq 1..emitted /\ down \in [Conns -> Seq(0..MaxSeq)]
  BY <1>21 DEF TypeOK, ConnectionsTypeOK, Conns
<1>1. /\ TypeOK /\ gw \in Conns /\ emitted \in Nat /\ MaxSeq \in Nat /\ s \in Seq(0..MaxSeq) /\ s # <<>> /\ n # 0
      /\ down \in [Conns -> Seq(0..MaxSeq)] /\ unacked \subseteq 1..emitted
  BY <1>21, <1>22
<1>2. /\ down' = [down EXCEPT ![gw] = Tail(@)]
      /\ unacked' = {e \in unacked : e > n}
      /\ UNCHANGED <<ws, ready, current, gw, emitted, informed, up, queue, pump, acked, effective, handled, doubtful>>
  BY DEF GatewayAck, connectionVars, pumpVars
<1>3. /\ Len(s) \in Nat \ {0} /\ DOMAIN s = 1..Len(s) /\ n = s[1] /\ n \in 0..MaxSeq
      /\ Tail(s) \in Seq(0..MaxSeq) /\ DOMAIN Tail(s) = 1..(Len(s) - 1)
      /\ \A k \in 1..(Len(s) - 1) : Tail(s)[k] = s[k + 1]
  BY <1>1, TailOf
<1>4. n \in 1..emitted /\ 1..n \subseteq Settled
  <2>1. 1 \in DOMAIN s
    BY <1>3
  <2> QED BY <1>1, <1>3, <2>1 DEF IInv, Numbered, AcksSettled
<1>5. \A d \in Conns : \A k \in DOMAIN down'[d] : \E j \in DOMAIN down[d] : down'[d][k] = down[d][j]
  <2>1. \A k \in DOMAIN Tail(s) : k + 1 \in DOMAIN s /\ Tail(s)[k] = s[k + 1]
    BY <1>3
  <2>2. down'[gw] = Tail(s) /\ \A d \in Conns \ {gw} : down'[d] = down[d]
    BY <1>1, <1>2
  <2> QED BY <2>1, <2>2
<1>6. Settled' = Settled
  BY <1>2 DEF Settled
<1>7. unacked' \subseteq unacked /\ unacked' = unacked \ 1..n
  <2> HIDE DEF n
  <2>1. \A e \in unacked : e > n <=> e \notin 1..n
    BY <1>1, <1>4
  <2> QED BY <1>2, <2>1
<1>8. TypeOK'
  <2>1. down' \in [Conns -> Seq(0..MaxSeq)]
    BY <1>1, <1>2, <1>3
  <2> QED BY <1>1, <1>2, <1>7, <2>1 DEF TypeOK, ConnectionsTypeOK
<1>9. Numbered'
  BY <1>2, <1>5 DEF IInv, Numbered
<1>10. QueueAscends'
  BY <1>2 DEF IInv, QueueAscends
<1>11. AcksSettled'
  BY <1>2, <1>5, <1>6 DEF IInv, AcksSettled
<1>12. QueueBacked' /\ FramesBacked' /\ GatewayBacked'
  BY <1>2, <1>6 DEF IInv, QueueBacked, FramesBacked, GatewayBacked
<1>13. KeptOrSettled'
  BY <1>2, <1>4, <1>6, <1>7 DEF IInv, KeptOrSettled
<1>14. IInv'
  BY <1>8, <1>9, <1>10, <1>11, <1>12, <1>13 DEF IInv
<1> QED BY <1>4, <1>7, <1>14

\* A new event, sent or only kept; sent before the first state it makes what is kept doubtful.
LEMMA EmitStep ==
    ASSUME IInv, Emit
    PROVE  /\ IInv'
           /\ emitted' = emitted + 1 /\ unacked' = unacked \cup {emitted'} /\ handled' = handled
           /\ doubtful' \in {doubtful, doubtful \cup unacked}
<1> DEFINE n == emitted + 1
           sends == gw # 0 /\ (informed \/ Eager)
           Carried == Settled' \cup Frames(queue[gw]) \cup Frames(up[gw])
<1>1. /\ TypeOK /\ ConnectionsTypeOK /\ MaxSeq \in Nat /\ emitted \in Nat /\ n \in 1..MaxSeq
      /\ emitted' = n /\ unacked' = unacked \cup {n}
      /\ UNCHANGED <<ws, ready, current, gw, informed, down, queue, pump, acked, effective, handled>>
  BY EventsAssumption DEF Emit, IInv, TypeOK, connectionVars, pumpVars
<1>2. doubtful' = IF sends /\ ~informed THEN doubtful \cup unacked ELSE doubtful
  BY DEF Emit
<1>3. doubtful' \in {doubtful, doubtful \cup unacked} /\ Settled \subseteq Settled'
  BY <1>1, <1>2 DEF Settled
<1>4. /\ unacked \subseteq 1..emitted /\ handled \subseteq 1..emitted /\ gw \in Conns \cup {0}
      /\ Conns \subseteq Nat \ {0} /\ up \in [Conns -> Seq(0..MaxSeq)]
  <2>1. MaxConns \in Nat
    BY ConnectionsAssumption
  <2> QED BY <1>1, <2>1 DEF TypeOK, ConnectionsTypeOK, Conns
<1>5. ASSUME sends
      PROVE  /\ gw \in Conns /\ up[gw] \in Seq(0..MaxSeq) /\ up[gw] \in Seq(Nat)
             /\ up' = [up EXCEPT ![gw] = Append(up[gw], n)]
             /\ Append(up[gw], n) \in Seq(0..MaxSeq)
  <2>1. gw \in Conns /\ gw # 0
    BY <1>4, <1>5
  <2>2. up[gw] \in Seq(0..MaxSeq) /\ up[gw] \in Seq(Nat)
    BY <1>1, <2>1, SeqTypes
  <2>3. up' = Sent(<<n>>)
    BY <1>5 DEF Emit
  <2>4. up[gw] \o <<n>> = Append(up[gw], n) /\ Append(up[gw], n) \in Seq(0..MaxSeq)
    BY <1>1, <2>2, OneMore, AppendOf
  <2> QED BY <2>1, <2>2, <2>3, <2>4 DEF Sent
<1>6. ASSUME ~sends PROVE up' = up
  BY <1>6 DEF Emit
<1>7. TypeOK'
  <2>1. up' \in [Conns -> Seq(0..MaxSeq)]
    BY <1>4, <1>5, <1>6
  <2>2. unacked' \subseteq 1..emitted' /\ handled' \subseteq 1..emitted' /\ emitted' \in 0..MaxSeq
    BY <1>1, <1>4
  <2>3. ConnectionsTypeOK'
    BY <1>1 DEF ConnectionsTypeOK
  <2> QED BY <1>1, <2>1, <2>2, <2>3 DEF TypeOK
<1>8. Numbered'
  <2>1. ASSUME NEW c \in Conns, NEW k \in DOMAIN up'[c] PROVE up'[c][k] <= n
    <3>0. \A d \in Conns : \A j \in DOMAIN up[d] : up[d][j] \in Nat /\ up[d][j] <= emitted
      <4>1. ASSUME NEW d \in Conns, NEW j \in DOMAIN up[d] PROVE up[d][j] \in Nat
        <5>1. up[d] \in Seq(Nat)
          BY <1>1, SeqTypes
        <5>2. j \in 1..Len(up[d])
          BY <4>1, <5>1, LenProperties
        <5> QED BY <5>1, <5>2, ElementOfSeq
      <4> QED BY <4>1 DEF IInv, Numbered
    <3>1. CASE sends /\ c = gw
      <4> DEFINE s == up[gw]
      <4>1. s \in Seq(Nat) /\ n \in Nat /\ up'[c] = Append(s, n)
        BY <1>1, <1>4, <1>5, <3>1
      <4> HIDE DEF s, n
      <4>2. /\ Len(s) \in Nat /\ DOMAIN s = 1..Len(s) /\ DOMAIN Append(s, n) = 1..(Len(s) + 1)
            /\ \A i \in 1..Len(s) : Append(s, n)[i] = s[i]
            /\ Append(s, n)[Len(s) + 1] = n
        BY <4>1, AppendOf
      <4>3. k = Len(s) + 1 \/ k \in DOMAIN s
        BY <2>1, <4>1, <4>2
      <4> USE DEF s
      <4>4. CASE k \in DOMAIN s
        <5>1. s[k] \in Nat /\ s[k] <= emitted /\ up'[c][k] = s[k]
          BY <3>0, <3>1, <1>5, <4>1, <4>2, <4>4
        <5> QED BY <1>1, <5>1 DEF n
      <4> QED BY <1>1, <4>1, <4>2, <4>3, <4>4
    <3>2. CASE ~(sends /\ c = gw)
      <4>1. up'[c] = up[c]
        BY <1>4, <1>5, <1>6, <3>2
      <4> QED BY <1>1, <2>1, <3>0, <4>1
    <3> QED BY <3>1, <3>2
  <2>2. ASSUME NEW c \in Conns
        PROVE  /\ \A k \in DOMAIN down'[c] : down'[c][k] <= n
               /\ \A k \in DOMAIN queue'[c] : queue'[c][k] <= n
               /\ acked'[c] <= n
    <3>1. down[c] \in Seq(Nat) /\ queue[c] \in Seq(Nat) /\ acked[c] \in Nat
      BY <1>1, SeqTypes
    <3>2. /\ \A k \in DOMAIN down[c] : down[c][k] \in Nat /\ down[c][k] <= emitted
          /\ \A k \in DOMAIN queue[c] : queue[c][k] \in Nat /\ queue[c][k] <= emitted
          /\ acked[c] <= emitted
      BY <3>1, ElementOfSeq, LenProperties DEF IInv, Numbered
    <3>3. \A x \in Nat : x <= emitted => x <= n
      BY <1>1
    <3> QED BY <1>1, <3>1, <3>2, <3>3
  <2> QED BY <1>1, <2>1, <2>2 DEF Numbered
<1>9. QueueAscends'
  BY <1>1 DEF IInv, QueueAscends
<1>10. AcksSettled'
  BY <1>1, <1>3 DEF IInv, AcksSettled
<1>11. QueueBacked'
  <2>1. ASSUME NEW c \in Conns PROVE Backed(queue[c], Settled')
    BY <1>3, BackedMore DEF IInv, QueueBacked
  <2> QED BY <1>1, <2>1 DEF QueueBacked
<1>12. ASSUME sends PROVE 1..emitted \subseteq Carried
  <2>1. CASE informed
    BY <1>3, <1>12, <2>1 DEF IInv, GatewayBacked
  <2>2. CASE ~informed
    <3>1. doubtful' = doubtful \cup unacked /\ handled' = handled
      BY <1>1, <1>2, <1>12, <2>2
    <3> QED BY <3>1 DEF IInv, KeptOrSettled, Settled
  <2> QED BY <2>1, <2>2
<1>13. ASSUME NEW c \in Conns PROVE Backed(up[c], Settled' \cup Frames(queue[c]))
  <2> DEFINE A == Settled \cup Frames(queue[c])
             B == Settled' \cup Frames(queue[c])
  <2>1. Backed(up[c], A) /\ A \subseteq B
    BY <1>3 DEF IInv, FramesBacked
  <2> HIDE DEF A, B
  <2>2. Backed(up[c], B)
    BY <2>1, BackedMore
  <2> QED BY <2>2 DEF B
<1>14. ASSUME sends
       PROVE  /\ Backed(Append(up[gw], n), Settled' \cup Frames(queue[gw]))
              /\ Frames(Append(up[gw], n)) = Frames(up[gw]) \cup {n}
  <2> DEFINE A == Settled' \cup Frames(queue[gw])
             s == up[gw]
  <2>0. Backed(s, A)
    BY <1>5, <1>13, <1>14
  <2>1. s \in Seq(Nat) /\ Backed(s, A) /\ n \in Nat /\ n - 1 = emitted
    <3>1. s \in Seq(Nat)
      BY <1>5, <1>14
    <3>2. n \in Nat /\ n - 1 = emitted
      BY <1>1
    <3> QED BY <2>0, <3>1, <3>2
  <2>2. 1..(n - 1) \subseteq A \cup Frames(s)
    BY <1>12, <1>14, <2>1
  <2> HIDE DEF A, s, n
  <2>3. Backed(Append(s, n), A) /\ Frames(Append(s, n)) = Frames(s) \cup {n}
    BY <2>1, <2>2, BackedAppend
  <2> QED BY <2>3 DEF A, s
<1>15. FramesBacked'
  <2>1. ASSUME NEW c \in Conns PROVE Backed(up'[c], Settled' \cup Frames(queue[c]))
    <3>1. CASE sends /\ c = gw
      BY <1>4, <1>5, <1>14, <3>1
    <3>2. CASE ~(sends /\ c = gw)
      <4>1. up'[c] = up[c]
        BY <1>4, <1>5, <1>6, <3>2
      <4> QED BY <1>13, <4>1
    <3> QED BY <3>1, <3>2
  <2> QED BY <1>1, <2>1 DEF FramesBacked
<1>16. GatewayBacked'
  <2> SUFFICES ASSUME gw # 0, informed
               PROVE  1..n \subseteq Settled' \cup Frames(queue[gw]) \cup Frames(up'[gw])
    BY <1>1 DEF GatewayBacked
  <2>1. sends
    OBVIOUS
  <2>2. up'[gw] = Append(up[gw], n) /\ Frames(up'[gw]) = Frames(up[gw]) \cup {n}
    BY <1>4, <1>5, <1>14, <2>1
  <2>3. 1..n = 1..emitted \cup {n}
    BY <1>1
  <2> QED BY <1>12, <2>1, <2>2, <2>3
<1>17. KeptOrSettled'
  <2>1. 1..n = 1..emitted \cup {n}
    BY <1>1
  <2> QED BY <1>1, <1>3, <2>1 DEF IInv, KeptOrSettled
<1> QED
  BY <1>1, <1>3, <1>7, <1>8, <1>9, <1>10, <1>11, <1>15, <1>16, <1>17 DEF IInv

\* The events of a set one after another are a sequence of just these events.
LEMMA AscendingOf ==
    ASSUME NEW n \in Nat, NEW S \in SUBSET (1..n), NEW t \in Ascending(S)
    PROVE  /\ t \in Seq(S) /\ t \in Seq(Nat) /\ Frames(t) = S
           /\ \A i, j \in DOMAIN t : i < j => t[i] < t[j]
<1>1. IsFiniteSet(S)
  <2>1. 1 \in Int /\ n \in Int
    OBVIOUS
  <2>2. IsFiniteSet(1..n)
    BY <2>1, FS_Interval
  <2> QED BY <2>2, FS_Subset
<1>2. Cardinality(S) \in Nat
  BY <1>1, FS_CardinalityType
<1>3. /\ t \in [1..Cardinality(S) -> S] /\ \A e \in S : \E i \in DOMAIN t : t[i] = e
      /\ \A i, j \in DOMAIN t : i < j => t[i] < t[j]
  BY DEF Ascending
<1>4. t \in Seq(S)
  BY <1>2, <1>3
<1>5. S \subseteq Nat
  OBVIOUS
<1>6. t \in Seq(Nat)
  BY <1>4, <1>5, SeqMonotonic
<1>7. Frames(t) = S
  BY <1>3 DEF Frames
<1> QED BY <1>3, <1>4, <1>6, <1>7

\* The first state of a connection: what the gateway keeps is on its way from then on.
LEMMA StateStep ==
    ASSUME IInv, GatewayState
    PROVE  IInv'
<1>21. TypeOK /\ gw # 0 /\ MaxSeq \in Nat /\ MaxConns \in Nat /\ down[gw] # <<>>
  BY EventsAssumption, ConnectionsAssumption DEF GatewayState, IInv
<1>1. /\ TypeOK /\ gw \in Conns /\ emitted \in 0..MaxSeq /\ unacked \subseteq 1..emitted
      /\ down \in [Conns -> Seq(0..MaxSeq)] /\ up \in [Conns -> Seq(0..MaxSeq)]
  <2>1. gw \in 0..MaxConns /\ emitted \in 0..MaxSeq /\ unacked \subseteq 1..emitted
    BY <1>21 DEF TypeOK, ConnectionsTypeOK
  <2>2. down \in [Conns -> Seq(0..MaxSeq)] /\ up \in [Conns -> Seq(0..MaxSeq)]
    BY <1>21 DEF TypeOK
  <2>3. gw \in Conns
    BY <1>21, <2>1 DEF Conns
  <2> QED BY <1>21, <2>1, <2>2, <2>3
<1>2. /\ down' = [down EXCEPT ![gw] = Tail(@)] /\ informed' = TRUE
      /\ UNCHANGED <<ws, ready, current, gw, emitted, unacked, queue, pump, acked, effective, handled, doubtful>>
  BY DEF GatewayState, connectionVars, pumpVars
<1> DEFINE u == up[gw]
           w == down[gw]
<1>3. PICK t \in Ascending(unacked) : up' = [up EXCEPT ![gw] = u \o t]
  BY <1>1, <1>21 DEF GatewayState, Sent
<1>4. /\ t \in Seq(unacked) /\ t \in Seq(Nat) /\ Frames(t) = unacked
      /\ \A i, j \in DOMAIN t : i < j => t[i] < t[j]
  <2>1. emitted \in Nat /\ unacked \in SUBSET (1..emitted)
    BY <1>1, <1>21
  <2> QED BY <2>1, AscendingOf
<1>5. u \in Seq(0..MaxSeq) /\ u \in Seq(Nat) /\ w \in Seq(0..MaxSeq) /\ w # <<>>
  BY <1>1, <1>21, SeqTypes
<1>6. Settled' = Settled /\ 1..emitted \subseteq unacked \cup Settled
  BY <1>2 DEF Settled, IInv, KeptOrSettled
<1>7. u \o t \in Seq(0..MaxSeq)
  <2>1. unacked \subseteq 0..MaxSeq
    BY <1>1, <1>21
  <2>2. t \in Seq(0..MaxSeq)
    BY <1>4, <2>1, SeqMonotonic
  <2> QED BY <1>5, <2>2, ConcatProperties
<1>8. /\ Backed(u \o t, Settled \cup Frames(queue[gw]))
      /\ Frames(u \o t) = Frames(u) \cup Frames(t)
  <2> DEFINE A == Settled \cup Frames(queue[gw])
  <2>1. Backed(u, A)
    BY <1>1 DEF IInv, FramesBacked
  <2>2. ASSUME NEW k \in DOMAIN t PROVE 1..(t[k] - 1) \subseteq A \cup Frames(t)
    <3>1. t[k] \in Frames(t)
      BY DEF Frames
    <3>2. t[k] \in 1..emitted
      BY <1>1, <1>4, <3>1
    <3>3. 1..(t[k] - 1) \subseteq 1..emitted
      BY <1>1, <3>2
    <3> QED BY <1>4, <1>6, <3>3
  <2> HIDE DEF A, u
  <2>3. u \in Seq(Nat)
    BY <1>5
  <2>4. Backed(u \o t, A) /\ Frames(u \o t) = Frames(u) \cup Frames(t)
    BY <1>4, <2>1, <2>2, <2>3, Resent
  <2> QED BY <2>4 DEF A
<1> DEFINE v == u \o t
<1>9. /\ up'[gw] = v /\ \A d \in Conns \ {gw} : up'[d] = up[d]
      /\ up' \in [Conns -> Seq(0..MaxSeq)]
  BY <1>1, <1>3, <1>7
<1>10. /\ Tail(w) \in Seq(0..MaxSeq) /\ down' \in [Conns -> Seq(0..MaxSeq)]
       /\ down'[gw] = Tail(w) /\ \A d \in Conns \ {gw} : down'[d] = down[d]
  BY <1>1, <1>2, <1>5, TailOf
<1>11. \A d \in Conns : \A k \in DOMAIN down'[d] : \E j \in DOMAIN down[d] : down'[d][k] = down[d][j]
  <2>1. /\ Len(w) \in Nat \ {0} /\ DOMAIN w = 1..Len(w) /\ DOMAIN Tail(w) = 1..(Len(w) - 1)
        /\ \A k \in 1..(Len(w) - 1) : Tail(w)[k] = w[k + 1]
    BY <1>5, TailOf
  <2>2. \A k \in DOMAIN Tail(w) : k + 1 \in DOMAIN w /\ Tail(w)[k] = w[k + 1]
    BY <2>1
  <2> QED BY <1>10, <2>2
<1>12. TypeOK'
  <2>1. informed' \in BOOLEAN
    BY <1>2, Zenon
  <2> QED BY <1>1, <1>2, <1>9, <1>10, <2>1 DEF TypeOK, ConnectionsTypeOK
<1>13. Numbered'
  <2>1. \A k \in DOMAIN v : v[k] <= emitted
    <3>1. ASSUME NEW k \in DOMAIN v PROVE v[k] <= emitted
      <4>1. v[k] \in Frames(u) \cup unacked
        BY <1>4, <1>8 DEF Frames
      <4>2. emitted \in Nat /\ \A d \in unacked : d <= emitted
        BY <1>1, <1>21
      <4>3. \A d \in Frames(u) : d <= emitted
        BY <1>1 DEF Frames, IInv, Numbered
      <4> QED BY <4>1, <4>2, <4>3, Zenon
    <3> QED BY <3>1
  <2> HIDE DEF v
  <2> QED BY <1>2, <1>9, <1>11, <2>1 DEF IInv, Numbered
<1>14. QueueAscends'
  BY <1>2 DEF IInv, QueueAscends
<1>15. AcksSettled'
  BY <1>2, <1>6, <1>11 DEF IInv, AcksSettled
<1>16. QueueBacked'
  BY <1>2, <1>6 DEF IInv, QueueBacked
<1>17. FramesBacked'
  BY <1>2, <1>6, <1>8, <1>9 DEF IInv, FramesBacked
<1>18. GatewayBacked' /\ KeptOrSettled'
  BY <1>2, <1>4, <1>6, <1>8, <1>9 DEF GatewayBacked, KeptOrSettled
<1> QED
  BY <1>12, <1>13, <1>14, <1>15, <1>16, <1>17, <1>18 DEF IInv

-----------------------------------------------------------------------------
(* Frames that arrive *)

\* A frame that arrives and is a hello, is settled or is in the queue from then on,
\* leaves no gap behind it.
LEMMA ArrivalBacked ==
    ASSUME IInv, NEW c \in Conns, Arrives(c), UNCHANGED <<gw, emitted, unacked, informed>>,
           Settled \subseteq Settled',
           \A d \in Conns : Frames(queue[d]) \subseteq Frames(queue'[d]),
           Head(up[c]) = 0 \/ Head(up[c]) \in Settled' \cup Frames(queue'[c])
    PROVE  /\ FramesBacked' /\ GatewayBacked' /\ KeptOrSettled'
           /\ \A d \in Conns : \A k \in DOMAIN up'[d] : up'[d][k] <= emitted
<1>1. /\ TypeOK /\ up'[c] = Tail(up[c]) /\ \A d \in Conns \ {c} : up'[d] = up[d]
      /\ up[c] # <<>> /\ up[c] \in Seq(Nat)
  <2>1. TypeOK
    BY DEF IInv
  <2> QED BY <2>1, ArrivesTypes, SeqTypes
<1>2. FramesBacked'
  <2>1. ASSUME NEW d \in Conns PROVE Backed(up'[d], Settled' \cup Frames(queue'[d]))
    <3> DEFINE A == Settled \cup Frames(queue[d])
               B == Settled' \cup Frames(queue'[d])
               s == up[d]
    <3>1. Backed(s, A) /\ A \subseteq B
      BY DEF IInv, FramesBacked
    <3>2. CASE d # c
      <4> HIDE DEF A, B
      <4>1. Backed(s, B)
        BY <3>1, BackedMore
      <4> QED BY <1>1, <3>2, <4>1 DEF B
    <3>3. CASE d = c
      <4>1. s \in Seq(Nat) /\ s # <<>> /\ (Head(s) = 0 \/ Head(s) \in B)
        BY <1>1, <3>3
      <4> HIDE DEF A, B, s
      <4>2. Backed(Tail(s), B)
        BY <3>1, <4>1, BackedTail
      <4> QED BY <1>1, <3>3, <4>2 DEF B, s
    <3> QED BY <3>2, <3>3
  <2> QED BY <2>1 DEF FramesBacked
<1>3. GatewayBacked'
  <2> SUFFICES ASSUME gw # 0, informed, NEW d \in 1..emitted
               PROVE  d \in Settled' \cup Frames(queue'[gw]) \cup Frames(up'[gw])
    BY DEF GatewayBacked
  <2>1. d \in Settled \cup Frames(queue[gw]) \cup Frames(up[gw])
    BY DEF IInv, GatewayBacked
  <2>2. gw \in Conns /\ d # 0
    <3>1. emitted \in Nat /\ gw \in Conns \cup {0}
      BY <1>1, SeqTypes
    <3> QED BY <3>1
  <2>3. Frames(up[c]) = {Head(up[c])} \cup Frames(up'[c])
    BY <1>1, FramesTail
  <2> QED BY <1>1, <2>1, <2>2, <2>3
<1>4. KeptOrSettled'
  BY DEF IInv, KeptOrSettled
<1>5. ASSUME NEW d \in Conns, NEW k \in DOMAIN up'[d] PROVE up'[d][k] <= emitted
  <2>1. CASE d # c
    BY <1>1, <1>5, <2>1 DEF IInv, Numbered
  <2>2. CASE d = c
    <3> DEFINE s == up[c]
    <3>1. /\ Len(s) \in Nat \ {0} /\ DOMAIN s = 1..Len(s) /\ DOMAIN Tail(s) = 1..(Len(s) - 1)
          /\ \A i \in 1..(Len(s) - 1) : Tail(s)[i] = s[i + 1]
      BY <1>1, TailOf
    <3>2. k \in DOMAIN Tail(s)
      BY <1>1, <1>5, <2>2
    <3>3. k + 1 \in DOMAIN s /\ Tail(s)[k] = s[k + 1]
      BY <3>1, <3>2
    <3> QED BY <1>1, <2>2, <3>3 DEF IInv, Numbered
  <2> QED BY <2>1, <2>2
<1> QED BY <1>2, <1>3, <1>4, <1>5

\* The hello of a connection begins its count anew.
LEMMA HelloStep ==
    ASSUME IInv, NEW c \in Conns, Hello(c)
    PROVE  IInv'
<1>1. /\ TypeOK /\ ConnectionsTypeOK /\ MaxSeq \in Nat /\ emitted \in Nat
      /\ acked \in [Conns -> 0..MaxSeq]
  BY EventsAssumption DEF IInv, TypeOK
<1>2. /\ Arrives(c) /\ Head(up[c]) = 0 /\ Greets(c)
      /\ down' = Answer(c, << 0 >>) /\ acked' = [acked EXCEPT ![c] = 0]
      /\ UNCHANGED <<gw, emitted, unacked, informed, queue, pump, effective, handled, doubtful>>
  BY DEF Hello, Greets, gatewayVars
<1>3. Settled' = Settled
  BY <1>2 DEF Settled
<1>4. /\ FramesBacked' /\ GatewayBacked' /\ KeptOrSettled'
      /\ \A d \in Conns : \A k \in DOMAIN up'[d] : up'[d][k] <= emitted
  BY <1>2, <1>3, ArrivalBacked
<1>5. 0 \in 0..MaxSeq
  BY <1>1
<1>6. /\ down' \in [Conns -> Seq(0..MaxSeq)]
      /\ \A d \in Conns : \A k \in DOMAIN down'[d] :
           down'[d][k] = 0 \/ (k \in DOMAIN down[d] /\ down'[d][k] = down[d][k])
  BY <1>1, <1>2, <1>5, AnswerOf
<1>7. /\ acked' \in [Conns -> 0..MaxSeq] /\ acked'[c] = 0
      /\ \A d \in Conns \ {c} : acked'[d] = acked[d]
  BY <1>1, <1>2, <1>5
<1>8. TypeOK'
  <2>1. ConnectionsTypeOK'
    BY <1>1, <1>2, ConnectionTypes
  <2>2. up' \in [Conns -> Seq(0..MaxSeq)]
    BY <1>1, <1>2, ArrivesTypes
  <2> QED BY <1>1, <1>2, <1>6, <1>7, <2>1, <2>2 DEF TypeOK
<1>9. Numbered'
  <2>1. \A d \in Conns : \A k \in DOMAIN down'[d] : down'[d][k] <= emitted
    BY <1>1, <1>6 DEF IInv, Numbered
  <2>2. \A d \in Conns : acked'[d] <= emitted
    BY <1>1, <1>7 DEF IInv, Numbered
  <2> QED BY <1>2, <1>4, <2>1, <2>2 DEF IInv, Numbered
<1>10. QueueAscends'
  <2>1. ASSUME NEW d \in Conns, queue[d] # <<>> PROVE Head(queue[d]) > 0
    <3>1. queue[d] \in Seq(1..MaxSeq)
      BY <1>1, SeqTypes
    <3>2. Head(queue[d]) \in 1..MaxSeq
      BY <2>1, <3>1, TailOf
    <3> QED BY <1>1, <3>2
  <2> QED BY <1>2, <1>7, <2>1 DEF IInv, QueueAscends
<1>11. AcksSettled'
  <2>1. 1..0 = {}
    OBVIOUS
  <2> QED BY <1>3, <1>6, <1>7, <2>1 DEF IInv, AcksSettled
<1>12. QueueBacked'
  BY <1>2, <1>3 DEF IInv, QueueBacked
<1> QED BY <1>4, <1>8, <1>9, <1>10, <1>11, <1>12 DEF IInv

\* An event that is not put into the queue: it is settled, queued already or doubtful.
LEMMA EventPassed ==
    ASSUME IInv, NEW c \in Conns, Arrives(c),
           UNCHANGED <<connectionVars, gatewayVars, acked, effective, handled, queue, pump>>,
           down' = down \/ down' = Answer(c, <<acked[c]>>),
           doubtful \subseteq doubtful',
           Head(up[c]) \in Settled' \cup Frames(queue[c])
    PROVE  IInv'
<1>1. /\ TypeOK /\ ConnectionsTypeOK /\ acked[c] \in 0..MaxSeq /\ acked \in [Conns -> 0..MaxSeq]
      /\ down \in [Conns -> Seq(0..MaxSeq)]
  BY DEF IInv, TypeOK
<1>2. UNCHANGED <<ws, ready, current, gw, emitted, unacked, informed, queue, pump, acked, effective, handled>>
  BY DEF connectionVars, gatewayVars
<1>3. Settled \subseteq Settled'
  BY <1>2 DEF Settled
<1>4. /\ FramesBacked' /\ GatewayBacked' /\ KeptOrSettled'
      /\ \A d \in Conns : \A k \in DOMAIN up'[d] : up'[d][k] <= emitted
  BY <1>2, <1>3, ArrivalBacked
<1>5. /\ down' \in [Conns -> Seq(0..MaxSeq)]
      /\ \A d \in Conns : \A k \in DOMAIN down'[d] :
           down'[d][k] = acked[c] \/ (k \in DOMAIN down[d] /\ down'[d][k] = down[d][k])
  BY <1>1, AnswerOf
<1>6. TypeOK'
  <2>1. up' \in [Conns -> Seq(0..MaxSeq)]
    BY <1>1, ArrivesTypes
  <2> QED BY <1>1, <1>2, <1>5, <2>1 DEF TypeOK, ConnectionsTypeOK
<1>7. Numbered'
  <2>1. \A d \in Conns : \A k \in DOMAIN down'[d] : down'[d][k] <= emitted
    BY <1>5 DEF IInv, Numbered
  <2> QED BY <1>2, <1>4, <2>1 DEF IInv, Numbered
<1>8. QueueAscends'
  BY <1>2 DEF IInv, QueueAscends
<1>9. AcksSettled'
  BY <1>2, <1>3, <1>5 DEF IInv, AcksSettled
<1>10. QueueBacked'
  <2>1. ASSUME NEW d \in Conns PROVE Backed(queue[d], Settled')
    BY <1>3, BackedMore DEF IInv, QueueBacked
  <2> QED BY <1>2, <2>1 DEF QueueBacked
<1> QED BY <1>4, <1>6, <1>7, <1>8, <1>9, <1>10 DEF IInv

\* An event that is put into the queue: everything below it is settled or in the queue.
LEMMA EventQueued ==
    ASSUME IInv, NEW c \in Conns, Arrives(c), Head(up[c]) # 0,
           UNCHANGED <<connectionVars, gatewayVars, acked, effective, handled, down, doubtful>>,
           Head(up[c]) > acked[c], ~Queued(c, Head(up[c])),
           queue' = [queue EXCEPT ![c] = Append(@, Head(up[c]))],
           pump' = [pump EXCEPT ![c] = IF @ = "idle" THEN Pumped(c, queue'[c]) ELSE @]
    PROVE  IInv'
<1> DEFINE Pumps == {"idle", "delivering", "waiting"}
           e == Head(up[c])
           q == queue[c]
           r == Append(q, e)
<1>1. /\ TypeOK /\ ConnectionsTypeOK /\ emitted \in 0..MaxSeq /\ MaxSeq \in Nat /\ acked[c] \in Nat
      /\ q \in Seq(1..MaxSeq) /\ q \in Seq(Nat) /\ Events = 1..MaxSeq
      /\ queue \in [Conns -> Seq(Events)] /\ pump \in [Conns -> Pumps]
  BY SeqTypes DEF IInv, TypeOK, Events
<1>2. UNCHANGED <<ws, ready, current, gw, emitted, unacked, informed, acked, effective, handled, down, doubtful>>
  BY DEF connectionVars, gatewayVars
<1>3. up[c] # <<>> /\ up[c] \in Seq(0..MaxSeq) /\ e \in 0..MaxSeq /\ up' \in [Conns -> Seq(0..MaxSeq)]
  BY <1>1, ArrivesTypes, SeqTypes
<1>4. e \in 1..MaxSeq /\ e \in 1..emitted /\ e \in Nat
  <2>1. 1 \in DOMAIN up[c] /\ e = up[c][1]
    BY <1>3, TailOf
  <2>2. e <= emitted
    BY <2>1 DEF IInv, Numbered
  <2> QED BY <1>1, <1>3, <2>2
<1>5. Settled' = Settled
  BY <1>2 DEF Settled
<1>6. 1..(e - 1) \subseteq Settled \cup Frames(q)
  <2>1. 1 \in DOMAIN up[c] /\ e = up[c][1] /\ \A j \in DOMAIN up[c] : ~(j < 1)
    BY <1>3, TailOf
  <2> QED BY <2>1 DEF IInv, FramesBacked, Backed
<1> HIDE DEF e
<1>7. /\ r \in Seq(1..MaxSeq) /\ r # <<>>
      /\ Len(q) \in Nat /\ DOMAIN q = 1..Len(q) /\ DOMAIN r = 1..(Len(q) + 1)
      /\ \A k \in 1..Len(q) : r[k] = q[k]
      /\ r[Len(q) + 1] = e
  BY <1>1, <1>4, AppendOf
<1>8. Backed(r, Settled) /\ Frames(r) = Frames(q) \cup {e}
  <2>1. Backed(q, Settled)
    BY DEF IInv, QueueBacked
  <2> HIDE DEF q
  <2> QED BY <1>1, <1>4, <1>6, <2>1, BackedAppend
<1>9. \A i, j \in DOMAIN r : i < j => r[i] < r[j]
  <2>1. \A i, j \in DOMAIN q : i < j => q[i] < q[j]
    BY DEF IInv, QueueAscends
  <2>0. Len(q) \in Nat /\ DOMAIN q = 1..Len(q)
    BY <1>7
  <2>2. ASSUME NEW i \in 1..Len(q) PROVE q[i] < e
    <3>1. q # <<>> /\ q[Len(q)] \in Nat /\ q[i] \in Nat /\ Len(q) \in DOMAIN q
      BY <1>1, <1>7, <2>2, ElementOfSeq, EmptySeq
    <3>2. q[Len(q)] < e
      BY <1>4, <3>1 DEF Queued, e
    <3>3. q[i] <= q[Len(q)]
      <4> HIDE DEF q, r
      <4>1. CASE i = Len(q)
        BY <3>1, <4>1
      <4>2. CASE i # Len(q)
        <5>1. i \in DOMAIN q /\ i < Len(q)
          <6> DEFINE n == Len(q)
          <6>1. n \in Nat /\ i \in 1..n /\ i # n /\ DOMAIN q = 1..n
            BY <2>0, <2>2, <4>2
          <6> HIDE DEF n
          <6>2. i \in 1..n /\ i < n
            BY <6>1
          <6> QED BY <6>1, <6>2 DEF n
        <5>2. q[i] < q[Len(q)]
          BY <2>1, <3>1, <5>1
        <5> QED BY <3>1, <5>2
      <4> QED BY <4>1, <4>2
    <3> QED BY <1>4, <3>1, <3>2, <3>3
  <2>3. ASSUME NEW i \in DOMAIN r, NEW j \in DOMAIN r, i < j PROVE r[i] < r[j]
    <3> HIDE DEF r, q
    <3>1. CASE j \in 1..Len(q)
      <4>1. i \in 1..Len(q)
        BY <1>7, <2>3, <3>1
      <4> QED BY <1>7, <2>1, <2>3, <3>1, <4>1
    <3>2. CASE j = Len(q) + 1
      <4>1. i \in 1..Len(q)
        BY <1>7, <2>3, <3>2
      <4> QED BY <1>7, <2>2, <3>2, <4>1
    <3> QED BY <1>7, <2>3, <3>1, <3>2
  <2> QED BY <2>3
<1>10. Head(r) > acked[c]
  <2>1. Head(r) = r[1] /\ 1 \in 1..(Len(q) + 1)
    BY <1>7, TailOf
  <2>2. CASE q = <<>>
    <3>1. Len(q) = 0
      BY <2>2
    <3> QED BY <1>7, <2>1, <3>1 DEF e
  <2>3. CASE q # <<>>
    <3>1. Head(q) > acked[c]
      BY <2>3 DEF IInv, QueueAscends
    <3>2. 1 \in 1..Len(q) /\ Head(q) = q[1]
      BY <1>1, <2>3, TailOf
    <3> QED BY <1>7, <2>1, <3>1, <3>2
  <2> QED BY <2>2, <2>3
<1>11. /\ queue'[c] = r /\ \A d \in Conns \ {c} : queue'[d] = queue[d]
       /\ queue' \in [Conns -> Seq(Events)]
  BY <1>1, <1>7 DEF e
<1> HIDE DEF r
<1>12. /\ FramesBacked' /\ GatewayBacked' /\ KeptOrSettled'
       /\ \A d \in Conns : \A k \in DOMAIN up'[d] : up'[d][k] <= emitted
  <2>1. \A d \in Conns : Frames(queue[d]) \subseteq Frames(queue'[d])
    BY <1>8, <1>11
  <2>2. Head(up[c]) \in Settled' \cup Frames(queue'[c])
    BY <1>8, <1>11 DEF e
  <2> QED BY <1>2, <1>5, <2>1, <2>2, ArrivalBacked
<1>13. TypeOK'
  <2>1. pump' \in [Conns -> Pumps] /\ \A d \in Conns : pump'[d] # "idle" => queue'[d] # <<>>
    <3>1. \A d \in Conns : pump[d] # "idle" => queue[d] # <<>>
      BY <1>1 DEF TypeOK
    <3> QED BY <1>1, <1>7, <1>11, <3>1 DEF Pumped
  <2> QED BY <1>1, <1>2, <1>3, <1>11, <2>1 DEF TypeOK, ConnectionsTypeOK
<1>14. Numbered'
  <2>1. \A k \in DOMAIN r : r[k] <= emitted
    <3>1. \A k \in DOMAIN q : q[k] <= emitted
      BY DEF IInv, Numbered
    <3>2. e <= emitted
      BY <1>1, <1>4
    <3>3. ASSUME NEW k \in DOMAIN r PROVE r[k] <= emitted
      <4> HIDE DEF q
      <4>1. CASE k \in 1..Len(q)
        BY <1>7, <3>1, <4>1
      <4>2. CASE k = Len(q) + 1
        BY <1>7, <3>2, <4>2
      <4> QED BY <1>7, <3>3, <4>1, <4>2
    <3> QED BY <3>3
  <2> QED BY <1>2, <1>11, <1>12, <2>1 DEF IInv, Numbered
<1>15. QueueAscends'
  BY <1>2, <1>9, <1>10, <1>11 DEF IInv, QueueAscends
<1>16. AcksSettled'
  BY <1>2, <1>5 DEF IInv, AcksSettled
<1>17. QueueBacked'
  BY <1>5, <1>8, <1>11 DEF IInv, QueueBacked
<1> QED BY <1>12, <1>13, <1>14, <1>15, <1>16, <1>17 DEF IInv

\* An event that arrives: switched off, delivered before, queued already, no room, or
\* queued now.
LEMMA EventStep ==
    ASSUME IInv, NEW c \in Conns, Event(c)
    PROVE  /\ IInv'
           /\ UNCHANGED <<emitted, unacked, handled>>
           /\ Head(up[c]) \in 1..emitted
           /\ doubtful' = doubtful \/ doubtful' = doubtful \cup {Head(up[c])}
<1> DEFINE e == Head(up[c])
           q == queue[c]
<1>1. /\ TypeOK /\ emitted \in Nat /\ acked[c] \in Nat /\ q \in Seq(Nat) /\ up[c] \in Seq(Nat)
  BY SeqTypes DEF IInv
<1>2. /\ Arrives(c) /\ e # 0 /\ up[c] # <<>>
      /\ UNCHANGED <<connectionVars, gatewayVars, acked, effective, handled>>
  BY DEF Event, Arrives
<1>3. e \in 1..emitted /\ e \in Nat \ {0}
  <2>1. 1 \in DOMAIN up[c] /\ e = up[c][1] /\ e \in Nat
    BY <1>1, <1>2, TailOf
  <2>2. e <= emitted
    BY <2>1 DEF IInv, Numbered
  <2> QED BY <1>1, <1>2, <2>1, <2>2
<1>4. UNCHANGED <<emitted, unacked, handled>>
  BY <1>2 DEF gatewayVars
<1>5. CASE doubtful' = doubtful \cup {e} /\ UNCHANGED <<down, queue, pump>>
  <2>1. e \in Settled' /\ doubtful \subseteq doubtful'
    BY <1>5 DEF Settled
  <2> QED BY <1>2, <1>3, <1>4, <1>5, <2>1, EventPassed
<1>6. CASE e <= acked[c] /\ down' = Answer(c, <<acked[c]>>) /\ UNCHANGED <<queue, pump, doubtful>>
  <2>1. Settled' = Settled /\ e \in Settled
    BY <1>1, <1>2, <1>3, <1>6 DEF IInv, AcksSettled, Settled
  <2> QED BY <1>2, <1>3, <1>4, <1>6, <2>1, EventPassed
<1>7. CASE Queued(c, e) /\ UNCHANGED <<down, queue, pump, doubtful>>
  <2>1. Settled' = Settled
    BY <1>2, <1>7 DEF Settled
  <2>2. q # <<>> /\ e <= q[Len(q)]
    <3>1. q # <<>> /\ q[Len(q)] >= e
      BY <1>7 DEF Queued
    <3>2. Len(q) \in DOMAIN q
      BY <1>1, <3>1, TailOf
    <3>3. q[Len(q)] \in Nat
      <4> HIDE DEF q
      <4>1. Len(q) \in 1..Len(q)
        BY <1>1, <3>2, LenProperties
      <4> QED BY <1>1, <4>1, ElementOfSeq
    <3> HIDE DEF q
    <3> QED BY <1>3, <3>1, <3>3
  <2>3. e \in Settled \cup Frames(q)
    <3>1. Backed(q, Settled)
      BY DEF IInv, QueueBacked
    <3> HIDE DEF q, e
    <3> QED BY <1>1, <1>3, <2>2, <3>1, BackedLast
  <2> QED BY <1>2, <1>3, <1>4, <1>7, <2>1, <2>3, EventPassed
<1>8. CASE /\ e > acked[c] /\ ~Queued(c, e)
           /\ queue' = [queue EXCEPT ![c] = Append(@, e)]
           /\ pump' = [pump EXCEPT ![c] = IF @ = "idle" THEN Pumped(c, queue'[c]) ELSE @]
           /\ UNCHANGED <<down, doubtful>>
  BY <1>2, <1>3, <1>4, <1>8, EventQueued
<1>9. ~(e <= acked[c]) => e > acked[c]
  BY <1>1, <1>3
<1> QED BY <1>5, <1>6, <1>7, <1>8, <1>9 DEF Event, Taken

-----------------------------------------------------------------------------
(* The invariant, and the promise kept step by step *)

\* A step of the promise, or none of it.
Kept == [Promise!Next]_<<emitted, unacked, handled, doubtful>>

\* A step that changes nothing keeps the invariant.
LEMMA StutterStep == IInv /\ UNCHANGED vars => IInv'
<1> SUFFICES ASSUME IInv, UNCHANGED vars PROVE IInv'
  OBVIOUS
<1>1. UNCHANGED <<ws, ready, current, gw, emitted, unacked, informed, up, down, queue, pump, acked,
                  effective, handled, doubtful>>
  BY DEF vars, connectionVars, gatewayVars, pumpVars
<1>2. TypeOK' /\ Numbered' /\ QueueAscends'
  BY <1>1 DEF IInv, TypeOK, ConnectionsTypeOK, Numbered, QueueAscends
<1>3. AcksSettled' /\ QueueBacked' /\ FramesBacked' /\ GatewayBacked' /\ KeptOrSettled'
  BY <1>1 DEF IInv, AcksSettled, QueueBacked, FramesBacked, GatewayBacked, KeptOrSettled, Settled
<1> QED BY <1>2, <1>3 DEF IInv

\* An event whose handlers run was the oldest that was not settled.
LEMMA HandleKept ==
    ASSUME IInv, NEW c \in Conns, pump[c] = "delivering",
           handled' = handled \/ handled' = handled \cup {Head(queue[c])},
           UNCHANGED <<emitted, unacked, doubtful>>
    PROVE  Kept
<1>1. Head(queue[c]) \in 1..emitted /\ 1..(Head(queue[c]) - 1) \subseteq handled \cup doubtful
  BY HeadOfQueue DEF Settled
<1>2. CASE handled' = handled
  BY <1>2 DEF Kept
<1>3. CASE handled' = handled \cup {Head(queue[c])}
  <2>1. Promise!Handle(Head(queue[c]))
    BY <1>1, <1>3 DEF Promise!Handle, Promise!Settled
  <2> QED BY <1>1, <2>1 DEF Kept, Promise!Next
<1> QED BY <1>2, <1>3

\* The steps of one connection and of the hub.
LEMMA HubStep ==
    ASSUME IInv, NEW c \in Conns, Connect(c) \/ Hub(c)
    PROVE  IInv' /\ Kept
<1>1. CASE Hello(c)
  <2>1. UNCHANGED <<emitted, unacked, handled, doubtful>>
    BY <1>1 DEF Hello, gatewayVars
  <2> QED BY <1>1, <2>1, HelloStep DEF Kept
<1>2. CASE Event(c)
  <2>1. /\ IInv' /\ UNCHANGED <<emitted, unacked, handled>> /\ Head(up[c]) \in 1..emitted
        /\ doubtful' = doubtful \/ doubtful' = doubtful \cup {Head(up[c])}
    BY <1>2, EventStep
  <2>2. CASE doubtful' = doubtful
    BY <2>1, <2>2 DEF Kept
  <2>3. CASE doubtful' = doubtful \cup {Head(up[c])}
    <3>1. Promise!Doubt(Head(up[c]))
      BY <2>1, <2>3 DEF Promise!Doubt
    <3> QED BY <2>1, <3>1 DEF Kept, Promise!Next
  <2> QED BY <2>1, <2>2, <2>3
<1>3. CASE Delivered(c)
  <2>1. /\ pump[c] = "delivering" /\ handled' = handled \cup {Head(queue[c])}
        /\ UNCHANGED <<emitted, unacked, doubtful>>
    BY <1>3 DEF Delivered, gatewayVars
  <2> QED BY <1>3, <2>1, DeliveredStep, HandleKept
<1>4. CASE DeliveryFails(c)
  <2>1. /\ pump[c] = "delivering" /\ handled' \in {handled, handled \cup {Head(queue[c])}}
        /\ UNCHANGED <<emitted, unacked, doubtful>>
    BY <1>4 DEF DeliveryFails, gatewayVars
  <2> QED BY <1>4, <2>1, DeliveryFailsStep, HandleKept
<1>5. CASE Retry(c) \/ Drop(c) \/ Close(c) \/ Connect(c)
  <2>1. UNCHANGED <<emitted, unacked, handled, doubtful>>
    BY <1>5 DEF Retry, Drop, Close, Connect, gatewayVars
  <2> QED BY <1>5, <2>1, LosingSteps DEF Kept
<1> QED BY <1>1, <1>2, <1>3, <1>4, <1>5 DEF Hub

\* The steps of the gateway, the server's restart and the administrator's switch.
LEMMA OtherStep ==
    ASSUME IInv, Gateway \/ Switch \/ ServerRestart
    PROVE  IInv' /\ Kept
<1>0. ASSUME NEW d \in 0..MaxConns, d # 0 PROVE d \in Conns
  BY <1>0, ConnectionsAssumption DEF Conns
<1>1. gw \in 0..MaxConns /\ current \in 0..MaxConns
  BY DEF IInv, TypeOK, ConnectionsTypeOK
<1>2. CASE Emit
  <2>1. /\ IInv' /\ emitted' = emitted + 1 /\ unacked' = unacked \cup {emitted'}
        /\ handled' = handled /\ doubtful' \in {doubtful, doubtful \cup unacked}
    BY <1>2, EmitStep
  <2>2. Promise!Emit
    BY <2>1 DEF Promise!Emit
  <2> QED BY <2>1, <2>2 DEF Kept, Promise!Next
<1>3. CASE Leave
  <2>1. gw \in Conns /\ UNCHANGED <<emitted, unacked, handled, doubtful>>
    BY <1>0, <1>1, <1>3 DEF Leave, Leaves
  <2> QED BY <1>3, <2>1, LosingSteps DEF Kept
<1>4. CASE GatewayState
  <2>1. UNCHANGED <<emitted, unacked, handled, doubtful>>
    BY <1>4 DEF GatewayState
  <2> QED BY <1>4, <2>1, StateStep DEF Kept
<1>5. CASE GatewayAck
  <2>1. IInv' /\ UNCHANGED <<emitted, handled, doubtful>>
    BY <1>5, AckStep DEF GatewayAck
  <2>2. PICK n \in 1..emitted : unacked \cap 1..n \subseteq Settled /\ unacked' = unacked \ 1..n
    BY <1>5, AckStep
  <2>3. Promise!Forget(n)
    BY <2>1, <2>2 DEF Promise!Forget, Promise!Settled, Settled
  <2> QED BY <2>1, <2>2, <2>3 DEF Kept, Promise!Next
<1>6. CASE Switch
  <2>1. UNCHANGED <<emitted, unacked, handled, doubtful>>
    BY <1>6 DEF Switch, gatewayVars
  <2> QED BY <1>6, <2>1, SwitchStep DEF Kept
<1>7. CASE ServerRestart
  <2>1. current \in Conns /\ UNCHANGED <<emitted, unacked, handled, doubtful>>
    BY <1>0, <1>1, <1>7 DEF ServerRestart
  <2> QED BY <1>7, <2>1, LosingSteps DEF Kept
<1> QED BY <1>2, <1>3, <1>4, <1>5, <1>6, <1>7 DEF Gateway

\* Every step keeps the invariant and the promise.
LEMMA NextStep == IInv /\ [Next]_vars => IInv' /\ Kept
<1> SUFFICES ASSUME IInv, [Next]_vars PROVE IInv' /\ Kept
  OBVIOUS
<1>1. CASE Next
  BY <1>1, HubStep, OtherStep DEF Next
<1>2. CASE UNCHANGED vars
  <2>1. UNCHANGED <<emitted, unacked, handled, doubtful>>
    BY <1>2 DEF vars, gatewayVars
  <2> QED BY <1>2, <2>1, StutterStep DEF Kept
<1> QED BY <1>1, <1>2

\* The invariant holds in every state of every behaviour.
THEOREM Inductive == Spec => []IInv
<1> QED BY InitInv, NextStep, PTL DEF Spec

\* The variables keep their types.
THEOREM TypeCorrect == Spec => []TypeOK
<1>1. IInv => TypeOK
  BY DEF IInv
<1> QED BY Inductive, <1>1, PTL

\* Within one connection events are handed over and acknowledged in ascending order.
THEOREM QueueAscending == Spec => []QueueAscends
<1>1. IInv => QueueAscends
  BY DEF IInv
<1> QED BY Inductive, <1>1, PTL

\* The channel implements its promise: over reconnects, failed deliveries and restarts the
\* gateway keeps an event until it was handled, and events are handled in their order, the
\* doubtful ones apart.
THEOREM Refinement == Spec => PromiseKept
<1>1. Init => Promise!Init
  BY DEF Init, Promise!Init
<1>2. IInv /\ [Next]_vars => [Promise!Next]_Promise!vars
  BY NextStep DEF Kept, Promise!vars
<1> QED BY Inductive, <1>1, <1>2, PTL DEF Spec, PromiseKept, Promise!Spec
=============================================================================
