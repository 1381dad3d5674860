--------------------------- MODULE LogSystemProofs ---------------------------
(***************************************************************************)
(* Listeners are served, for any sets of threads, channels and listeners   *)
(* and any lengths of messages and history.                                *)
(*                                                                         *)
(* A message is queued on one channel, then settled for good; the step     *)
(* that settles it gives a call with it to each listener of the moment.    *)
(* So a listener that has, or will get, a message got it when the message  *)
(* was settled, or by its one replay, which runs before it is in any list  *)
(* and replays settled messages only.                                      *)
(***************************************************************************)
EXTENDS LogSystem, SequenceFilterProofs

-----------------------------------------------------------------------------
(* The calls a thread may be in.                                           *)
Frames ==
  [at : {"write"}, channel : Channels]
    \cup [at : {"dispatch"}, todo : SUBSET Channels, upTo : Nat]
    \cup [at : {"deliver"}, messages : Seq(Messages), called : Seq(AllListeners), done : Nat]
    \cup [at : {"callback"}]
    \cup [at : {"register"}, listener : Listeners, flush : BOOLEAN, since : Nat]

LogTypeOK ==
  /\ loggers \in SUBSET Channels
  /\ listeners \in Seq(Listeners)
  /\ ownListeners \in [Channels -> Seq(OwnListeners)]
  /\ pending \in [Channels -> Seq(Messages)]
  /\ history \in [Channels -> Seq(Messages)]
  /\ numMessages \in Nat /\ numMessages <= MaxMessages
  /\ stack \in [Threads -> Seq(Frames)]
  /\ received \in [AllListeners -> [Messages -> Nat]]
  /\ registration \in [AllListeners -> [used : BOOLEAN, skipsUpTo : Nat, missed : SUBSET Nat]]

(* The messages that have left the queues.                                 *)
Settled == Written \ Pending

(* No message is queued twice, nor queued once it is history.              *)
QueueInv ==
  /\ \A c \in Channels : Distinct(pending[c]) /\ ToSet(pending[c]) \subseteq Written
  /\ \A c, d \in Channels : c # d => ToSet(pending[c]) \cap ToSet(pending[d]) = {}
  /\ \A c \in Channels : ToSet(history[c]) \subseteq Settled

(* The channels a dispatch has served hold only what was written since.    *)
Served(frame) ==
  frame.at = "dispatch" =>
    /\ frame.upTo <= numMessages
    /\ \A c \in loggers \ frame.todo : \A m \in ToSet(pending[c]) : m > frame.upTo

DispatchInv == \A t \in Threads : \A i \in DOMAIN stack[t] : Served(stack[t][i])

(* RegisterListener takes the mutex once its own dispatch has returned.    *)
RegisterInv ==
  \A t \in Threads : \A i \in DOMAIN stack[t] : stack[t][i].at = "register" =>
    /\ stack[t][i].since <= numMessages
    /\ i < Len(stack[t]) => /\ stack[t][i + 1].at = "dispatch"
                            /\ stack[t][i + 1].upTo = stack[t][i].since
    /\ i = Len(stack[t]) => \A c \in loggers : \A m \in ToSet(pending[c]) : m > stack[t][i].since

(* A delivery hands settled messages, each once, to distinct listeners.    *)
GoodDelivery(frame) ==
  frame.at = "deliver" =>
    /\ Distinct(frame.messages) /\ ToSet(frame.messages) \subseteq Settled
    /\ Distinct(frame.called)
    /\ frame.called # <<>> => frame.done < Len(frame.called)

DeliveryInv == \A t \in Threads : \A i \in DOMAIN stack[t] : GoodDelivery(stack[t][i])

(* A frame has a call of l with m to make; l has, or will get, m.          *)
Has(frame, l, m) ==
  /\ frame.at = "deliver"
  /\ \E k \in DOMAIN frame.messages, j \in DOMAIN frame.called : Owes(frame, k, j, l, m)

Got(l, m) ==
  \/ received[l][m] # 0
  \/ \E t \in Threads : \E i \in DOMAIN stack[t] : Has(stack[t][i], l, m)

(* A call is made once and stands in one frame.                            *)
OnceInv ==
  \A l \in AllListeners, m \in Messages :
    /\ received[l][m] \in {0, 1}
    /\ received[l][m] # 0 => m \in Settled
    /\ \A t \in Threads : \A i \in DOMAIN stack[t] : Has(stack[t][i], l, m) =>
         /\ received[l][m] = 0
         /\ \A u \in Threads : \A h \in DOMAIN stack[u] :
              Has(stack[u][h], l, m) => u = t /\ h = i

(* Frame i of thread t is the registration of l.                           *)
Registers(t, i, l) == stack[t][i].at = "register" /\ stack[t][i].listener = l

(* Before its registration a listener is in no list and has got nothing.   *)
Unknown(l) ==
  /\ l \notin ToSet(listeners)
  /\ \A c \in Channels : l \notin ToSet(ownListeners[c])
  /\ \A m \in Messages : ~Got(l, m)

ListInv ==
  /\ Distinct(listeners)
  /\ \A c \in Channels : Distinct(ownListeners[c])
  /\ \A l \in AllListeners : ~registration[l].used =>
       /\ Unknown(l)
       /\ \A t \in Threads : \A i \in DOMAIN stack[t] : ~Registers(t, i, l)
  /\ \A l \in Listeners, t \in Threads : \A i \in DOMAIN stack[t] : Registers(t, i, l) =>
       /\ Unknown(l)
       /\ \A u \in Threads : \A h \in DOMAIN stack[u] : Registers(u, h, l) => u = t /\ h = i

(* What a listener is due it has or will get; what it skips it never gets. *)
ServiceInv ==
  /\ \A l \in AllListeners : \A m \in Due(l) : Got(l, m)
  /\ \A l \in Listeners : \A m \in 1 .. registration[l].skipsUpTo : m \in Settled /\ ~Got(l, m)

LogInv ==
  /\ LogTypeOK
  /\ QueueInv
  /\ DispatchInv
  /\ RegisterInv
  /\ DeliveryInv
  /\ OnceInv
  /\ ListInv
  /\ ServiceInv
-----------------------------------------------------------------------------
(* What the stack of a thread is after its calls.                          *)
LEMMA SeqTop ==
  ASSUME NEW F, NEW s \in Seq(F), s # <<>>
  PROVE  /\ Len(s) \in Nat \ {0} /\ DOMAIN s = 1 .. Len(s)
         /\ Last(s) = s[Len(s)] /\ Last(s) \in F
         /\ Front(s) \in Seq(F) /\ Len(Front(s)) = Len(s) - 1
         /\ \A i \in 1 .. Len(s) - 1 : Front(s)[i] = s[i]
  BY DEF Last, Front

LEMMA SeqPush ==
  ASSUME NEW F, NEW s \in Seq(F), NEW f \in F, NEW g \in F
  PROVE  /\ s \o <<f>> \in Seq(F) /\ Len(s \o <<f>>) = Len(s) + 1
         /\ \A i \in 1 .. Len(s) : (s \o <<f>>)[i] = s[i]
         /\ (s \o <<f>>)[Len(s) + 1] = f
         /\ s \o <<f, g>> \in Seq(F) /\ Len(s \o <<f, g>>) = Len(s) + 2
         /\ \A i \in 1 .. Len(s) : (s \o <<f, g>>)[i] = s[i]
         /\ (s \o <<f, g>>)[Len(s) + 1] = f
         /\ (s \o <<f, g>>)[Len(s) + 2] = g
  <1>1. <<f>> \in Seq(F) /\ <<f, g>> \in Seq(F) /\ Len(<<f>>) = 1 /\ Len(<<f, g>>) = 2
    OBVIOUS
  <1>2. Len(s) \in Nat
    OBVIOUS
  <1> QED
    BY <1>1, <1>2


LEMMA Pushed ==
  ASSUME NEW t \in Threads, stack \in [Threads -> Seq(Frames)], NEW f \in Frames, Push(t, <<f>>)
  PROVE  /\ stack' \in [Threads -> Seq(Frames)]
         /\ \A u \in Threads : u # t => stack'[u] = stack[u]
         /\ Len(stack'[t]) = Len(stack[t]) + 1
         /\ \A i \in 1 .. Len(stack[t]) : stack'[t][i] = stack[t][i]
         /\ stack'[t][Len(stack[t]) + 1] = f
  <1>1. stack[t] \in Seq(Frames)
    OBVIOUS
  <1>2. stack' = [stack EXCEPT ![t] = stack[t] \o <<f>>]
    BY DEF Push
  <1>3. stack'[t] = stack[t] \o <<f>> /\ stack[t] \o <<f>> \in Seq(Frames)
    BY <1>1, <1>2, SeqPush
  <1>4. /\ Len(stack[t] \o <<f>>) = Len(stack[t]) + 1
        /\ \A i \in 1 .. Len(stack[t]) : (stack[t] \o <<f>>)[i] = stack[t][i]
        /\ (stack[t] \o <<f>>)[Len(stack[t]) + 1] = f
    BY <1>1, SeqPush
  <1> QED
    BY <1>1, <1>2, <1>3, <1>4

LEMMA PushedTwo ==
  ASSUME NEW t \in Threads, stack \in [Threads -> Seq(Frames)], NEW f \in Frames, NEW g \in Frames,
         Push(t, <<f, g>>)
  PROVE  /\ stack' \in [Threads -> Seq(Frames)]
         /\ \A u \in Threads : u # t => stack'[u] = stack[u]
         /\ Len(stack'[t]) = Len(stack[t]) + 2
         /\ \A i \in 1 .. Len(stack[t]) : stack'[t][i] = stack[t][i]
         /\ stack'[t][Len(stack[t]) + 1] = f
         /\ stack'[t][Len(stack[t]) + 2] = g
  <1>1. stack[t] \in Seq(Frames)
    OBVIOUS
  <1>2. stack' = [stack EXCEPT ![t] = stack[t] \o <<f, g>>]
    BY DEF Push
  <1>3. stack'[t] = stack[t] \o <<f, g>> /\ stack[t] \o <<f, g>> \in Seq(Frames)
    BY <1>1, <1>2, SeqPush
  <1>4. /\ Len(stack[t] \o <<f, g>>) = Len(stack[t]) + 2
        /\ \A i \in 1 .. Len(stack[t]) : (stack[t] \o <<f, g>>)[i] = stack[t][i]
        /\ (stack[t] \o <<f, g>>)[Len(stack[t]) + 1] = f
        /\ (stack[t] \o <<f, g>>)[Len(stack[t]) + 2] = g
    BY <1>1, SeqPush
  <1> QED
    BY <1>1, <1>2, <1>3, <1>4

LEMMA Popped ==
  ASSUME NEW t \in Threads, stack \in [Threads -> Seq(Frames)], stack[t] # <<>>, Pop(t)
  PROVE  /\ stack' \in [Threads -> Seq(Frames)]
         /\ \A u \in Threads : u # t => stack'[u] = stack[u]
         /\ Len(stack'[t]) = Len(stack[t]) - 1
         /\ \A i \in 1 .. Len(stack[t]) - 1 : stack'[t][i] = stack[t][i]
  <1>1. stack[t] \in Seq(Frames)
    OBVIOUS
  <1>2. stack' = [stack EXCEPT ![t] = Front(stack[t])]
    BY DEF Pop
  <1>3. /\ Front(stack[t]) \in Seq(Frames) /\ Len(Front(stack[t])) = Len(stack[t]) - 1
        /\ \A i \in 1 .. Len(stack[t]) - 1 : Front(stack[t])[i] = stack[t][i]
    BY <1>1, SeqTop
  <1> QED
    BY <1>1, <1>2, <1>3

LEMMA Replaced ==
  ASSUME NEW t \in Threads, stack \in [Threads -> Seq(Frames)], stack[t] # <<>>,
         NEW f \in Frames, Replace(t, <<f>>)
  PROVE  /\ stack' \in [Threads -> Seq(Frames)]
         /\ \A u \in Threads : u # t => stack'[u] = stack[u]
         /\ Len(stack'[t]) = Len(stack[t])
         /\ \A i \in 1 .. Len(stack[t]) - 1 : stack'[t][i] = stack[t][i]
         /\ stack'[t][Len(stack[t])] = f
  <1>1. stack[t] \in Seq(Frames)
    OBVIOUS
  <1>2. stack' = [stack EXCEPT ![t] = Front(stack[t]) \o <<f>>]
    BY DEF Replace
  <1>3. PICK s \in Seq(Frames) : s = Front(stack[t])
    BY <1>1, SeqTop
  <1>4. /\ Len(s) = Len(stack[t]) - 1 /\ Len(stack[t]) \in Nat \ {0}
        /\ \A i \in 1 .. Len(stack[t]) - 1 : s[i] = stack[t][i]
    BY <1>1, <1>3, SeqTop
  <1>5. /\ s \o <<f>> \in Seq(Frames) /\ Len(s \o <<f>>) = Len(s) + 1
        /\ \A i \in 1 .. Len(s) : (s \o <<f>>)[i] = s[i]
        /\ (s \o <<f>>)[Len(s) + 1] = f
    BY SeqPush
  <1>6. stack'[t] = s \o <<f>>
    BY <1>2, <1>3
  <1> QED
    BY <1>2, <1>3, <1>4, <1>5, <1>6

LEMMA ReplacedTwo ==
  ASSUME NEW t \in Threads, stack \in [Threads -> Seq(Frames)], stack[t] # <<>>,
         NEW f \in Frames, NEW g \in Frames, Replace(t, <<f, g>>)
  PROVE  /\ stack' \in [Threads -> Seq(Frames)]
         /\ \A u \in Threads : u # t => stack'[u] = stack[u]
         /\ Len(stack'[t]) = Len(stack[t]) + 1
         /\ \A i \in 1 .. Len(stack[t]) - 1 : stack'[t][i] = stack[t][i]
         /\ stack'[t][Len(stack[t])] = f
         /\ stack'[t][Len(stack[t]) + 1] = g
  <1>1. stack[t] \in Seq(Frames)
    OBVIOUS
  <1>2. stack' = [stack EXCEPT ![t] = Front(stack[t]) \o <<f, g>>]
    BY DEF Replace
  <1>3. PICK s \in Seq(Frames) : s = Front(stack[t])
    BY <1>1, SeqTop
  <1>4. /\ Len(s) = Len(stack[t]) - 1 /\ Len(stack[t]) \in Nat \ {0}
        /\ \A i \in 1 .. Len(stack[t]) - 1 : s[i] = stack[t][i]
    BY <1>1, <1>3, SeqTop
  <1>5. /\ s \o <<f, g>> \in Seq(Frames) /\ Len(s \o <<f, g>>) = Len(s) + 2
        /\ \A i \in 1 .. Len(s) : (s \o <<f, g>>)[i] = s[i]
        /\ (s \o <<f, g>>)[Len(s) + 1] = f
        /\ (s \o <<f, g>>)[Len(s) + 2] = g
    BY SeqPush
  <1>6. stack'[t] = s \o <<f, g>>
    BY <1>2, <1>3
  <1> QED
    BY <1>2, <1>3, <1>4, <1>5, <1>6
LEMMA AtTop ==
  ASSUME NEW t \in Threads, stack \in [Threads -> Seq(Frames)], NEW where, IsAt(t, where)
  PROVE  /\ stack[t] # <<>> /\ Len(stack[t]) \in Nat \ {0} /\ DOMAIN stack[t] = 1 .. Len(stack[t])
         /\ Top(t) = stack[t][Len(stack[t])] /\ Top(t) \in Frames /\ Top(t).at = where
  <1>1. stack[t] \in Seq(Frames) /\ stack[t] # <<>> /\ Top(t) = Last(stack[t])
    BY DEF IsAt, Top
  <1> QED
    BY <1>1, SeqTop DEF IsAt

LEMMA Callable ==
  ASSUME NEW t, CanCall(t)
  PROVE  stack[t] = <<>> \/ IsAt(t, "callback")
  BY Zenon DEF CanCall

(* The fields of a frame.                                                  *)
LEMMA FrameFields ==
  ASSUME NEW f \in Frames
  PROVE  /\ f.at = "write" => f.channel \in Channels
         /\ f.at = "dispatch" => f.todo \in SUBSET Channels /\ f.upTo \in Nat
         /\ f.at = "deliver" => f.messages \in Seq(Messages) /\ f.called \in Seq(AllListeners) /\ f.done \in Nat
         /\ f.at = "register" => f.listener \in Listeners /\ f.flush \in BOOLEAN /\ f.since \in Nat
  BY DEF Frames

LEMMA NewFrames ==
  ASSUME NEW todo \in SUBSET Channels, NEW upTo \in Nat, NEW c \in Channels,
         NEW messages \in Seq(Messages), NEW called \in Seq(AllListeners), NEW done \in Nat,
         NEW l \in Listeners, NEW flush \in BOOLEAN
  PROVE  /\ [at |-> "write", channel |-> c] \in Frames
         /\ [at |-> "dispatch", todo |-> todo, upTo |-> upTo] \in Frames
         /\ [at |-> "deliver", messages |-> messages, called |-> called, done |-> done] \in Frames
         /\ [at |-> "callback"] \in Frames
         /\ [at |-> "register", listener |-> l, flush |-> flush, since |-> upTo] \in Frames
  BY DEF Frames

(* A delivery frame is the record of its fields.                           *)
LEMMA DeliverRecord ==
  ASSUME NEW f \in Frames, f.at = "deliver"
  PROVE  f = [at |-> "deliver", messages |-> f.messages, called |-> f.called, done |-> f.done]
  <1>1. f \in [at : {"deliver"}, messages : Seq(Messages), called : Seq(AllListeners), done : Nat]
    BY DEF Frames
  <1> QED
    BY <1>1

LEMMA DispatchRecord ==
  ASSUME NEW f \in Frames, f.at = "dispatch"
  PROVE  f = [at |-> "dispatch", todo |-> f.todo, upTo |-> f.upTo]
  <1>1. f \in [at : {"dispatch"}, todo : SUBSET Channels, upTo : Nat]
    BY DEF Frames
  <1> QED
    BY <1>1

(* One more call of a delivery: its place goes, the others stay.           *)
LEMMA AdvancedFrame ==
  ASSUME NEW f \in Frames, f.at = "deliver", GoodDelivery(f), ~IsDelivered(f)
  PROVE  LET g == Advanced(f)
             l0 == f.called[f.done + 1]
             m0 == Head(f.messages)
         IN /\ g \in Frames /\ g.at = "deliver" /\ GoodDelivery(g)
            /\ l0 \in AllListeners /\ m0 \in Messages
            /\ Has(f, l0, m0) /\ ~Has(g, l0, m0)
            /\ \A l, m : Has(g, l, m) => Has(f, l, m)
            /\ \A l, m : Has(f, l, m) => Has(g, l, m) \/ (l = l0 /\ m = m0)
  <1>1. PICK s \in Seq(Messages), p \in Seq(AllListeners), n \in Nat :
          s = f.messages /\ p = f.called /\ n = f.done
    BY FrameFields
  <1>2. f = [at |-> "deliver", messages |-> s, called |-> p, done |-> n]
    BY <1>1, DeliverRecord
  <1>3. s # <<>> /\ p # <<>> /\ n < Len(p) /\ Distinct(s) /\ Distinct(p) /\ ToSet(s) \subseteq Settled
    BY <1>1 DEF IsDelivered, GoodDelivery
  <1>4. /\ Head(s) \in Messages /\ Tail(s) \in Seq(Messages) /\ Distinct(Tail(s))
        /\ Len(s) = Len(Tail(s)) + 1 /\ ToSet(s) = ToSet(Tail(s)) \cup {Head(s)}
    BY <1>3, TailElements
  <1>5. /\ Len(s) \in Nat \ {0} /\ Head(s) = s[1] /\ \A k \in 1 .. Len(s) - 1 : Tail(s)[k] = s[k + 1]
        /\ DOMAIN s = 1 .. Len(s) /\ DOMAIN p = 1 .. Len(p) /\ Len(p) \in Nat
        /\ DOMAIN Tail(s) = 1 .. Len(s) - 1
    BY <1>3, <1>4
  <1>6. p[n + 1] \in AllListeners /\ n + 1 \in 1 .. Len(p)
    BY <1>3, <1>5
  <1>7. \A l, m : Has(f, l, m) <=> \E k \in 1 .. Len(s), j \in 1 .. Len(p) : s[k] = m /\ p[j] = l /\ (k = 1 => j > n)
    BY <1>2, <1>5 DEF Has, Owes
  <1>8. Has(f, p[n + 1], s[1])
    <2>1. 1 \in 1 .. Len(s) /\ n + 1 > n
      BY <1>5
    <2> QED
      BY <1>6, <1>7, <2>1
  <1>a. CASE n + 1 < Len(p)
    <2>1. Advanced(f) = [at |-> "deliver", messages |-> s, called |-> p, done |-> n + 1]
      BY <1>a, <1>2 DEF Advanced
    <2>2. Advanced(f) \in Frames
      BY <2>1, NewFrames DEF Frames
    <2>3. GoodDelivery(Advanced(f))
      BY <2>1, <1>3, <1>a DEF GoodDelivery
    <2>4. \A l, m : Has(Advanced(f), l, m) <=>
            \E k \in 1 .. Len(s), j \in 1 .. Len(p) : s[k] = m /\ p[j] = l /\ (k = 1 => j > n + 1)
      BY <2>1, <1>5 DEF Has, Owes
    <2>5. ~Has(Advanced(f), p[n + 1], s[1])
      <3> SUFFICES ASSUME NEW k \in 1 .. Len(s), NEW j \in 1 .. Len(p),
                          s[k] = s[1], p[j] = p[n + 1], k = 1 => j > n + 1
                   PROVE  FALSE
        BY <2>4
      <3>1. k = 1 /\ j = n + 1
        BY <1>3, <1>5, <1>6 DEF Distinct
      <3> QED
        BY <3>1
    <2>6. \A l, m : Has(Advanced(f), l, m) => Has(f, l, m)
      <3> SUFFICES ASSUME NEW l, NEW m, NEW k \in 1 .. Len(s), NEW j \in 1 .. Len(p),
                          s[k] = m, p[j] = l, k = 1 => j > n + 1
                   PROVE  Has(f, l, m)
        BY <2>4
      <3>1. k = 1 => j > n
        BY <1>5
      <3> QED
        BY <3>1, <1>7
    <2>7. \A l, m : Has(f, l, m) => Has(Advanced(f), l, m) \/ (l = p[n + 1] /\ m = s[1])
      <3> SUFFICES ASSUME NEW l, NEW m, NEW k \in 1 .. Len(s), NEW j \in 1 .. Len(p),
                          s[k] = m, p[j] = l, k = 1 => j > n, ~(l = p[n + 1] /\ m = s[1])
                   PROVE  Has(Advanced(f), l, m)
        BY <1>7
      <3>1. k = 1 => j > n + 1
        BY <1>5
      <3> QED
        BY <3>1, <2>4
    <2> QED
      BY <1>1, <1>4, <1>5, <1>6, <1>8, <2>1, <2>2, <2>3, <2>5, <2>6, <2>7
  <1>b. CASE ~(n + 1 < Len(p))
    <2>0. n + 1 = Len(p)
      <3>1. Len(p) \in Nat /\ n < Len(p) /\ n \in Nat
        BY <1>3, <1>5
      <3> QED
        BY <3>1, <1>b
    <2>1. Advanced(f) = [at |-> "deliver", messages |-> Tail(s), called |-> p, done |-> 0]
      BY <1>b, <1>2 DEF Advanced
    <2>2. Advanced(f) \in Frames
      BY <2>1, <1>4, NewFrames DEF Frames
    <2>3. GoodDelivery(Advanced(f))
      BY <2>1, <1>3, <1>4, <1>5 DEF GoodDelivery
    <2>4. \A l, m : Has(Advanced(f), l, m) <=>
            \E k \in 1 .. Len(s) - 1, j \in 1 .. Len(p) : s[k + 1] = m /\ p[j] = l
      <3>1. \A l, m : Has(Advanced(f), l, m) <=>
              \E k \in 1 .. Len(s) - 1, j \in 1 .. Len(p) : Tail(s)[k] = m /\ p[j] = l /\ (k = 1 => j > 0)
        <4>1. /\ Advanced(f).at = "deliver" /\ Advanced(f).messages = Tail(s)
              /\ Advanced(f).called = p /\ Advanced(f).done = 0
          BY <2>1
        <4>2. DOMAIN Tail(s) = 1 .. Len(s) - 1 /\ DOMAIN p = 1 .. Len(p)
          BY <1>5
        <4> QED
          BY <4>1, <4>2, Zenon DEF Has, Owes
      <3> QED
        BY <3>1, <1>5
    <2>5. ~Has(Advanced(f), p[n + 1], s[1])
      <3> SUFFICES ASSUME NEW k \in 1 .. Len(s) - 1, s[k + 1] = s[1] PROVE FALSE
        BY <2>4
      <3>1. k + 1 \in 1 .. Len(s) /\ 1 \in 1 .. Len(s) /\ k + 1 # 1
        BY <1>5
      <3> QED
        BY <3>1, <1>3 DEF Distinct
    <2>6. \A l, m : Has(Advanced(f), l, m) => Has(f, l, m)
      <3> SUFFICES ASSUME NEW l, NEW m, NEW k \in 1 .. Len(s) - 1, NEW j \in 1 .. Len(p),
                          s[k + 1] = m, p[j] = l
                   PROVE  Has(f, l, m)
        BY <2>4
      <3>1. k + 1 \in 1 .. Len(s) /\ k + 1 # 1
        BY <1>5
      <3> QED
        BY <3>1, <1>7
    <2>7. \A l, m : Has(f, l, m) => Has(Advanced(f), l, m) \/ (l = p[n + 1] /\ m = s[1])
      <3> SUFFICES ASSUME NEW l, NEW m, NEW k \in 1 .. Len(s), NEW j \in 1 .. Len(p),
                          s[k] = m, p[j] = l, k = 1 => j > n, ~(l = p[n + 1] /\ m = s[1])
                   PROVE  Has(Advanced(f), l, m)
        BY <1>7
      <3>1. k # 1
        BY <1>5, <2>0
      <3>2. k - 1 \in 1 .. Len(s) - 1 /\ (k - 1) + 1 = k
        BY <3>1, <1>5
      <3> QED
        BY <3>2, <2>4, SMTT(30)
    <2>8. Advanced(f).at = "deliver" /\ f.called[f.done + 1] = p[n + 1] /\ Head(f.messages) = s[1]
      BY <2>1, <1>1, <1>5
    <2>9. s[1] \in Messages
      BY <1>4, <1>5
    <2> QED
      BY <1>6, <1>8, <2>2, <2>3, <2>5, <2>6, <2>7, <2>8, <2>9
  <1> QED
    BY <1>a, <1>b
-----------------------------------------------------------------------------
(* Types.                                                                  *)
LEMMA LogTypeInit ==
  Init => LogTypeOK
  <1> SUFFICES ASSUME Init PROVE LogTypeOK
    OBVIOUS
  <1> USE LogAssumption DEF Init, LogTypeOK, Messages, AllListeners, NeverRegistered
  <1>1. \A F : <<>> \in Seq(F)
    OBVIOUS
  <1>2. stack \in [Threads -> Seq(Frames)]
    BY <1>1
  <1>3. registration \in [AllListeners -> [used : BOOLEAN, skipsUpTo : Nat, missed : SUBSET Nat]]
    OBVIOUS
  <1>4. ownListeners \in [Channels -> Seq(OwnListeners)]
    BY <1>1
  <1>5. pending \in [Channels -> Seq(Messages)] /\ history \in [Channels -> Seq(Messages)]
    BY <1>1
  <1>6. numMessages \in Nat /\ numMessages <= MaxMessages /\ loggers \in SUBSET Channels
    OBVIOUS
  <1>7. received \in [AllListeners -> [Messages -> Nat]]
    OBVIOUS
  <1>8. listeners \in Seq(Listeners)
    BY <1>1
  <1> QED
    BY <1>2, <1>3, <1>4, <1>5, <1>6, <1>7, <1>8

LEMMA ElementsTyped ==
  ASSUME NEW T, NEW s \in Seq(T)
  PROVE  ToSet(s) \subseteq T
  BY DEF ToSet

LEMMA RecentElements ==
  ASSUME NEW s \in Seq(Messages), MaxHistory \in Nat
  PROVE  Recent(s) \in Seq(Messages) /\ ToSet(Recent(s)) \subseteq ToSet(s)
  <1>1. PICK n \in Nat \ {0} : Recent(s) = SubSeq(s, n, Len(s))
    <2>1. PICK k \in Nat : k = Len(s)
      OBVIOUS
    <2>2. (IF k > MaxHistory THEN k - MaxHistory + 1 ELSE 1) \in Nat \ {0}
      OBVIOUS
    <2>3. Recent(s) = SubSeq(s, IF k > MaxHistory THEN k - MaxHistory + 1 ELSE 1, Len(s))
      BY <2>1, Zenon DEF Recent
    <2> QED
      BY <2>2, <2>3, Zenon
  <1>2. PICK r : r = SubSeq(s, n, Len(s))
    OBVIOUS
  <1>3. r \in Seq(Messages) /\ Len(r) \in Nat /\ DOMAIN r = 1 .. Len(r) /\ DOMAIN s = 1 .. Len(s)
    BY <1>2
  <1>4. \A i \in 1 .. Len(r) : n + i - 1 \in 1 .. Len(s) /\ r[i] = s[n + i - 1]
    BY <1>2
  <1> QED
    BY <1>1, <1>2, <1>3, <1>4 DEF ToSet

LEMMA ConcatElements ==
  ASSUME NEW T, NEW s \in Seq(T), NEW r \in Seq(T)
  PROVE  /\ s \o r \in Seq(T)
         /\ ToSet(s \o r) = ToSet(s) \cup ToSet(r)
         /\ Distinct(s) /\ Distinct(r) /\ ToSet(s) \cap ToSet(r) = {} => Distinct(s \o r)
  <1>0. PICK q : q = s \o r
    OBVIOUS
  <1>1. /\ q \in Seq(T) /\ Len(q) = Len(s) + Len(r) /\ Len(s) \in Nat /\ Len(r) \in Nat
        /\ DOMAIN q = 1 .. Len(q) /\ DOMAIN s = 1 .. Len(s) /\ DOMAIN r = 1 .. Len(r)
    BY <1>0
  <1>2. /\ \A i \in 1 .. Len(s) : q[i] = s[i]
        /\ \A i \in 1 .. Len(r) : q[Len(s) + i] = r[i]
    BY <1>0
  <1>3. \A i \in 1 .. Len(q) : i \in 1 .. Len(s) \/ \E k \in 1 .. Len(r) : i = Len(s) + k
    <2> TAKE i \in 1 .. Len(q)
    <2>1. CASE i > Len(s)
      <3>1. i - Len(s) \in 1 .. Len(r) /\ i = Len(s) + (i - Len(s))
        BY <2>1, <1>1
      <3> QED
        BY <3>1
    <2>2. CASE ~(i > Len(s))
      BY <2>2, <1>1
    <2> QED
      BY <2>1, <2>2
  <1>4. \A i \in 1 .. Len(s) : i \in 1 .. Len(q)
    BY <1>1
  <1>5. \A i \in 1 .. Len(r) : Len(s) + i \in 1 .. Len(q)
    BY <1>1
  <1>6. ToSet(q) = ToSet(s) \cup ToSet(r)
    <2>1. ASSUME NEW x \in ToSet(q) PROVE x \in ToSet(s) \cup ToSet(r)
      <3>1. PICK i \in 1 .. Len(q) : x = q[i]
        BY <1>1 DEF ToSet
      <3> QED
        BY <3>1, <1>1, <1>2, <1>3 DEF ToSet
    <2>2. ASSUME NEW x \in ToSet(s) PROVE x \in ToSet(q)
      <3>1. PICK i \in 1 .. Len(s) : x = s[i]
        BY <1>1 DEF ToSet
      <3> QED
        BY <3>1, <1>1, <1>2, <1>4 DEF ToSet
    <2>3. ASSUME NEW x \in ToSet(r) PROVE x \in ToSet(q)
      <3>1. PICK i \in 1 .. Len(r) : x = r[i]
        BY <1>1 DEF ToSet
      <3> QED
        BY <3>1, <1>1, <1>2, <1>5 DEF ToSet
    <2> QED
      BY <2>1, <2>2, <2>3
  <1>7. ASSUME Distinct(s), Distinct(r), ToSet(s) \cap ToSet(r) = {}
        PROVE  Distinct(q)
    <2> SUFFICES ASSUME NEW i \in 1 .. Len(q), NEW k \in 1 .. Len(q), q[i] = q[k] PROVE i = k
      BY DEF Distinct
    <2>1. \A x \in 1 .. Len(s), y \in 1 .. Len(r) : s[x] # r[y]
      BY <1>1, <1>7 DEF ToSet
    <2>2. CASE i \in 1 .. Len(s) /\ k \in 1 .. Len(s)
      BY <2>2, <1>2, <1>7 DEF Distinct
    <2>3. CASE \E x \in 1 .. Len(r), y \in 1 .. Len(r) : i = Len(s) + x /\ k = Len(s) + y
      BY <2>3, <1>2, <1>7 DEF Distinct
    <2>4. CASE i \in 1 .. Len(s) /\ \E y \in 1 .. Len(r) : k = Len(s) + y
      BY <2>4, <2>1, <1>2
    <2>5. CASE k \in 1 .. Len(s) /\ \E y \in 1 .. Len(r) : i = Len(s) + y
      BY <2>5, <2>1, <1>2
    <2> QED
      BY <2>2, <2>3, <2>4, <2>5, <1>3
  <1> QED
    BY <1>0, <1>1, <1>6, <1>7

(* The messages of a replay.                                               *)
LEMMA ReplayElements ==
  ASSUME NEW S \in SUBSET Messages, NEW s \in SortedByStamp(S)
  PROVE  s \in Seq(Messages) /\ ToSet(s) = S /\ Distinct(s)
  <1>1. MaxMessages \in Nat
    BY LogAssumption
  <1>2. PICK n \in 0 .. MaxMessages : s \in [1 .. n -> S]
    BY DEF SortedByStamp
  <1>3. n \in Nat /\ s \in [1 .. n -> Messages]
    BY <1>1, <1>2
  <1>4. s \in Seq(Messages) /\ Len(s) = n /\ DOMAIN s = 1 .. n
    BY <1>3
  <1>5. \A i, j \in 1 .. n : i < j => s[i] < s[j]
    BY <1>4 DEF SortedByStamp
  <1>6. \A i \in 1 .. n : s[i] \in Nat
    BY <1>1, <1>3 DEF Messages
  <1>7. Distinct(s)
    <2> SUFFICES ASSUME NEW i \in 1 .. n, NEW j \in 1 .. n, s[i] = s[j], i # j PROVE FALSE
      BY <1>4 DEF Distinct
    <2>1. i < j \/ j < i
      BY <1>3
    <2>2. s[i] < s[j] \/ s[j] < s[i]
      BY <2>1, <1>5
    <2> QED
      BY <2>2, <1>6
  <1>8. ToSet(s) = S
    BY DEF SortedByStamp
  <1> QED
    BY <1>4, <1>7, <1>8

(* The unlocked replay of a registration.                                  *)
Flushed(t) == IF Top(t).flush THEN UNION {ToSet(history[c]) : c \in loggers} ELSE {}

LEMMA FlushedMessages ==
  ASSUME LogTypeOK, NEW t
  PROVE  Flushed(t) \in SUBSET Messages
  <1>1. \A c \in Channels : ToSet(history[c]) \subseteq Messages
    <2> TAKE c \in Channels
    <2>1. history[c] \in Seq(Messages)
      BY DEF LogTypeOK
    <2> QED
      BY <2>1 DEF ToSet
  <1> QED
    BY <1>1 DEF Flushed, LogTypeOK
LEMMA DispatchingFrame ==
  ASSUME LogTypeOK
  PROVE  Dispatching \in Frames
  BY DEF Dispatching, Frames, LogTypeOK

(* Calls that leave the queues, the lists and what was received alone.     *)
LEMMA TypeByStack ==
  ASSUME LogTypeOK, stack' \in [Threads -> Seq(Frames)],
         UNCHANGED <<loggers, queues, registry, received>>
  PROVE  LogTypeOK'
  BY DEF LogTypeOK, queues, registry

LEMMA PopTypes ==
  ASSUME LogTypeOK, NEW t \in Threads, NEW where, IsAt(t, where), Pop(t)
  PROVE  /\ stack \in [Threads -> Seq(Frames)] /\ stack[t] # <<>>
         /\ stack' \in [Threads -> Seq(Frames)]
  <1>1. stack \in [Threads -> Seq(Frames)]
    BY DEF LogTypeOK
  <1>2. stack[t] # <<>>
    BY <1>1, AtTop
  <1> QED
    BY <1>1, <1>2, Popped

LEMMA WriteTypes ==
  ASSUME LogTypeOK, NEW t \in Threads, NEW level, Write(t, level)
  PROVE  LogTypeOK'
  <1>1. stack' \in [Threads -> Seq(Frames)]
    BY PopTypes DEF Write
  <1>2. Top(t).channel \in Channels
    BY AtTop, FrameFields DEF Write, LogTypeOK
  <1>3. CASE IsQueued(t, level)
    <2>1. PICK c \in Channels : c = Top(t).channel
      BY <1>2
    <2>2. numMessages' = numMessages + 1 /\ pending' = [pending EXCEPT ![c] = Append(pending[c], numMessages + 1)]
      BY <1>3, <2>1 DEF Write
    <2>3. numMessages + 1 \in Messages /\ numMessages + 1 <= MaxMessages
      BY <1>3, LogAssumption DEF IsQueued, LogTypeOK, Messages
    <2>4. Append(pending[c], numMessages + 1) \in Seq(Messages)
      BY <2>3 DEF LogTypeOK
    <2>5. pending' \in [Channels -> Seq(Messages)] /\ numMessages' \in Nat /\ numMessages' <= MaxMessages
      BY <2>2, <2>3, <2>4 DEF LogTypeOK
    <2> QED
      BY <1>1, <2>5 DEF LogTypeOK, Write, settings, registry
  <1>4. CASE ~IsQueued(t, level)
    BY <1>1, <1>4 DEF LogTypeOK, Write, settings, registry
  <1> QED
    BY <1>3, <1>4

LEMMA DispatchPendingTypes ==
  ASSUME LogTypeOK, NEW t \in Threads, NEW c \in Channels, DispatchPending(t, c)
  PROVE  /\ LogTypeOK'
         /\ [Top(t) EXCEPT !.todo = @ \ {c}] \in Frames
         /\ Delivering(pending[c], ownListeners[c] \o listeners) \in Frames
  <1>1. stack \in [Threads -> Seq(Frames)] /\ stack[t] # <<>> /\ Top(t) \in Frames /\ Top(t).at = "dispatch"
    BY AtTop DEF DispatchPending, LogTypeOK
  <1>2. [Top(t) EXCEPT !.todo = @ \ {c}] \in Frames
    BY <1>1 DEF Frames
  <1>3. pending[c] \in Seq(Messages) /\ history[c] \in Seq(Messages)
    BY DEF LogTypeOK
  <1>4. ownListeners[c] \in Seq(AllListeners) /\ listeners \in Seq(AllListeners)
    BY DEF LogTypeOK, AllListeners
  <1>5. ownListeners[c] \o listeners \in Seq(AllListeners)
    BY <1>4, ConcatElements
  <1>6. Delivering(pending[c], ownListeners[c] \o listeners) \in Frames
    BY <1>3, <1>5 DEF Delivering, Frames
  <1>7. stack' \in [Threads -> Seq(Frames)]
    BY <1>1, <1>2, <1>6, ReplacedTwo DEF DispatchPending
  <1>8. Recent(history[c] \o pending[c]) \in Seq(Messages)
    BY <1>3, ConcatElements, RecentElements, LogAssumption
  <1>9. history' \in [Channels -> Seq(Messages)] /\ pending' \in [Channels -> Seq(Messages)]
    BY <1>8 DEF DispatchPending, LogTypeOK
  <1> QED
    BY <1>2, <1>6, <1>7, <1>9 DEF DispatchPending, LogTypeOK, settings, registry

LEMMA DeliverTypes ==
  ASSUME LogTypeOK, DeliveryInv, NEW t \in Threads, Deliver(t)
  PROVE  LogTypeOK' /\ Advanced(Top(t)) \in Frames
  <1>1. /\ stack \in [Threads -> Seq(Frames)] /\ stack[t] # <<>> /\ Top(t) \in Frames /\ Top(t).at = "deliver"
        /\ Top(t) = stack[t][Len(stack[t])] /\ Len(stack[t]) \in DOMAIN stack[t]
    <2>1. stack \in [Threads -> Seq(Frames)] /\ IsAt(t, "deliver")
      BY DEF Deliver, LogTypeOK
    <2>2. /\ stack[t] # <<>> /\ Top(t) \in Frames /\ Top(t).at = "deliver"
          /\ Top(t) = stack[t][Len(stack[t])] /\ Len(stack[t]) \in Nat \ {0} /\ DOMAIN stack[t] = 1 .. Len(stack[t])
      BY <2>1, AtTop
    <2>3. Len(stack[t]) \in 1 .. Len(stack[t])
      BY <2>2
    <2> QED
      BY <2>1, <2>2, <2>3
  <1>2. GoodDelivery(Top(t))
    BY <1>1 DEF DeliveryInv
  <1>3. /\ Advanced(Top(t)) \in Frames
        /\ Top(t).called[Top(t).done + 1] \in AllListeners /\ Head(Top(t).messages) \in Messages
    BY <1>1, <1>2, AdvancedFrame DEF Deliver
  <1>4. [at |-> "callback"] \in Frames
    BY DEF Frames
  <1>5. stack' \in [Threads -> Seq(Frames)]
    BY <1>1, <1>3, <1>4, ReplacedTwo DEF Deliver
  <1>6. received' \in [AllListeners -> [Messages -> Nat]]
    <2>1. PICK l \in AllListeners, m \in Messages : l = Top(t).called[Top(t).done + 1] /\ m = Head(Top(t).messages)
      BY <1>3
    <2>2. received' = [received EXCEPT ![l][m] = @ + 1]
      BY <2>1 DEF Deliver
    <2> QED
      BY <2>2 DEF LogTypeOK
  <1> QED
    BY <1>3, <1>5, <1>6 DEF Deliver, LogTypeOK, settings, queues, registry

LEMMA RegisterListenerTypes ==
  ASSUME LogTypeOK, NEW t \in Threads, NEW l \in Listeners, NEW flush \in BOOLEAN, RegisterListener(t, l, flush)
  PROVE  /\ LogTypeOK'
         /\ [at |-> "register", listener |-> l, flush |-> flush, since |-> numMessages] \in Frames
  <1>1. [at |-> "register", listener |-> l, flush |-> flush, since |-> numMessages] \in Frames
    BY DEF Frames, LogTypeOK
  <1>2. stack' \in [Threads -> Seq(Frames)]
    BY <1>1, DispatchingFrame, PushedTwo DEF RegisterListener, LogTypeOK
  <1>3. registration' \in [AllListeners -> [used : BOOLEAN, skipsUpTo : Nat, missed : SUBSET Nat]]
    BY DEF RegisterListener, LogTypeOK, AllListeners
  <1> QED
    BY <1>1, <1>2, <1>3 DEF RegisterListener, LogTypeOK, settings, queues

LEMMA RegisterLockedTypes ==
  ASSUME LogTypeOK, NEW t \in Threads, RegisterLocked(t)
  PROVE  /\ LogTypeOK'
         /\ Top(t).listener \in Listeners
         /\ \E s \in SortedByStamp(Flushed(t)) :
              /\ Delivering(s, <<Top(t).listener>>) \in Frames
              /\ Replace(t, <<Delivering(s, <<Top(t).listener>>)>>)
  <1>1. stack \in [Threads -> Seq(Frames)] /\ stack[t] # <<>> /\ Top(t) \in Frames /\ Top(t).at = "register"
    BY AtTop DEF RegisterLocked, LogTypeOK
  <1>2. PICK l \in Listeners, since \in Nat : l = Top(t).listener /\ since = Top(t).since
    BY <1>1, FrameFields
  <1>3. PICK s \in SortedByStamp(Flushed(t)) : Replace(t, <<Delivering(s, <<Top(t).listener>>)>>)
    BY DEF RegisterLocked, Flushed
  <1>4. s \in Seq(Messages)
    BY <1>3, FlushedMessages, ReplayElements
  <1>5. <<l>> \in Seq(AllListeners)
    BY DEF AllListeners
  <1>6. Delivering(s, <<l>>) \in Frames
    BY <1>4, <1>5 DEF Delivering, Frames
  <1>7. stack' \in [Threads -> Seq(Frames)]
    BY <1>1, <1>2, <1>3, <1>6, Replaced
  <1>8. listeners' \in Seq(Listeners)
    BY <1>2 DEF RegisterLocked, LogTypeOK
  <1>9. registration' \in [AllListeners -> [used : BOOLEAN, skipsUpTo : Nat, missed : SUBSET Nat]]
    <2>1. PICK k \in Nat : k = IF Top(t).flush \/ loggers # Channels THEN 0 ELSE since
      OBVIOUS
    <2>2. PICK S \in SUBSET Nat : S = Written \ (Pending \cup Flushed(t))
      <3>1. Written \in SUBSET Nat
        BY DEF Written, LogTypeOK
      <3> QED
        BY <3>1, Zenon
    <2>3. registration' = [registration EXCEPT ![l].skipsUpTo = k, ![l].missed = S]
      BY <1>2, <2>1, <2>2 DEF RegisterLocked, Flushed
    <2> QED
      BY <2>3 DEF LogTypeOK, AllListeners
  <1> QED
    BY <1>2, <1>3, <1>6, <1>7, <1>8, <1>9 DEF RegisterLocked, LogTypeOK, settings, queues
-----------------------------------------------------------------------------
(* The queues.                                                             *)
LEMMA SettledMessages ==
  \A m : m \in Settled <=> m \in 1 .. numMessages /\ \A c \in Channels : m \notin ToSet(pending[c])
  BY DEF Settled, Written, Pending

(* What a step leaves true of the queues: no message is queued again, and  *)
(* no channel comes back.                                                  *)
Later ==
  /\ Settled \subseteq Settled'
  /\ numMessages <= numMessages'
  /\ loggers' \subseteq loggers
  /\ \A c \in Channels : \A m \in ToSet(pending'[c]) : m \in ToSet(pending[c]) \/ m > numMessages

LEMMA SameQueues ==
  ASSUME LogTypeOK, QueueInv, UNCHANGED queues, loggers' \subseteq loggers
  PROVE  QueueInv' /\ Settled' = Settled /\ Later
  <1>1. Settled' = Settled
    BY DEF queues, Settled, Written, Pending
  <1> QED
    BY <1>1 DEF QueueInv, Later, queues, LogTypeOK, Written

LEMMA PendingTyped ==
  ASSUME LogTypeOK, NEW c \in Channels
  PROVE  pending[c] \in Seq(Messages) /\ ToSet(pending[c]) \subseteq Messages /\ Messages \subseteq Nat
  <1>1. pending[c] \in Seq(Messages)
    BY DEF LogTypeOK
  <1>2. Messages \subseteq Nat
    BY LogAssumption DEF Messages
  <1> QED
    BY <1>1, <1>2 DEF ToSet

LEMMA WriteQueues ==
  ASSUME LogTypeOK, QueueInv, NEW t \in Threads, NEW level, Write(t, level)
  PROVE  QueueInv' /\ Settled' = Settled /\ Later
  <1>0. loggers' = loggers /\ history' = history
    BY DEF Write, settings
  <1>1. Top(t).channel \in Channels
    BY AtTop, FrameFields DEF Write, LogTypeOK
  <1>2. CASE IsQueued(t, level)
    <2>1. PICK c \in Channels : c = Top(t).channel
      BY <1>1
    <2>2. PICK n \in Nat : n = numMessages
      BY DEF LogTypeOK
    <2>3. numMessages' = n + 1 /\ pending' = [pending EXCEPT ![c] = Append(pending[c], n + 1)]
      BY <1>2, <2>1, <2>2 DEF Write
    <2>4. n + 1 \in Messages
      BY <1>2, <2>2, LogAssumption DEF IsQueued, LogTypeOK, Messages
    <2>5. pending'[c] = Append(pending[c], n + 1) /\ \A d \in Channels : d # c => pending'[d] = pending[d]
      BY <2>3 DEF LogTypeOK
    <2>6. \A d \in Channels : ToSet(pending[d]) \subseteq 1 .. n
      BY <2>2 DEF QueueInv, Written
    <2>7. n + 1 \notin ToSet(pending[c]) /\ n + 1 \notin 1 .. n
      BY <2>6
    <2>8. ToSet(pending'[c]) = ToSet(pending[c]) \cup {n + 1} /\ Distinct(pending'[c])
      BY <2>4, <2>5, <2>7, PendingTyped, AppendElements DEF QueueInv
    <2>9. 1 .. n + 1 = (1 .. n) \cup {n + 1}
      BY <2>2
    <2>10. Settled' = Settled
      <3>1. \A m : m \in Settled <=> m \in 1 .. n /\ \A d \in Channels : m \notin ToSet(pending[d])
        BY <2>2, SettledMessages
      <3>2. \A m : m \in Settled' <=> m \in 1 .. n + 1 /\ \A d \in Channels : m \notin ToSet(pending'[d])
        BY <2>3 DEF Settled, Written, Pending
      <3>3. ASSUME NEW m \in Settled PROVE m \in Settled'
        <4>1. m \in 1 .. n + 1 /\ m # n + 1
          BY <3>1, <3>3, <2>7, <2>9
        <4> QED
          BY <3>1, <3>2, <3>3, <4>1, <2>5, <2>8
      <3>4. ASSUME NEW m \in Settled' PROVE m \in Settled
        <4>1. m # n + 1
          BY <3>2, <3>4, <2>8
        <4>2. \A d \in Channels : m \notin ToSet(pending[d])
          BY <3>2, <3>4, <2>5, <2>8
        <4> QED
          BY <3>1, <3>2, <3>4, <4>1, <4>2, <2>9
      <3> QED
        BY <3>3, <3>4
    <2>11. \A d \in Channels : Distinct(pending'[d]) /\ ToSet(pending'[d]) \subseteq Written'
      <3> TAKE d \in Channels
      <3>1. Written' = (1 .. n) \cup {n + 1}
        BY <2>3, <2>9 DEF Written
      <3> QED
        BY <3>1, <2>5, <2>6, <2>8 DEF QueueInv
    <2>12. \A d, e \in Channels : d # e => ToSet(pending'[d]) \cap ToSet(pending'[e]) = {}
      <3>1. \A d \in Channels : n + 1 \notin ToSet(pending[d])
        BY <2>6, <2>7
      <3>2. \A d, e \in Channels : d # e => \A m \in ToSet(pending[d]) : m \notin ToSet(pending[e])
        BY DEF QueueInv
      <3> SUFFICES ASSUME NEW d \in Channels, NEW e \in Channels, d # e,
                          NEW m \in ToSet(pending'[d]), m \in ToSet(pending'[e])
                   PROVE  FALSE
        OBVIOUS
      <3>3. CASE d = c
        BY <3>1, <3>2, <3>3, <2>5, <2>8
      <3>4. CASE e = c
        BY <3>1, <3>2, <3>4, <2>5, <2>8
      <3>5. CASE d # c /\ e # c
        BY <3>2, <3>5, <2>5
      <3> QED
        BY <3>3, <3>4, <3>5
    <2>13. Later
      <3>1. numMessages <= numMessages' /\ n + 1 > numMessages
        BY <2>2, <2>3
      <3> QED
        BY <3>1, <2>5, <2>8, <2>10, <1>0 DEF Later
    <2> QED
      BY <1>0, <2>10, <2>11, <2>12, <2>13 DEF QueueInv
  <1>3. CASE ~IsQueued(t, level)
    BY <1>3, <1>0, SameQueues DEF Write, queues
  <1> QED
    BY <1>2, <1>3

LEMMA DispatchQueues ==
  ASSUME LogTypeOK, QueueInv, NEW t \in Threads, NEW c \in Channels, DispatchPending(t, c)
  PROVE  /\ QueueInv' /\ Settled' = Settled \cup ToSet(pending[c]) /\ Later
         /\ pending'[c] = <<>> /\ numMessages' = numMessages
  <1>1. /\ loggers' = loggers /\ numMessages' = numMessages
        /\ pending'[c] = <<>> /\ \A d \in Channels : d # c => pending'[d] = pending[d]
    BY DEF DispatchPending, settings, LogTypeOK
  <1>2. history'[c] = Recent(history[c] \o pending[c]) /\ \A d \in Channels : d # c => history'[d] = history[d]
    BY DEF DispatchPending, LogTypeOK
  <1>3. ToSet(<<>>) = {} /\ Distinct(<<>>)
    BY DEF ToSet, Distinct
  <1>4. Settled' = Settled \cup ToSet(pending[c])
    <2>1. \A m : m \in Settled' <=> m \in 1 .. numMessages /\ \A d \in Channels : m \notin ToSet(pending'[d])
      BY <1>1 DEF Settled, Written, Pending
    <2>2. ToSet(pending[c]) \subseteq 1 .. numMessages
      BY DEF QueueInv, Written
    <2>3. \A d \in Channels : d # c => ToSet(pending[c]) \cap ToSet(pending[d]) = {}
      BY DEF QueueInv
    <2> QED
      BY <1>1, <1>3, <2>1, <2>2, <2>3, SettledMessages
  <1>5. ToSet(history'[c]) \subseteq ToSet(history[c]) \cup ToSet(pending[c])
    <2>1. history[c] \in Seq(Messages) /\ pending[c] \in Seq(Messages) /\ MaxHistory \in Nat
      BY LogAssumption DEF LogTypeOK
    <2>2. /\ history[c] \o pending[c] \in Seq(Messages)
          /\ ToSet(history[c] \o pending[c]) = ToSet(history[c]) \cup ToSet(pending[c])
      BY <2>1, ConcatElements
    <2> QED
      BY <1>2, <2>1, <2>2, RecentElements
  <1>6. \A d \in Channels : ToSet(history'[d]) \subseteq Settled'
    BY <1>2, <1>4, <1>5 DEF QueueInv
  <1>7. Written' = Written
    BY <1>1 DEF Written
  <1>8. \A d \in Channels : Distinct(pending'[d]) /\ ToSet(pending'[d]) \subseteq Written'
    BY <1>1, <1>3, <1>7 DEF QueueInv
  <1>9. \A d, e \in Channels : d # e => ToSet(pending'[d]) \cap ToSet(pending'[e]) = {}
    BY <1>1, <1>3 DEF QueueInv
  <1>10. Later
    <2>1. numMessages <= numMessages'
      BY <1>1 DEF LogTypeOK
    <2> QED
      BY <2>1, <1>1, <1>3, <1>4 DEF Later
  <1> QED
    BY <1>1, <1>4, <1>6, <1>8, <1>9, <1>10 DEF QueueInv
-----------------------------------------------------------------------------
(* Dispatches and the registrations that wait for them.                    *)
LEMMA ServedLater ==
  ASSUME LogTypeOK, LogTypeOK', Later, NEW f \in Frames, f.at = "dispatch", f.upTo <= numMessages,
         \A c \in loggers \ f.todo : \A m \in ToSet(pending[c]) : m > f.upTo
  PROVE  /\ f.upTo <= numMessages'
         /\ \A c \in loggers' \ f.todo : \A m \in ToSet(pending'[c]) : m > f.upTo
  <1>1. PICK n \in Nat, k \in Nat, h \in Nat : n = numMessages /\ k = f.upTo /\ h = numMessages'
    BY FrameFields DEF LogTypeOK
  <1>2. n <= h /\ k <= n
    BY <1>1 DEF Later
  <1>3. ASSUME NEW c \in loggers' \ f.todo, NEW m \in ToSet(pending'[c]) PROVE m > k
    <2>1. c \in loggers \ f.todo /\ c \in Channels
      BY <1>3 DEF Later, LogTypeOK
    <2>2. m \in Nat
      <3>1. pending'[c] \in Seq(Messages)
        BY <2>1 DEF LogTypeOK
      <3>2. Messages \subseteq Nat
        BY LogAssumption DEF Messages
      <3>3. ToSet(pending'[c]) \subseteq Messages
        BY <3>1, ElementsTyped
      <3> QED
        BY <3>2, <3>3, <1>3
    <2>3. m \in ToSet(pending[c]) \/ m > n
      BY <1>1, <2>1 DEF Later
    <2> QED
      BY <1>1, <1>2, <2>1, <2>2, <2>3
  <1> QED
    BY <1>1, <1>2, <1>3

(* Every frame is an old one in its place, or is served.                   *)
LEMMA DispatchKept ==
  ASSUME LogTypeOK, LogTypeOK', DispatchInv, Later,
         \A u \in Threads : \A i \in DOMAIN stack'[u] :
           (i \in DOMAIN stack[u] /\ stack'[u][i] = stack[u][i]) \/ Served(stack[u][i])'
  PROVE  DispatchInv'
  <1> SUFFICES ASSUME NEW u \in Threads, NEW i \in DOMAIN stack'[u], ~Served(stack[u][i])'
               PROVE  FALSE
    BY DEF DispatchInv
  <1>1. i \in DOMAIN stack[u] /\ stack'[u][i] = stack[u][i]
    OBVIOUS
  <1>2. stack[u] \in Seq(Frames)
    BY DEF LogTypeOK
  <1>3. PICK f \in Frames : f = stack[u][i]
    BY <1>1, <1>2
  <1>4. /\ f.at = "dispatch"
        /\ ~(/\ f.upTo <= numMessages'
             /\ \A c \in loggers' \ f.todo : \A m \in ToSet(pending'[c]) : m > f.upTo)
    BY <1>1, <1>3 DEF Served
  <1>5. f.upTo <= numMessages /\ \A c \in loggers \ f.todo : \A m \in ToSet(pending[c]) : m > f.upTo
    BY <1>1, <1>3, <1>4 DEF DispatchInv, Served
  <1> QED
    BY <1>4, <1>5, ServedLater

(* A dispatch that begins has served no channel it knows.                  *)
LEMMA NewServed ==
  ASSUME LogTypeOK, NEW f, f = Dispatching, UNCHANGED <<loggers, queues>>
  PROVE  f.at = "dispatch" => /\ f.upTo <= numMessages'
                              /\ \A c \in loggers' \ f.todo : \A m \in ToSet(pending'[c]) : m > f.upTo
  BY DEF Dispatching, queues, LogTypeOK

(* What RegisterInv says of frame f at place i below frame g, or on top.   *)
LEMMA RegisterLater ==
  ASSUME LogTypeOK, LogTypeOK', Later, NEW f \in Frames, f.at = "register"
  PROVE  /\ f.since <= numMessages => f.since <= numMessages'
         /\ f.since <= numMessages /\ (\A c \in loggers : \A m \in ToSet(pending[c]) : m > f.since) =>
              \A c \in loggers' : \A m \in ToSet(pending'[c]) : m > f.since
  <1>1. PICK n \in Nat, k \in Nat, h \in Nat : n = numMessages /\ k = f.since /\ h = numMessages'
    BY FrameFields DEF LogTypeOK
  <1>2. n <= h
    BY <1>1 DEF Later
  <1>3. ASSUME k <= n, \A c \in loggers : \A m \in ToSet(pending[c]) : m > k,
               NEW c \in loggers', NEW m \in ToSet(pending'[c]) PROVE m > k
    <2>1. c \in loggers /\ c \in Channels
      BY <1>3 DEF Later, LogTypeOK
    <2>2. m \in Nat
      <3>1. pending'[c] \in Seq(Messages)
        BY <2>1 DEF LogTypeOK
      <3>2. Messages \subseteq Nat
        BY LogAssumption DEF Messages
      <3>3. ToSet(pending'[c]) \subseteq Messages
        BY <3>1, ElementsTyped
      <3> QED
        BY <3>2, <3>3, <1>3
    <2>3. m \in ToSet(pending[c]) \/ m > n
      BY <1>1, <2>1 DEF Later
    <2> QED
      BY <1>1, <1>3, <2>1, <2>2, <2>3
  <1> QED
    BY <1>1, <1>2, <1>3

(* Thread u's registrations are in order.                                  *)
RegisterOrder(u) ==
  \A i \in DOMAIN stack[u] : stack[u][i].at = "register" =>
    /\ stack[u][i].since <= numMessages
    /\ i < Len(stack[u]) => /\ stack[u][i + 1].at = "dispatch"
                            /\ stack[u][i + 1].upTo = stack[u][i].since
    /\ i = Len(stack[u]) => \A c \in loggers : \A m \in ToSet(pending[c]) : m > stack[u][i].since

LEMMA RegisterSame ==
  ASSUME LogTypeOK, LogTypeOK', RegisterInv, Later, NEW u \in Threads, stack'[u] = stack[u]
  PROVE  RegisterOrder(u)'
  <1> SUFFICES ASSUME NEW i \in DOMAIN stack[u], stack[u][i].at = "register"
               PROVE  /\ stack[u][i].since <= numMessages'
                      /\ i < Len(stack[u]) => /\ stack[u][i + 1].at = "dispatch"
                                              /\ stack[u][i + 1].upTo = stack[u][i].since
                      /\ i = Len(stack[u]) => \A c \in loggers' : \A m \in ToSet(pending'[c]) : m > stack[u][i].since
    BY DEF RegisterOrder
  <1>1. stack[u] \in Seq(Frames)
    BY DEF LogTypeOK
  <1>2. PICK f \in Frames : f = stack[u][i]
    BY <1>1
  <1>3. /\ f.since <= numMessages
        /\ i < Len(stack[u]) => stack[u][i + 1].at = "dispatch" /\ stack[u][i + 1].upTo = f.since
        /\ i = Len(stack[u]) => \A c \in loggers : \A m \in ToSet(pending[c]) : m > f.since
    BY <1>2 DEF RegisterInv
  <1>4. /\ f.since <= numMessages'
        /\ i = Len(stack[u]) => \A c \in loggers' : \A m \in ToSet(pending'[c]) : m > f.since
    BY <1>2, <1>3, RegisterLater
  <1> QED
    BY <1>2, <1>3, <1>4

(* A thread's frames up to place n - 1 stay, with n - 1 not a registration *)
(* or the same frame, at least as to dispatches, above it.                 *)
LEMMA RegisterBelow ==
  ASSUME LogTypeOK, LogTypeOK', RegisterInv, Later, NEW t \in Threads, NEW n \in Nat,
         NEW i \in 1 .. n, n <= Len(stack[t]), n <= Len(stack'[t]),
         \A k \in 1 .. n : stack'[t][k] = stack[t][k],
         stack[t][i].at = "register",
         i = n => /\ n < Len(stack[t]) /\ n < Len(stack'[t])
                  /\ stack[t][n + 1].at = "dispatch" =>
                       stack'[t][n + 1].at = "dispatch" /\ stack'[t][n + 1].upTo = stack[t][n + 1].upTo
  PROVE  /\ stack'[t][i].since <= numMessages'
         /\ i < Len(stack'[t]) /\ stack'[t][i + 1].at = "dispatch"
         /\ stack'[t][i + 1].upTo = stack'[t][i].since
         /\ stack[t][i + 1].at = "dispatch"
  <1>1. stack[t] \in Seq(Frames) /\ stack'[t] \in Seq(Frames)
    BY DEF LogTypeOK
  <1>2. PICK k \in Nat, h \in Nat : k = Len(stack[t]) /\ h = Len(stack'[t]) /\ DOMAIN stack[t] = 1 .. k
    BY <1>1
  <1>3. i \in 1 .. k /\ i < k /\ i < h /\ i # n => i + 1 \in 1 .. n
    BY <1>2
  <1>4. PICK f \in Frames : f = stack[t][i] /\ f = stack'[t][i]
    BY <1>1, <1>2, <1>3
  <1>5. /\ i \in 1 .. k /\ i < k /\ i < h
    BY <1>2
  <1>6. /\ f.since <= numMessages
        /\ stack[t][i + 1].at = "dispatch" /\ stack[t][i + 1].upTo = f.since
    BY <1>2, <1>4, <1>5 DEF RegisterInv
  <1>7. f.since <= numMessages'
    BY <1>4, <1>6, RegisterLater
  <1>8. stack'[t][i + 1].at = "dispatch" /\ stack'[t][i + 1].upTo = f.since
    <2>1. CASE i = n
      BY <2>1, <1>6
    <2>2. CASE i # n
      <3>1. i + 1 \in 1 .. n
        BY <2>2
      <3> QED
        BY <3>1, <1>6
    <2> QED
      BY <2>1, <2>2
  <1> QED
    BY <1>2, <1>4, <1>5, <1>6, <1>7, <1>8
LEMMA RegisterKept ==
  ASSUME LogTypeOK, LogTypeOK', RegisterInv, Later, NEW t \in Threads,
         \A u \in Threads : u # t => stack'[u] = stack[u], RegisterOrder(t)'
  PROVE  RegisterInv'
  <1>1. \A u \in Threads : RegisterOrder(u)'
    <2> TAKE u \in Threads
    <2>1. CASE u = t
      BY <2>1
    <2>2. CASE u # t
      BY <2>2, RegisterSame
    <2> QED
      BY <2>1, <2>2
  <1> QED
    BY <1>1 DEF RegisterInv, RegisterOrder

(* A call from the thread's own code or from a callback.                   *)
LEMMA RegisterPushed ==
  ASSUME LogTypeOK, LogTypeOK', RegisterInv, Later, NEW t \in Threads, CanCall(t),
         NEW f \in Frames, f.at # "register", Push(t, <<f>>)
  PROVE  RegisterInv'
  <1>1. stack[t] \in Seq(Frames) /\ stack'[t] \in Seq(Frames) /\ stack \in [Threads -> Seq(Frames)]
    BY DEF LogTypeOK
  <1>2. /\ \A u \in Threads : u # t => stack'[u] = stack[u]
        /\ Len(stack'[t]) = Len(stack[t]) + 1
        /\ \A i \in 1 .. Len(stack[t]) : stack'[t][i] = stack[t][i]
        /\ stack'[t][Len(stack[t]) + 1] = f
    BY <1>1, Pushed
  <1>3. PICK k \in Nat : k = Len(stack[t]) /\ DOMAIN stack[t] = 1 .. k /\ DOMAIN stack'[t] = 1 .. k + 1
    BY <1>1, <1>2
  <1>4. k # 0 => stack[t][k].at = "callback"
    <2>1. stack[t] = <<>> \/ IsAt(t, "callback")
      BY Callable
    <2>2. IsAt(t, "callback") => stack[t][k].at = "callback"
      BY <1>1, <1>3, AtTop
    <2> QED
      BY <2>1, <2>2, <1>3
  <1>5. ASSUME NEW i \in 1 .. k + 1, stack'[t][i].at = "register"
        PROVE  /\ stack'[t][i].since <= numMessages'
               /\ i < k + 1 /\ stack'[t][i + 1].at = "dispatch"
               /\ stack'[t][i + 1].upTo = stack'[t][i].since
    <2>1. i # k + 1
      BY <1>2, <1>3, <1>5
    <2>2. i \in 1 .. k /\ stack[t][i].at = "register"
      BY <2>1, <1>2, <1>3, <1>5
    <2>3. i # k /\ i \in 1 .. k - 1 /\ k - 1 \in Nat
      BY <2>2, <1>4
    <2>4. \A h \in 1 .. k - 1 : stack'[t][h] = stack[t][h]
      BY <1>2, <1>3
    <2>5. /\ k - 1 <= Len(stack[t]) /\ k - 1 <= Len(stack'[t])
          /\ k - 1 < Len(stack[t]) /\ k - 1 < Len(stack'[t])
      BY <1>2, <1>3
    <2>6. k - 1 + 1 = k /\ stack'[t][k] = stack[t][k]
      BY <2>2, <1>2, <1>3
    <2>7. PICK n \in Nat : n = k - 1
      BY <2>3
    <2>8. /\ i \in 1 .. n /\ n <= Len(stack[t]) /\ n <= Len(stack'[t])
          /\ \A h \in 1 .. n : stack'[t][h] = stack[t][h]
          /\ n < Len(stack[t]) /\ n < Len(stack'[t])
          /\ stack[t][n + 1].at = "dispatch" =>
               stack'[t][n + 1].at = "dispatch" /\ stack'[t][n + 1].upTo = stack[t][n + 1].upTo
      BY <2>3, <2>4, <2>5, <2>6, <2>7
    <2>9. /\ stack'[t][i].since <= numMessages'
          /\ i < Len(stack'[t]) /\ stack'[t][i + 1].at = "dispatch"
          /\ stack'[t][i + 1].upTo = stack'[t][i].since
      BY <2>2, <2>7, <2>8, RegisterBelow, ZenonT(40)
    <2> QED
      BY <2>9, <1>2, <1>3
  <1>6. RegisterOrder(t)'
    <2>1. Len(stack'[t]) = k + 1
      BY <1>2, <1>3
    <2> QED
      BY <1>3, <1>5, <2>1 DEF RegisterOrder
  <1> QED
    BY <1>2, <1>6, RegisterKept

LEMMA RegisterPushedTwo ==
  ASSUME LogTypeOK, LogTypeOK', RegisterInv, Later, NEW t \in Threads, CanCall(t),
         NEW f \in Frames, NEW g \in Frames, f.at = "register", f.since <= numMessages',
         g.at = "dispatch", g.upTo = f.since, Push(t, <<f, g>>)
  PROVE  RegisterInv'
  <1>1. stack[t] \in Seq(Frames) /\ stack'[t] \in Seq(Frames) /\ stack \in [Threads -> Seq(Frames)]
    BY DEF LogTypeOK
  <1>2. /\ \A u \in Threads : u # t => stack'[u] = stack[u]
        /\ Len(stack'[t]) = Len(stack[t]) + 2
        /\ \A i \in 1 .. Len(stack[t]) : stack'[t][i] = stack[t][i]
        /\ stack'[t][Len(stack[t]) + 1] = f /\ stack'[t][Len(stack[t]) + 2] = g
    BY <1>1, PushedTwo
  <1>3. PICK k \in Nat : k = Len(stack[t]) /\ DOMAIN stack[t] = 1 .. k /\ DOMAIN stack'[t] = 1 .. k + 2
    BY <1>1, <1>2
  <1>4. k # 0 => stack[t][k].at = "callback"
    <2>1. stack[t] = <<>> \/ IsAt(t, "callback")
      BY Callable
    <2>2. IsAt(t, "callback") => stack[t][k].at = "callback"
      BY <1>1, <1>3, AtTop
    <2> QED
      BY <2>1, <2>2, <1>3
  <1>5. ASSUME NEW i \in 1 .. k + 2, stack'[t][i].at = "register"
        PROVE  /\ stack'[t][i].since <= numMessages'
               /\ i < k + 2 /\ stack'[t][i + 1].at = "dispatch"
               /\ stack'[t][i + 1].upTo = stack'[t][i].since
    <2>1. i # k + 2
      BY <1>2, <1>3, <1>5
    <2>2. CASE i = k + 1
      <3>1. i + 1 = k + 2 /\ i < k + 2
        BY <2>2
      <3> QED
        BY <2>2, <3>1, <1>2, <1>3
    <2>3. CASE i # k + 1
      <3>2. i \in 1 .. k /\ stack[t][i].at = "register" /\ i < k + 2
        BY <2>1, <2>3, <1>2, <1>3, <1>5, SMTT(30)
      <3>3. i # k /\ i \in 1 .. k - 1 /\ k - 1 \in Nat
        BY <3>2, <1>4
      <3>4. \A h \in 1 .. k - 1 : stack'[t][h] = stack[t][h]
        BY <1>2, <1>3
      <3>5. /\ k - 1 <= Len(stack[t]) /\ k - 1 <= Len(stack'[t])
            /\ k - 1 < Len(stack[t]) /\ k - 1 < Len(stack'[t])
        BY <1>2, <1>3
      <3>6. k - 1 + 1 = k /\ stack'[t][k] = stack[t][k]
        BY <3>2, <1>2, <1>3
      <3> QED
        BY <3>2, <3>3, <3>4, <3>5, <3>6, RegisterBelow
    <2> QED
      BY <2>2, <2>3
  <1>6. RegisterOrder(t)'
    <2>1. Len(stack'[t]) = k + 2
      BY <1>2, <1>3
    <2> QED
      BY <1>3, <1>5, <2>1 DEF RegisterOrder
  <1> QED
    BY <1>2, <1>6, RegisterKept

(* A return: of a dispatch that has served every channel, or another.      *)
LEMMA RegisterPopped ==
  ASSUME LogTypeOK, LogTypeOK', RegisterInv, DispatchInv, Later, NEW t \in Threads, NEW where, IsAt(t, where),
         where = "dispatch" => Top(t).todo = {} /\ UNCHANGED <<loggers, pending>>, Pop(t)
  PROVE  RegisterInv'
  <1>1. stack[t] \in Seq(Frames) /\ stack'[t] \in Seq(Frames) /\ stack \in [Threads -> Seq(Frames)]
    BY DEF LogTypeOK
  <1>2. stack[t] # <<>> /\ Len(stack[t]) \in Nat \ {0} /\ Top(t) = stack[t][Len(stack[t])] /\ Top(t).at = where
    BY <1>1, AtTop
  <1>3. /\ \A u \in Threads : u # t => stack'[u] = stack[u]
        /\ Len(stack'[t]) = Len(stack[t]) - 1
        /\ \A i \in 1 .. Len(stack[t]) - 1 : stack'[t][i] = stack[t][i]
    BY <1>1, <1>2, Popped
  <1>4. PICK k \in Nat : /\ k + 1 = Len(stack[t]) /\ k = Len(stack'[t])
                         /\ DOMAIN stack[t] = 1 .. k + 1 /\ DOMAIN stack'[t] = 1 .. k
    <2>1. Len(stack[t]) - 1 \in Nat /\ (Len(stack[t]) - 1) + 1 = Len(stack[t])
      BY <1>2
    <2> QED
      BY <2>1, <1>1, <1>3
  <1>5. \A i \in 1 .. k : stack'[t][i] = stack[t][i]
    BY <1>3, <1>4
  <1>6. ASSUME NEW i \in 1 .. k, stack'[t][i].at = "register"
        PROVE  /\ stack'[t][i].since <= numMessages'
               /\ i < k => /\ stack'[t][i + 1].at = "dispatch"
                           /\ stack'[t][i + 1].upTo = stack'[t][i].since
               /\ i = k => \A c \in loggers' : \A m \in ToSet(pending'[c]) : m > stack'[t][i].since
    <2>1. stack[t][i].at = "register" /\ i \in 1 .. k + 1 /\ i < k + 1
      BY <1>5, <1>6
    <2>2. /\ stack[t][i].since <= numMessages
          /\ stack[t][i + 1].at = "dispatch" /\ stack[t][i + 1].upTo = stack[t][i].since
      BY <2>1, <1>4 DEF RegisterInv
    <2>3. stack[t][i].since <= numMessages'
      BY <2>1, <2>2, <1>1, <1>4, RegisterLater
    <2>4. ASSUME i < k
          PROVE  stack'[t][i + 1].at = "dispatch" /\ stack'[t][i + 1].upTo = stack'[t][i].since
      <3>1. i + 1 \in 1 .. k
        BY <2>4
      <3> QED
        BY <3>1, <2>2, <1>5
    <2>5. ASSUME i = k
          PROVE  \A c \in loggers' : \A m \in ToSet(pending'[c]) : m > stack'[t][i].since
      <3>1. where = "dispatch" /\ Top(t).upTo = stack'[t][i].since
        BY <2>2, <2>5, <1>2, <1>4, <1>5
      <3>2. Served(Top(t))
        BY <1>2, <1>4 DEF DispatchInv
      <3> QED
        BY <3>1, <3>2, <1>2 DEF Served
    <2> QED
      BY <2>3, <2>4, <2>5, <1>5
  <1>7. RegisterOrder(t)'
    BY <1>4, <1>6 DEF RegisterOrder
  <1> QED
    BY <1>3, <1>7, RegisterKept

(* A registration that takes the mutex becomes its replay.                 *)
LEMMA RegisterReplaced ==
  ASSUME LogTypeOK, LogTypeOK', RegisterInv, Later, NEW t \in Threads, IsAt(t, "register"),
         NEW f \in Frames, f.at = "deliver", Replace(t, <<f>>)
  PROVE  RegisterInv'
  <1>1. stack[t] \in Seq(Frames) /\ stack'[t] \in Seq(Frames) /\ stack \in [Threads -> Seq(Frames)]
    BY DEF LogTypeOK
  <1>2. stack[t] # <<>> /\ Len(stack[t]) \in Nat \ {0} /\ Top(t) = stack[t][Len(stack[t])] /\ Top(t).at = "register"
    BY <1>1, AtTop
  <1>3. /\ \A u \in Threads : u # t => stack'[u] = stack[u]
        /\ Len(stack'[t]) = Len(stack[t])
        /\ \A i \in 1 .. Len(stack[t]) - 1 : stack'[t][i] = stack[t][i]
        /\ stack'[t][Len(stack[t])] = f
    BY <1>1, <1>2, Replaced
  <1>4. PICK k \in Nat \ {0} : /\ k = Len(stack[t]) /\ k = Len(stack'[t])
                               /\ DOMAIN stack[t] = 1 .. k /\ DOMAIN stack'[t] = 1 .. k
    BY <1>1, <1>2, <1>3
  <1>5. ASSUME NEW i \in 1 .. k, stack'[t][i].at = "register"
        PROVE  /\ stack'[t][i].since <= numMessages'
               /\ i < k /\ stack'[t][i + 1].at = "dispatch"
               /\ stack'[t][i + 1].upTo = stack'[t][i].since
    <2>1. i # k
      BY <1>3, <1>4, <1>5
    <2>2. i \in 1 .. k - 1 /\ k - 1 \in Nat /\ k - 1 + 1 = k
      BY <2>1
    <2>3. stack[t][i].at = "register"
      BY <2>2, <1>3, <1>4, <1>5
    <2>4. \A h \in 1 .. k - 1 : stack'[t][h] = stack[t][h]
      BY <1>3, <1>4
    <2>5. /\ k - 1 <= Len(stack[t]) /\ k - 1 <= Len(stack'[t])
          /\ k - 1 < Len(stack[t]) /\ k - 1 < Len(stack'[t])
      BY <1>4
    <2>6. stack[t][k - 1 + 1].at # "dispatch"
      BY <2>2, <1>2, <1>4
    <2> QED
      BY <2>2, <2>3, <2>4, <2>5, <2>6, <1>4, RegisterBelow
  <1>6. RegisterOrder(t)'
    BY <1>4, <1>5 DEF RegisterOrder
  <1> QED
    BY <1>3, <1>6, RegisterKept

(* A step of a dispatch or of a delivery, with a call on top of it.        *)
LEMMA RegisterReplacedTwo ==
  ASSUME LogTypeOK, LogTypeOK', RegisterInv, Later, NEW t \in Threads, NEW where, IsAt(t, where),
         NEW f \in Frames, NEW g \in Frames, f.at = where, g.at # "register", where # "register",
         where = "dispatch" => f.upTo = Top(t).upTo, Replace(t, <<f, g>>)
  PROVE  RegisterInv'
  <1>1. stack[t] \in Seq(Frames) /\ stack'[t] \in Seq(Frames) /\ stack \in [Threads -> Seq(Frames)]
    BY DEF LogTypeOK
  <1>2. stack[t] # <<>> /\ Len(stack[t]) \in Nat \ {0} /\ Top(t) = stack[t][Len(stack[t])] /\ Top(t).at = where
    BY <1>1, AtTop
  <1>3. /\ \A u \in Threads : u # t => stack'[u] = stack[u]
        /\ Len(stack'[t]) = Len(stack[t]) + 1
        /\ \A i \in 1 .. Len(stack[t]) - 1 : stack'[t][i] = stack[t][i]
        /\ stack'[t][Len(stack[t])] = f /\ stack'[t][Len(stack[t]) + 1] = g
    BY <1>1, <1>2, ReplacedTwo
  <1>4. PICK k \in Nat \ {0} : /\ k = Len(stack[t]) /\ k + 1 = Len(stack'[t])
                               /\ DOMAIN stack[t] = 1 .. k /\ DOMAIN stack'[t] = 1 .. k + 1
    BY <1>1, <1>2, <1>3
  <1>5. ASSUME NEW i \in 1 .. k + 1, stack'[t][i].at = "register"
        PROVE  /\ stack'[t][i].since <= numMessages'
               /\ i < k + 1 /\ stack'[t][i + 1].at = "dispatch"
               /\ stack'[t][i + 1].upTo = stack'[t][i].since
    <2>1. i # k /\ i # k + 1
      BY <1>3, <1>4, <1>5
    <2>2. i \in 1 .. k - 1 /\ k - 1 \in Nat /\ k - 1 + 1 = k
      BY <2>1
    <2>3. stack[t][i].at = "register"
      BY <2>2, <1>3, <1>4, <1>5
    <2>4. \A h \in 1 .. k - 1 : stack'[t][h] = stack[t][h]
      BY <1>3, <1>4
    <2>5. /\ k - 1 <= Len(stack[t]) /\ k - 1 <= Len(stack'[t])
          /\ k - 1 < Len(stack[t]) /\ k - 1 < Len(stack'[t])
      BY <1>4
    <2>6. stack[t][k - 1 + 1].at = "dispatch" =>
            stack'[t][k - 1 + 1].at = "dispatch" /\ stack'[t][k - 1 + 1].upTo = stack[t][k - 1 + 1].upTo
      BY <2>2, <1>2, <1>3, <1>4
    <2>7. PICK n \in Nat : n = k - 1
      BY <2>2
    <2>8. /\ i \in 1 .. n /\ n <= Len(stack[t]) /\ n <= Len(stack'[t])
          /\ \A h \in 1 .. n : stack'[t][h] = stack[t][h]
          /\ n < Len(stack[t]) /\ n < Len(stack'[t])
          /\ stack[t][n + 1].at = "dispatch" =>
               stack'[t][n + 1].at = "dispatch" /\ stack'[t][n + 1].upTo = stack[t][n + 1].upTo
      BY <2>2, <2>4, <2>5, <2>6, <2>7
    <2>9. /\ stack'[t][i].since <= numMessages'
          /\ i < Len(stack'[t]) /\ stack'[t][i + 1].at = "dispatch"
          /\ stack'[t][i + 1].upTo = stack'[t][i].since
      BY <2>3, <2>7, <2>8, RegisterBelow, ZenonT(40)
    <2> QED
      BY <2>9, <1>4
  <1>6. RegisterOrder(t)'
    BY <1>4, <1>5 DEF RegisterOrder
  <1> QED
    BY <1>3, <1>6, RegisterKept
-----------------------------------------------------------------------------
(* Deliveries.                                                             *)
LEMMA NothingOwed ==
  ASSUME NEW f, f.at # "deliver" \/ IsDelivered(f), NEW l, NEW m
  PROVE  ~Has(f, l, m)
  <1>1. DOMAIN <<>> = {}
    OBVIOUS
  <1> QED
    BY <1>1 DEF Has, IsDelivered

(* A step that touches no delivery but those that are over.                *)
Quiet ==
  /\ \A u \in Threads : \A i \in DOMAIN stack'[u] : stack'[u][i].at = "deliver" =>
       i \in DOMAIN stack[u] /\ stack'[u][i] = stack[u][i]
  /\ \A u \in Threads : \A i \in DOMAIN stack[u] : stack[u][i].at = "deliver" =>
       IsDelivered(stack[u][i]) \/ (i \in DOMAIN stack'[u] /\ stack'[u][i] = stack[u][i])

(* A step that begins no registration.                                     *)
NoneRegisters ==
  \A u \in Threads : \A i \in DOMAIN stack'[u] : stack'[u][i].at = "register" =>
    i \in DOMAIN stack[u] /\ stack'[u][i] = stack[u][i]

LEMMA QuietSame ==
  ASSUME UNCHANGED stack
  PROVE  Quiet /\ NoneRegisters
  BY DEF Quiet, NoneRegisters

LEMMA QuietPushed ==
  ASSUME NEW t \in Threads, stack \in [Threads -> Seq(Frames)], NEW f \in Frames, Push(t, <<f>>),
         f.at # "deliver", f.at # "register"
  PROVE  Quiet /\ NoneRegisters
  <1>1. /\ stack' \in [Threads -> Seq(Frames)]
        /\ \A u \in Threads : u # t => stack'[u] = stack[u]
        /\ Len(stack'[t]) = Len(stack[t]) + 1
        /\ \A i \in 1 .. Len(stack[t]) : stack'[t][i] = stack[t][i]
        /\ stack'[t][Len(stack[t]) + 1] = f
    BY Pushed
  <1>2. PICK k \in Nat : k = Len(stack[t]) /\ DOMAIN stack[t] = 1 .. k /\ DOMAIN stack'[t] = 1 .. k + 1
    BY <1>1
  <1>3. \A i \in 1 .. k + 1 : i \in 1 .. k \/ i = k + 1
    OBVIOUS
  <1>4. \A i \in 1 .. k : i \in 1 .. k + 1
    OBVIOUS
  <1>5. /\ \A i \in DOMAIN stack'[t] : (i \in DOMAIN stack[t] /\ stack'[t][i] = stack[t][i]) \/ stack'[t][i] = f
        /\ \A i \in DOMAIN stack[t] : i \in DOMAIN stack'[t] /\ stack'[t][i] = stack[t][i]
    BY <1>1, <1>2, <1>3, <1>4
  <1> QED
    BY <1>1, <1>5 DEF Quiet, NoneRegisters

LEMMA QuietPushedTwo ==
  ASSUME NEW t \in Threads, stack \in [Threads -> Seq(Frames)], NEW f \in Frames, NEW g \in Frames,
         Push(t, <<f, g>>), f.at # "deliver", g.at # "deliver"
  PROVE  Quiet
  <1>1. /\ stack' \in [Threads -> Seq(Frames)]
        /\ \A u \in Threads : u # t => stack'[u] = stack[u]
        /\ Len(stack'[t]) = Len(stack[t]) + 2
        /\ \A i \in 1 .. Len(stack[t]) : stack'[t][i] = stack[t][i]
        /\ stack'[t][Len(stack[t]) + 1] = f /\ stack'[t][Len(stack[t]) + 2] = g
    BY PushedTwo
  <1>2. PICK k \in Nat : k = Len(stack[t]) /\ DOMAIN stack[t] = 1 .. k /\ DOMAIN stack'[t] = 1 .. k + 2
    BY <1>1
  <1>3. \A i \in 1 .. k + 2 : i \in 1 .. k \/ i = k + 1 \/ i = k + 2
    OBVIOUS
  <1>4. \A i \in 1 .. k : i \in 1 .. k + 2
    OBVIOUS
  <1>5. /\ \A i \in DOMAIN stack'[t] :
             (i \in DOMAIN stack[t] /\ stack'[t][i] = stack[t][i]) \/ stack'[t][i] = f \/ stack'[t][i] = g
        /\ \A i \in DOMAIN stack[t] : i \in DOMAIN stack'[t] /\ stack'[t][i] = stack[t][i]
    BY <1>1, <1>2, <1>3, <1>4
  <1> QED
    BY <1>1, <1>5 DEF Quiet

LEMMA QuietPopped ==
  ASSUME NEW t \in Threads, stack \in [Threads -> Seq(Frames)], NEW where, IsAt(t, where), Pop(t),
         where = "deliver" => IsDelivered(Top(t))
  PROVE  Quiet /\ NoneRegisters
  <1>1. stack[t] # <<>> /\ Len(stack[t]) \in Nat \ {0} /\ Top(t) = stack[t][Len(stack[t])] /\ Top(t).at = where
    BY AtTop
  <1>2. /\ stack' \in [Threads -> Seq(Frames)]
        /\ \A u \in Threads : u # t => stack'[u] = stack[u]
        /\ Len(stack'[t]) = Len(stack[t]) - 1
        /\ \A i \in 1 .. Len(stack[t]) - 1 : stack'[t][i] = stack[t][i]
    BY <1>1, Popped
  <1>3. PICK k \in Nat : k + 1 = Len(stack[t]) /\ DOMAIN stack[t] = 1 .. k + 1 /\ DOMAIN stack'[t] = 1 .. k
    <2>1. Len(stack[t]) - 1 \in Nat /\ (Len(stack[t]) - 1) + 1 = Len(stack[t])
      BY <1>1
    <2> QED
      BY <2>1, <1>2
  <1>4. \A i \in 1 .. k + 1 : i \in 1 .. k \/ i = k + 1
    OBVIOUS
  <1>5. (\A i \in 1 .. k : i \in 1 .. k + 1) /\ 1 .. Len(stack[t]) - 1 = 1 .. k
    BY <1>3
  <1>6. /\ \A i \in DOMAIN stack'[t] : i \in DOMAIN stack[t] /\ stack'[t][i] = stack[t][i]
        /\ \A i \in DOMAIN stack[t] : (i \in DOMAIN stack'[t] /\ stack'[t][i] = stack[t][i]) \/ stack[t][i] = Top(t)
    BY <1>1, <1>2, <1>3, <1>4, <1>5
  <1> QED
    BY <1>1, <1>2, <1>6 DEF Quiet, NoneRegisters

LEMMA OnceHere ==
  ASSUME OnceInv, NEW l \in AllListeners, NEW m \in Messages, NEW t \in Threads, NEW i \in DOMAIN stack[t],
         Has(stack[t][i], l, m)
  PROVE  /\ received[l][m] = 0
         /\ \A u \in Threads : \A h \in DOMAIN stack[u] : Has(stack[u][h], l, m) => u = t /\ h = i
  BY Zenon DEF OnceInv

LEMMA QuietKeeps ==
  ASSUME LogTypeOK, LogTypeOK', Quiet, UNCHANGED received, Settled \subseteq Settled', DeliveryInv, OnceInv
  PROVE  /\ DeliveryInv' /\ OnceInv'
         /\ \A l \in AllListeners, m \in Messages : Got(l, m)' <=> Got(l, m)
  <1>1. DeliveryInv'
    <2> SUFFICES ASSUME NEW u \in Threads, NEW i \in DOMAIN stack'[u], stack'[u][i].at = "deliver"
                 PROVE  GoodDelivery(stack[u][i])'
      BY DEF DeliveryInv, GoodDelivery
    <2>1. i \in DOMAIN stack[u] /\ stack'[u][i] = stack[u][i]
      BY DEF Quiet
    <2>2. GoodDelivery(stack[u][i])
      BY <2>1 DEF DeliveryInv
    <2> QED
      BY <2>1, <2>2 DEF GoodDelivery
  <1>2. ASSUME NEW l, NEW m, NEW u \in Threads, NEW i \in DOMAIN stack'[u], Has(stack'[u][i], l, m)
        PROVE  i \in DOMAIN stack[u] /\ Has(stack[u][i], l, m)
    <2>1. stack'[u][i].at = "deliver"
      BY <1>2 DEF Has
    <2>2. i \in DOMAIN stack[u] /\ stack'[u][i] = stack[u][i]
      BY <2>1 DEF Quiet
    <2> QED
      BY <1>2, <2>2
  <1>3. ASSUME NEW l, NEW m, NEW u \in Threads, NEW i \in DOMAIN stack[u], Has(stack[u][i], l, m)
        PROVE  i \in DOMAIN stack'[u] /\ Has(stack'[u][i], l, m)
    <2>1. stack[u][i].at = "deliver"
      BY <1>3 DEF Has
    <2>2. ~IsDelivered(stack[u][i])
      BY <1>3, NothingOwed
    <2>3. i \in DOMAIN stack'[u] /\ stack'[u][i] = stack[u][i]
      BY <2>1, <2>2 DEF Quiet
    <2> QED
      BY <1>3, <2>3
  <1>4. OnceInv'
    <2> SUFFICES ASSUME NEW l \in AllListeners, NEW m \in Messages
                 PROVE  /\ received'[l][m] \in {0, 1}
                        /\ received'[l][m] # 0 => m \in Settled'
                        /\ \A t \in Threads : \A i \in DOMAIN stack'[t] : Has(stack'[t][i], l, m) =>
                             /\ received'[l][m] = 0
                             /\ \A u \in Threads : \A h \in DOMAIN stack'[u] :
                                  Has(stack'[u][h], l, m) => u = t /\ h = i
      BY DEF OnceInv
    <2>1. received'[l][m] \in {0, 1} /\ (received'[l][m] # 0 => m \in Settled')
      BY DEF OnceInv
    <2>2. ASSUME NEW t \in Threads, NEW i \in DOMAIN stack'[t], Has(stack'[t][i], l, m)
          PROVE  /\ received'[l][m] = 0
                 /\ \A u \in Threads : \A h \in DOMAIN stack'[u] :
                      Has(stack'[u][h], l, m) => u = t /\ h = i
      <3>1. i \in DOMAIN stack[t] /\ Has(stack[t][i], l, m)
        BY <1>2, <2>2
      <3>2. /\ received[l][m] = 0
            /\ \A u \in Threads : \A h \in DOMAIN stack[u] : Has(stack[u][h], l, m) => u = t /\ h = i
        BY <3>1, OnceHere
      <3>3. ASSUME NEW u \in Threads, NEW h \in DOMAIN stack'[u], Has(stack'[u][h], l, m)
            PROVE  u = t /\ h = i
        <4>1. h \in DOMAIN stack[u] /\ Has(stack[u][h], l, m)
          BY <1>2, <3>3
        <4> QED
          BY <4>1, <3>2
      <3> QED
        BY <3>2, <3>3
    <2> QED
      BY <2>1, <2>2
  <1>5. ASSUME NEW l \in AllListeners, NEW m \in Messages PROVE Got(l, m)' <=> Got(l, m)
    <2>1. (\E t \in Threads : \E i \in DOMAIN stack'[t] : Has(stack'[t][i], l, m))
            <=> \E t \in Threads : \E i \in DOMAIN stack[t] : Has(stack[t][i], l, m)
      BY <1>2, <1>3
    <2> QED
      BY <2>1 DEF Got
  <1> QED
    BY <1>1, <1>4, <1>5
LEMMA DeliveringHas ==
  ASSUME NEW s \in Seq(Messages), NEW p \in Seq(AllListeners), NEW l, NEW m
  PROVE  Has(Delivering(s, p), l, m) <=> m \in ToSet(s) /\ l \in ToSet(p)
  <1>1. /\ Delivering(s, p).at = "deliver" /\ Delivering(s, p).messages = s
        /\ Delivering(s, p).called = p /\ Delivering(s, p).done = 0
    BY DEF Delivering
  <1>2. DOMAIN p = 1 .. Len(p) /\ Len(p) \in Nat
    OBVIOUS
  <1>3. \A j \in DOMAIN p : j > 0
    BY <1>2
  <1>4. Has(Delivering(s, p), l, m) <=> \E k \in DOMAIN s, j \in DOMAIN p : s[k] = m /\ p[j] = l /\ (k = 1 => j > 0)
    BY <1>1, Zenon DEF Has, Owes
  <1> QED
    BY <1>3, <1>4, Zenon DEF ToSet

LEMMA HasSettled ==
  ASSUME LogTypeOK, DeliveryInv, NEW u \in Threads, NEW i \in DOMAIN stack[u], NEW l, NEW m,
         Has(stack[u][i], l, m)
  PROVE  m \in Settled
  <1>1. stack[u][i].at = "deliver" /\ \E k \in DOMAIN stack[u][i].messages : stack[u][i].messages[k] = m
    BY Zenon DEF Has, Owes
  <1>2. ToSet(stack[u][i].messages) \subseteq Settled
    BY <1>1 DEF DeliveryInv, GoodDelivery
  <1> QED
    BY <1>1, <1>2, Zenon DEF ToSet

LEMMA GotSettled ==
  ASSUME LogTypeOK, DeliveryInv, OnceInv, NEW l \in AllListeners, NEW m \in Messages, Got(l, m)
  PROVE  m \in Settled
  BY HasSettled DEF Got, OnceInv

(* A delivery enters, with calls nobody has made or will make.             *)
LEMMA NewDelivery ==
  ASSUME LogTypeOK, OnceInv, DeliveryInv, UNCHANGED received, Settled \subseteq Settled',
         NEW t \in Threads, NEW n \in DOMAIN stack'[t], NEW g, stack'[t][n] = g, GoodDelivery(stack[t][n])',
         \A u \in Threads : \A i \in DOMAIN stack'[u] : stack'[u][i].at = "deliver" =>
           (u = t /\ i = n) \/ (i \in DOMAIN stack[u] /\ stack'[u][i] = stack[u][i]),
         \A u \in Threads : \A i \in DOMAIN stack[u] : stack[u][i].at = "deliver" =>
           i \in DOMAIN stack'[u] /\ stack'[u][i] = stack[u][i],
         \A l \in AllListeners, m \in Messages : Has(g, l, m) => ~Got(l, m)
  PROVE  /\ DeliveryInv' /\ OnceInv'
         /\ \A l \in AllListeners, m \in Messages : Got(l, m)' <=> Got(l, m) \/ Has(g, l, m)
  <1>1. DeliveryInv'
    <2> SUFFICES ASSUME NEW u \in Threads, NEW i \in DOMAIN stack'[u], stack'[u][i].at = "deliver"
                 PROVE  GoodDelivery(stack[u][i])'
      BY DEF DeliveryInv, GoodDelivery
    <2>1. CASE u = t /\ i = n
      BY <2>1
    <2>2. CASE i \in DOMAIN stack[u] /\ stack'[u][i] = stack[u][i]
      <3>1. GoodDelivery(stack[u][i])
        BY <2>2 DEF DeliveryInv
      <3> QED
        BY <2>2, <3>1 DEF GoodDelivery
    <2> QED
      BY <2>1, <2>2
  <1>2. ASSUME NEW l, NEW m, NEW u \in Threads, NEW i \in DOMAIN stack'[u], Has(stack'[u][i], l, m)
        PROVE  \/ u = t /\ i = n /\ Has(g, l, m)
               \/ i \in DOMAIN stack[u] /\ Has(stack[u][i], l, m)
    <2>1. stack'[u][i].at = "deliver"
      BY <1>2 DEF Has
    <2> QED
      BY <1>2, <2>1
  <1>3. ASSUME NEW l, NEW m, NEW u \in Threads, NEW i \in DOMAIN stack[u], Has(stack[u][i], l, m)
        PROVE  i \in DOMAIN stack'[u] /\ Has(stack'[u][i], l, m)
    <2>1. stack[u][i].at = "deliver"
      BY <1>3 DEF Has
    <2> QED
      BY <1>3, <2>1
  <1>4. OnceInv'
    <2> SUFFICES ASSUME NEW l \in AllListeners, NEW m \in Messages
                 PROVE  /\ received'[l][m] \in {0, 1}
                        /\ received'[l][m] # 0 => m \in Settled'
                        /\ \A u \in Threads : \A i \in DOMAIN stack'[u] : Has(stack'[u][i], l, m) =>
                             /\ received'[l][m] = 0
                             /\ \A v \in Threads : \A h \in DOMAIN stack'[v] :
                                  Has(stack'[v][h], l, m) => v = u /\ h = i
      BY DEF OnceInv
    <2>1. received'[l][m] \in {0, 1} /\ (received'[l][m] # 0 => m \in Settled')
      BY DEF OnceInv
    <2>2. CASE Has(g, l, m)
      <3>1. received[l][m] = 0 /\ \A u \in Threads : \A i \in DOMAIN stack[u] : ~Has(stack[u][i], l, m)
        BY <2>2 DEF Got
      <3>2. \A u \in Threads : \A i \in DOMAIN stack'[u] : Has(stack'[u][i], l, m) => u = t /\ i = n
        BY <3>1, <1>2
      <3> QED
        BY <2>1, <3>1, <3>2
    <2>3. CASE ~Has(g, l, m)
      <3>1. \A u \in Threads : \A i \in DOMAIN stack'[u] : Has(stack'[u][i], l, m) =>
              i \in DOMAIN stack[u] /\ Has(stack[u][i], l, m)
        BY <2>3, <1>2
      <3>2. ASSUME NEW u \in Threads, NEW i \in DOMAIN stack'[u], Has(stack'[u][i], l, m)
            PROVE  /\ received'[l][m] = 0
                   /\ \A v \in Threads : \A h \in DOMAIN stack'[v] :
                        Has(stack'[v][h], l, m) => v = u /\ h = i
        <4>1. i \in DOMAIN stack[u] /\ Has(stack[u][i], l, m)
          BY <3>1, <3>2
        <4>2. /\ received[l][m] = 0
              /\ \A v \in Threads : \A h \in DOMAIN stack[v] : Has(stack[v][h], l, m) => v = u /\ h = i
          BY <4>1, OnceHere
        <4> QED
          BY <4>2, <3>1
      <3> QED
        BY <2>1, <3>2
    <2> QED
      BY <2>2, <2>3
  <1>5. ASSUME NEW l \in AllListeners, NEW m \in Messages PROVE Got(l, m)' <=> Got(l, m) \/ Has(g, l, m)
    <2>1. (\E u \in Threads : \E i \in DOMAIN stack'[u] : Has(stack'[u][i], l, m)) <=>
            \/ \E u \in Threads : \E i \in DOMAIN stack[u] : Has(stack[u][i], l, m)
            \/ Has(g, l, m)
      BY <1>2, <1>3
    <2> QED
      BY <2>1 DEF Got
  <1> QED
    BY <1>1, <1>4, <1>5

(* A callback begins: its call is no longer to come, and is received.      *)
LEMMA DeliverKeeps ==
  ASSUME LogTypeOK, OnceInv, DeliveryInv, NEW t \in Threads, Deliver(t)
  PROVE  /\ DeliveryInv' /\ OnceInv' /\ NoneRegisters
         /\ \A l \in AllListeners, m \in Messages : Got(l, m)' <=> Got(l, m)
  <1>1. stack \in [Threads -> Seq(Frames)] /\ IsAt(t, "deliver")
    BY DEF LogTypeOK, Deliver
  <1>2. PICK k \in Nat \ {0} : k = Len(stack[t]) /\ DOMAIN stack[t] = 1 .. k
    BY <1>1, AtTop
  <1>3. PICK f \in Frames : f = Top(t) /\ f = stack[t][k] /\ f.at = "deliver"
    BY <1>1, <1>2, AtTop
  <1>4. k \in 1 .. k
    OBVIOUS
  <1>5. GoodDelivery(f) /\ ~IsDelivered(f)
    BY <1>2, <1>3, <1>4 DEF DeliveryInv, Deliver
  <1>6. PICK g \in Frames, l0 \in AllListeners, m0 \in Messages :
          /\ g = Advanced(f) /\ l0 = f.called[f.done + 1] /\ m0 = Head(f.messages)
          /\ g.at = "deliver" /\ GoodDelivery(g) /\ Has(f, l0, m0) /\ ~Has(g, l0, m0)
          /\ \A l, m : Has(g, l, m) => Has(f, l, m)
          /\ \A l, m : Has(f, l, m) => Has(g, l, m) \/ (l = l0 /\ m = m0)
    BY <1>3, <1>5, AdvancedFrame
  <1>7. /\ stack' \in [Threads -> Seq(Frames)]
        /\ \A u \in Threads : u # t => stack'[u] = stack[u]
        /\ Len(stack'[t]) = k + 1
        /\ \A i \in 1 .. k - 1 : stack'[t][i] = stack[t][i]
        /\ stack'[t][k] = g /\ stack'[t][k + 1] = [at |-> "callback"]
    <2>1. Replace(t, <<g, [at |-> "callback"]>>) /\ [at |-> "callback"] \in Frames /\ stack[t] # <<>>
      BY <1>1, <1>3, <1>6, AtTop DEF Deliver, Frames
    <2> QED
      BY <1>1, <1>2, <2>1, ReplacedTwo
  <1>8. DOMAIN stack'[t] = 1 .. k + 1
    BY <1>7
  <1>9. received' = [received EXCEPT ![l0][m0] = @ + 1]
    BY <1>3, <1>6 DEF Deliver
  <1>10. Settled' = Settled
    BY DEF Deliver, queues, Settled, Written, Pending
  <1>11. \A i \in 1 .. k + 1 : i \in 1 .. k - 1 \/ i = k \/ i = k + 1
    OBVIOUS
  <1>12. \A i \in 1 .. k : i \in 1 .. k + 1 /\ (i # k => i \in 1 .. k - 1)
    OBVIOUS
  <1>13. ASSUME NEW u \in Threads, NEW i \in DOMAIN stack'[u]
         PROVE  \/ i \in DOMAIN stack[u] /\ stack'[u][i] = stack[u][i] /\ ~(u = t /\ i = k)
                \/ u = t /\ i = k /\ stack'[u][i] = g /\ stack[u][i] = f /\ i \in DOMAIN stack[u]
                \/ stack'[u][i].at = "callback"
    <2>1. CASE u = t
      <3>1. i \in 1 .. k - 1 => i \in 1 .. k /\ i # k
        OBVIOUS
      <3> QED
        BY <2>1, <3>1, <1>2, <1>3, <1>4, <1>7, <1>8, <1>11
    <2>2. CASE u # t
      BY <2>2, <1>7
    <2> QED
      BY <2>1, <2>2
  <1>14. ASSUME NEW u \in Threads, NEW i \in DOMAIN stack[u]
         PROVE  /\ i \in DOMAIN stack'[u]
                /\ \/ stack'[u][i] = stack[u][i]
                   \/ u = t /\ i = k /\ stack'[u][i] = g /\ stack[u][i] = f
    BY <1>2, <1>3, <1>7, <1>8, <1>12
  <1>15. DeliveryInv'
    <2> SUFFICES ASSUME NEW u \in Threads, NEW i \in DOMAIN stack'[u], stack'[u][i].at = "deliver"
                 PROVE  GoodDelivery(stack[u][i])'
      BY DEF DeliveryInv, GoodDelivery
    <2>1. CASE i \in DOMAIN stack[u] /\ stack'[u][i] = stack[u][i]
      <3>1. GoodDelivery(stack[u][i])
        BY <2>1 DEF DeliveryInv
      <3> QED
        BY <2>1, <3>1, <1>10 DEF GoodDelivery
    <2>2. CASE stack'[u][i] = g
      BY <2>2, <1>6, <1>10 DEF GoodDelivery
    <2> QED
      BY <2>1, <2>2, <1>13
  <1>16. received[l0][m0] = 0 /\ m0 \in Settled /\
           \A u \in Threads : \A i \in DOMAIN stack[u] : Has(stack[u][i], l0, m0) => u = t /\ i = k
    <2>1. k \in DOMAIN stack[t] /\ Has(stack[t][k], l0, m0)
      BY <1>2, <1>3, <1>4, <1>6
    <2>2. m0 \in Settled
      BY <2>1, HasSettled
    <2> QED
      BY <2>1, <2>2, Zenon DEF OnceInv
  <1>17. ASSUME NEW l \in AllListeners, NEW m \in Messages, NEW u \in Threads, NEW i \in DOMAIN stack'[u],
                Has(stack'[u][i], l, m)
         PROVE  i \in DOMAIN stack[u] /\ Has(stack[u][i], l, m) /\ ~(l = l0 /\ m = m0)
    <2>1. CASE i \in DOMAIN stack[u] /\ stack'[u][i] = stack[u][i] /\ ~(u = t /\ i = k)
      BY <1>16, <1>17, <2>1
    <2>2. CASE u = t /\ i = k /\ stack'[u][i] = g /\ stack[u][i] = f /\ i \in DOMAIN stack[u]
      BY <1>6, <1>17, <2>2
    <2>3. CASE stack'[u][i].at = "callback"
      BY <2>3, <1>17, NothingOwed
    <2> QED
      BY <2>1, <2>2, <2>3, <1>13
  <1>18. ASSUME NEW l \in AllListeners, NEW m \in Messages, NEW u \in Threads, NEW i \in DOMAIN stack[u],
                Has(stack[u][i], l, m), ~(l = l0 /\ m = m0)
         PROVE  i \in DOMAIN stack'[u] /\ Has(stack'[u][i], l, m)
    BY <1>6, <1>14, <1>18
  <1>19. ASSUME NEW l \in AllListeners, NEW m \in Messages
         PROVE  received'[l][m] = IF l = l0 /\ m = m0 THEN 1 ELSE received[l][m]
    BY <1>9, <1>16 DEF LogTypeOK
  <1>20. OnceInv'
    <2> SUFFICES ASSUME NEW l \in AllListeners, NEW m \in Messages
                 PROVE  /\ received'[l][m] \in {0, 1}
                        /\ received'[l][m] # 0 => m \in Settled'
                        /\ \A u \in Threads : \A i \in DOMAIN stack'[u] : Has(stack'[u][i], l, m) =>
                             /\ received'[l][m] = 0
                             /\ \A v \in Threads : \A h \in DOMAIN stack'[v] :
                                  Has(stack'[v][h], l, m) => v = u /\ h = i
      BY DEF OnceInv
    <2>1. received'[l][m] \in {0, 1} /\ (received'[l][m] # 0 => m \in Settled')
      BY <1>10, <1>16, <1>19 DEF OnceInv
    <2>2. ASSUME NEW u \in Threads, NEW i \in DOMAIN stack'[u], Has(stack'[u][i], l, m)
          PROVE  /\ received'[l][m] = 0
                 /\ \A v \in Threads : \A h \in DOMAIN stack'[v] :
                      Has(stack'[v][h], l, m) => v = u /\ h = i
      <3>1. i \in DOMAIN stack[u] /\ Has(stack[u][i], l, m) /\ ~(l = l0 /\ m = m0)
        BY <1>17, <2>2
      <3>2. /\ received[l][m] = 0
            /\ \A v \in Threads : \A h \in DOMAIN stack[v] : Has(stack[v][h], l, m) => v = u /\ h = i
        BY <3>1, OnceHere
      <3>3. received'[l][m] = 0
        BY <3>1, <3>2, <1>19
      <3> QED
        BY <3>2, <3>3, <1>17
    <2> QED
      BY <2>1, <2>2
  <1>21. ASSUME NEW l \in AllListeners, NEW m \in Messages PROVE Got(l, m)' <=> Got(l, m)
    <2>1. CASE l = l0 /\ m = m0
      <3>1. Got(l0, m0)
        <4>1. k \in DOMAIN stack[t] /\ Has(stack[t][k], l0, m0)
          BY <1>2, <1>3, <1>4, <1>6
        <4> QED
          BY <4>1, Zenon DEF Got
      <3>2. received'[l][m] # 0
        BY <2>1, <1>19
      <3> QED
        BY <2>1, <3>1, <3>2 DEF Got
    <2>2. CASE ~(l = l0 /\ m = m0)
      <3>1. received'[l][m] = received[l][m]
        BY <2>2, <1>19
      <3>2. (\E u \in Threads : \E i \in DOMAIN stack'[u] : Has(stack'[u][i], l, m)) <=>
              \E u \in Threads : \E i \in DOMAIN stack[u] : Has(stack[u][i], l, m)
        BY <2>2, <1>17, <1>18
      <3> QED
        BY <3>1, <3>2 DEF Got
    <2> QED
      BY <2>1, <2>2
  <1>22. NoneRegisters
    BY <1>6, <1>13 DEF NoneRegisters
  <1> QED
    BY <1>15, <1>20, <1>21, <1>22
-----------------------------------------------------------------------------
(* Lists of listeners, and what listeners get.                             *)
LEMMA DueMessages ==
  ASSUME NEW l \in AllListeners, NEW m
  PROVE  m \in Due(l) <=>
           /\ m \notin registration[l].missed
           /\ IF l \in Listeners THEN m \in Settled /\ l \in ToSet(listeners)
              ELSE \E c \in Channels : l \in ToSet(ownListeners[c]) /\ m \in ToSet(history[c])
  BY DEF Due, Settled

LEMMA SettledTyped ==
  ASSUME LogTypeOK
  PROVE  Settled \subseteq Messages
  <1>1. 1 .. numMessages \subseteq 1 .. MaxMessages
    BY LogAssumption DEF LogTypeOK
  <1> QED
    BY <1>1 DEF Settled, Written, Messages

(* Nothing happens to what listeners get, and no list gets longer.         *)
LEMMA ListsKept ==
  ASSUME LogTypeOK, LogTypeOK', ListInv, ServiceInv, NoneRegisters,
         UNCHANGED <<registration, history>>, Settled' = Settled,
         ToSet(listeners') \subseteq ToSet(listeners), Distinct(listeners'),
         \A c \in Channels : ToSet(ownListeners'[c]) \subseteq ToSet(ownListeners[c]) /\ Distinct(ownListeners'[c]),
         \A l \in AllListeners, m \in Messages : Got(l, m)' <=> Got(l, m)
  PROVE  ListInv' /\ ServiceInv'
  <1>1. \A l \in AllListeners : Unknown(l) => Unknown(l)'
    BY DEF Unknown
  <1>2. \A u \in Threads : \A i \in DOMAIN stack'[u] : \A l :
          Registers(u, i, l)' => i \in DOMAIN stack[u] /\ Registers(u, i, l)
    BY DEF NoneRegisters, Registers
  <1>3. ASSUME NEW l \in AllListeners, ~registration'[l].used
        PROVE  Unknown(l)' /\ \A u \in Threads : \A i \in DOMAIN stack'[u] : ~Registers(u, i, l)'
    BY <1>1, <1>2, <1>3 DEF ListInv
  <1>4. ASSUME NEW l \in Listeners, NEW t \in Threads, NEW i \in DOMAIN stack'[t], Registers(t, i, l)'
        PROVE  /\ Unknown(l)'
               /\ \A u \in Threads : \A h \in DOMAIN stack'[u] : Registers(u, h, l)' => u = t /\ h = i
    <2>1. i \in DOMAIN stack[t] /\ Registers(t, i, l) /\ l \in AllListeners
      BY <1>2, <1>4 DEF AllListeners
    <2>2. Unknown(l) /\ \A u \in Threads : \A h \in DOMAIN stack[u] : Registers(u, h, l) => u = t /\ h = i
      BY <2>1, Zenon DEF ListInv
    <2> QED
      BY <2>1, <2>2, <1>1, <1>2
  <1>5. ListInv'
    BY <1>3, <1>4 DEF ListInv
  <1>6. ASSUME NEW l \in AllListeners, NEW m \in Due(l)' PROVE Got(l, m)'
    <2>1. /\ m \notin registration[l].missed
          /\ IF l \in Listeners THEN m \in Settled /\ l \in ToSet(listeners')
             ELSE \E c \in Channels : l \in ToSet(ownListeners'[c]) /\ m \in ToSet(history[c])
      BY <1>6 DEF Due, Settled
    <2>2. m \in Due(l)
      BY <2>1, DueMessages
    <2>3. m \in Messages
      <3>1. \A c \in Channels : ToSet(history[c]) \subseteq Messages
        BY ElementsTyped DEF LogTypeOK
      <3> QED
        BY <3>1, <2>1, SettledTyped
    <2> QED
      BY <2>2, <2>3 DEF ServiceInv
  <1>7. ASSUME NEW l \in Listeners, NEW m \in 1 .. registration'[l].skipsUpTo
        PROVE  m \in Settled' /\ ~Got(l, m)'
    <2>1. m \in Settled /\ ~Got(l, m) /\ l \in AllListeners
      BY <1>7 DEF ServiceInv, AllListeners
    <2> QED
      BY <2>1, SettledTyped
  <1> QED
    BY <1>5, <1>6, <1>7 DEF ServiceInv

(* A dispatch serves a channel: its messages go to its and to the global   *)
(* listeners.                                                              *)
LEMMA DispatchLists ==
  ASSUME LogTypeOK, LogTypeOK', ListInv, ServiceInv, NoneRegisters, NEW c \in Channels,
         UNCHANGED registry, Settled' = Settled \cup ToSet(pending[c]),
         ToSet(history'[c]) \subseteq ToSet(history[c]) \cup ToSet(pending[c]),
         \A d \in Channels : d # c => history'[d] = history[d],
         \A l \in AllListeners, m \in Messages :
           Got(l, m)' <=> Got(l, m) \/ (m \in ToSet(pending[c]) /\ l \in ToSet(ownListeners[c]) \cup ToSet(listeners))
  PROVE  ListInv' /\ ServiceInv'
  <1>0. UNCHANGED <<listeners, ownListeners, registration>>
    BY DEF registry
  <1>1. \A l \in AllListeners : Unknown(l) => Unknown(l)'
    BY <1>0 DEF Unknown
  <1>2. \A u \in Threads : \A i \in DOMAIN stack'[u] : \A l :
          Registers(u, i, l)' => i \in DOMAIN stack[u] /\ Registers(u, i, l)
    BY DEF NoneRegisters, Registers
  <1>3. ASSUME NEW l \in AllListeners, ~registration'[l].used
        PROVE  Unknown(l)' /\ \A u \in Threads : \A i \in DOMAIN stack'[u] : ~Registers(u, i, l)'
    BY <1>0, <1>1, <1>2, <1>3 DEF ListInv
  <1>4. ASSUME NEW l \in Listeners, NEW t \in Threads, NEW i \in DOMAIN stack'[t], Registers(t, i, l)'
        PROVE  /\ Unknown(l)'
               /\ \A u \in Threads : \A h \in DOMAIN stack'[u] : Registers(u, h, l)' => u = t /\ h = i
    <2>1. i \in DOMAIN stack[t] /\ Registers(t, i, l) /\ l \in AllListeners
      BY <1>2, <1>4 DEF AllListeners
    <2>2. Unknown(l) /\ \A u \in Threads : \A h \in DOMAIN stack[u] : Registers(u, h, l) => u = t /\ h = i
      BY <2>1, Zenon DEF ListInv
    <2> QED
      BY <2>1, <2>2, <1>1, <1>2
  <1>5. ListInv'
    BY <1>0, <1>3, <1>4 DEF ListInv
  <1>6. ASSUME NEW l \in AllListeners, NEW m \in Due(l)' PROVE Got(l, m)'
    <2>1. /\ m \notin registration[l].missed
          /\ IF l \in Listeners THEN m \in Settled' /\ l \in ToSet(listeners)
             ELSE \E d \in Channels : l \in ToSet(ownListeners[d]) /\ m \in ToSet(history'[d])
      BY <1>0, <1>6 DEF Due, Settled
    <2>2. m \in Messages
      <3>1. \A d \in Channels : ToSet(history'[d]) \subseteq Messages
        <4> TAKE d \in Channels
        <4>1. history'[d] \in Seq(Messages)
          BY DEF LogTypeOK
        <4> QED
          BY <4>1, ElementsTyped
      <3>2. Settled' \subseteq Messages
        BY SettledTyped, PendingTyped
      <3> QED
        BY <3>1, <3>2, <2>1
    <2>3. CASE l \in Listeners
      <3>1. m \in Settled => m \in Due(l)
        BY <2>1, <2>3, DueMessages
      <3> QED
        BY <3>1, <2>1, <2>2, <2>3 DEF ServiceInv
    <2>4. CASE l \notin Listeners
      <3>1. PICK d \in Channels : l \in ToSet(ownListeners[d]) /\ m \in ToSet(history'[d])
        BY <2>1, <2>4
      <3>2. m \in ToSet(history[d]) => m \in Due(l)
        BY <2>1, <2>4, <3>1, DueMessages
      <3>3. m \in ToSet(history[d]) \/ (d = c /\ m \in ToSet(pending[c]))
        BY <3>1
      <3> QED
        BY <3>1, <3>2, <3>3, <2>2 DEF ServiceInv
    <2> QED
      BY <2>3, <2>4
  <1>7. ASSUME NEW l \in Listeners, NEW m \in 1 .. registration'[l].skipsUpTo
        PROVE  m \in Settled' /\ ~Got(l, m)'
    <2>1. m \in Settled /\ ~Got(l, m) /\ l \in AllListeners
      BY <1>0, <1>7 DEF ServiceInv, AllListeners
    <2>2. m \notin ToSet(pending[c])
      BY <2>1, SettledMessages
    <2> QED
      BY <2>1, <2>2, SettledTyped
  <1> QED
    BY <1>5, <1>6, <1>7 DEF ServiceInv
(* RegisterListener begins: its frame is the only registration of its key. *)
LEMMA RegisterListenerLists ==
  ASSUME LogTypeOK, LogTypeOK', ListInv, ServiceInv, NEW t \in Threads, NEW l0 \in Listeners, NEW flush \in BOOLEAN,
         RegisterListener(t, l0, flush),
         \A l \in AllListeners, m \in Messages : Got(l, m)' <=> Got(l, m)
  PROVE  ListInv' /\ ServiceInv'
  <1>0. UNCHANGED <<listeners, ownListeners, history>> /\ Settled' = Settled
    BY DEF RegisterListener, queues, Settled, Written, Pending
  <1>1. l0 \in AllListeners /\ ~registration[l0].used
    BY DEF RegisterListener, AllListeners
  <1>2. /\ \A l \in AllListeners : registration'[l].missed = registration[l].missed
        /\ \A l \in AllListeners : registration'[l].skipsUpTo = registration[l].skipsUpTo
        /\ \A l \in AllListeners : ~registration'[l].used => l # l0 /\ ~registration[l].used
    BY <1>1 DEF RegisterListener, LogTypeOK
  <1>3. PICK f \in Frames : /\ f = [at |-> "register", listener |-> l0, flush |-> flush, since |-> numMessages]
                            /\ Push(t, <<f, Dispatching>>)
    BY RegisterListenerTypes DEF RegisterListener
  <1>4. PICK g \in Frames : g = Dispatching /\ g.at = "dispatch"
    BY DispatchingFrame DEF Dispatching
  <1>5. /\ stack' \in [Threads -> Seq(Frames)] /\ stack \in [Threads -> Seq(Frames)]
        /\ \A u \in Threads : u # t => stack'[u] = stack[u]
        /\ Len(stack'[t]) = Len(stack[t]) + 2
        /\ \A i \in 1 .. Len(stack[t]) : stack'[t][i] = stack[t][i]
        /\ stack'[t][Len(stack[t]) + 1] = f /\ stack'[t][Len(stack[t]) + 2] = g
    <2>1. stack \in [Threads -> Seq(Frames)]
      BY DEF LogTypeOK
    <2>2. Push(t, <<f, g>>)
      BY <1>3, <1>4
    <2> QED
      BY <2>1, <2>2, PushedTwo
  <1>6. PICK k \in Nat : k = Len(stack[t]) /\ DOMAIN stack[t] = 1 .. k /\ DOMAIN stack'[t] = 1 .. k + 2
    BY <1>5
  <1>7. \A i \in 1 .. k + 2 : i \in 1 .. k \/ i = k + 1 \/ i = k + 2
    OBVIOUS
  <1>8. ASSUME NEW u \in Threads, NEW i \in DOMAIN stack'[u], NEW l, Registers(u, i, l)'
        PROVE  (i \in DOMAIN stack[u] /\ Registers(u, i, l)) \/ (l = l0 /\ u = t /\ i = k + 1)
    <2>1. CASE u # t
      BY <2>1, <1>5, <1>8 DEF Registers
    <2>2. CASE u = t
      <3>1. i # k + 2
        BY <2>2, <1>4, <1>5, <1>6, <1>8 DEF Registers
      <3>2. i = k + 1 => l = l0
        BY <2>2, <1>3, <1>5, <1>6, <1>8 DEF Registers
      <3>3. i \in 1 .. k => Registers(u, i, l)
        BY <2>2, <1>5, <1>6, <1>8 DEF Registers
      <3> QED
        BY <2>2, <3>1, <3>2, <3>3, <1>6, <1>7
    <2> QED
      BY <2>1, <2>2
  <1>9. \A l \in AllListeners : Unknown(l) => Unknown(l)'
    BY <1>0 DEF Unknown
  <1>10. Unknown(l0) /\ \A u \in Threads : \A i \in DOMAIN stack[u] : ~Registers(u, i, l0)
    BY <1>1 DEF ListInv
  <1>11. ASSUME NEW l \in AllListeners, ~registration'[l].used
         PROVE  Unknown(l)' /\ \A u \in Threads : \A i \in DOMAIN stack'[u] : ~Registers(u, i, l)'
    BY <1>2, <1>8, <1>9, <1>11 DEF ListInv
  <1>12. ASSUME NEW l \in Listeners, NEW v \in Threads, NEW i \in DOMAIN stack'[v], Registers(v, i, l)'
         PROVE  /\ Unknown(l)'
                /\ \A u \in Threads : \A h \in DOMAIN stack'[u] : Registers(u, h, l)' => u = v /\ h = i
    <2>0. l \in AllListeners
      BY DEF AllListeners
    <2>1. CASE l = l0
      BY <2>0, <2>1, <1>8, <1>9, <1>10, <1>12
    <2>2. CASE l # l0
      <3>1. i \in DOMAIN stack[v] /\ Registers(v, i, l)
        BY <2>2, <1>8, <1>12
      <3>2. Unknown(l) /\ \A u \in Threads : \A h \in DOMAIN stack[u] : Registers(u, h, l) => u = v /\ h = i
        BY <3>1, Zenon DEF ListInv
      <3> QED
        BY <2>0, <2>2, <3>2, <1>8, <1>9
    <2> QED
      BY <2>1, <2>2
  <1>13. ListInv'
    BY <1>0, <1>11, <1>12 DEF ListInv
  <1>14. ASSUME NEW l \in AllListeners, NEW m \in Due(l)' PROVE Got(l, m)'
    <2>1. /\ m \notin registration'[l].missed
          /\ IF l \in Listeners THEN m \in Settled' /\ l \in ToSet(listeners)
             ELSE \E c \in Channels : l \in ToSet(ownListeners[c]) /\ m \in ToSet(history[c])
      BY <1>0, <1>14 DEF Due, Settled
    <2>2. m \in Due(l)
      BY <2>1, <1>0, <1>2, DueMessages
    <2>3. m \in Messages
      <3>1. \A c \in Channels : ToSet(history[c]) \subseteq Messages
        BY ElementsTyped DEF LogTypeOK
      <3> QED
        BY <3>1, <2>1, <1>0, SettledTyped
    <2> QED
      BY <2>2, <2>3 DEF ServiceInv
  <1>15. ASSUME NEW l \in Listeners, NEW m \in 1 .. registration'[l].skipsUpTo
         PROVE  m \in Settled' /\ ~Got(l, m)'
    <2>0. l \in AllListeners
      BY DEF AllListeners
    <2>1. m \in Settled /\ ~Got(l, m)
      BY <2>0, <1>2, <1>15 DEF ServiceInv
    <2> QED
      BY <2>0, <2>1, <1>0, SettledTyped
  <1> QED
    BY <1>13, <1>14, <1>15 DEF ServiceInv

(* A listener of one channel enters its list: it is due what comes.        *)
LEMMA RegisterOwnLists ==
  ASSUME LogTypeOK, LogTypeOK', QueueInv, ListInv, ServiceInv, NEW t \in Threads, NEW c \in Channels,
         NEW l0 \in OwnListeners, RegisterOwnListener(t, c, l0),
         \A l \in AllListeners, m \in Messages : Got(l, m)' <=> Got(l, m)
  PROVE  ListInv' /\ ServiceInv'
  <1>0. UNCHANGED <<listeners, history, stack>> /\ Settled' = Settled
    BY DEF RegisterOwnListener, queues, Settled, Written, Pending
  <1>1. l0 \in AllListeners /\ ~registration[l0].used /\ l0 \notin Listeners
    BY LogAssumption DEF RegisterOwnListener, AllListeners
  <1>2. /\ registration'[l0] = [used |-> TRUE, skipsUpTo |-> 0, missed |-> Settled]
        /\ \A l \in AllListeners : l # l0 => registration'[l] = registration[l]
    BY <1>1 DEF RegisterOwnListener, LogTypeOK, Settled
  <1>3. Unknown(l0) /\ \A u \in Threads : \A i \in DOMAIN stack[u] : ~Registers(u, i, l0)
    BY <1>1 DEF ListInv
  <1>4. ownListeners[c] \in Seq(OwnListeners) /\ l0 \notin ToSet(ownListeners[c]) /\ Distinct(ownListeners[c])
    BY <1>3 DEF LogTypeOK, Unknown, ListInv
  <1>5. /\ ownListeners'[c] = Append(ownListeners[c], l0)
        /\ \A d \in Channels : d # c => ownListeners'[d] = ownListeners[d]
    BY DEF RegisterOwnListener, LogTypeOK
  <1>6. ToSet(ownListeners'[c]) = ToSet(ownListeners[c]) \cup {l0} /\ Distinct(ownListeners'[c])
    BY <1>4, <1>5, AppendElements
  <1>7. \A l \in AllListeners : Unknown(l) /\ l # l0 => Unknown(l)'
    BY <1>0, <1>5, <1>6 DEF Unknown
  <1>8. ASSUME NEW l \in AllListeners, ~registration'[l].used
        PROVE  Unknown(l)' /\ \A u \in Threads : \A i \in DOMAIN stack'[u] : ~Registers(u, i, l)'
    <2>1. l # l0
      BY <1>2, <1>8
    <2>2. ~registration[l].used
      BY <2>1, <1>2, <1>8
    <2>3. Unknown(l) /\ \A u \in Threads : \A i \in DOMAIN stack[u] : ~Registers(u, i, l)
      BY <2>2 DEF ListInv
    <2> QED
      BY <2>1, <2>3, <1>0, <1>7 DEF Registers
  <1>9. ASSUME NEW l \in Listeners, NEW v \in Threads, NEW i \in DOMAIN stack'[v], Registers(v, i, l)'
        PROVE  /\ Unknown(l)'
               /\ \A u \in Threads : \A h \in DOMAIN stack'[u] : Registers(u, h, l)' => u = v /\ h = i
    <2>0. l \in AllListeners /\ l # l0
      BY <1>1 DEF AllListeners
    <2>1. i \in DOMAIN stack[v] /\ Registers(v, i, l)
      BY <1>0, <1>9 DEF Registers
    <2>2. Unknown(l) /\ \A u \in Threads : \A h \in DOMAIN stack[u] : Registers(u, h, l) => u = v /\ h = i
      BY <2>1, Zenon DEF ListInv
    <2> QED
      BY <2>0, <2>2, <1>0, <1>7 DEF Registers
  <1>10. ListInv'
    <2>1. \A d \in Channels : Distinct(ownListeners'[d])
      BY <1>5, <1>6 DEF ListInv
    <2> QED
      BY <2>1, <1>0, <1>8, <1>9 DEF ListInv
  <1>11. ASSUME NEW l \in AllListeners, NEW m \in Due(l)' PROVE Got(l, m)'
    <2>1. /\ m \notin registration'[l].missed
          /\ IF l \in Listeners THEN m \in Settled /\ l \in ToSet(listeners)
             ELSE \E d \in Channels : l \in ToSet(ownListeners'[d]) /\ m \in ToSet(history[d])
      BY <1>0, <1>11 DEF Due, Settled
    <2>2. l # l0
      <3>1. \A d \in Channels : ToSet(history[d]) \subseteq Settled
        BY DEF QueueInv
      <3> QED
        BY <3>1, <2>1, <1>1, <1>2
    <2>3. m \in Due(l)
      <3>1. \A d \in Channels : l \in ToSet(ownListeners'[d]) => l \in ToSet(ownListeners[d])
        BY <2>2, <1>5, <1>6
      <3> QED
        BY <3>1, <2>1, <2>2, <1>2, DueMessages
    <2>4. m \in Messages
      <3>1. \A d \in Channels : ToSet(history[d]) \subseteq Messages
        BY ElementsTyped DEF LogTypeOK
      <3> QED
        BY <3>1, <2>1, SettledTyped
    <2> QED
      BY <2>3, <2>4 DEF ServiceInv
  <1>12. ASSUME NEW l \in Listeners, NEW m \in 1 .. registration'[l].skipsUpTo
         PROVE  m \in Settled' /\ ~Got(l, m)'
    <2>0. l \in AllListeners /\ l # l0
      BY <1>1 DEF AllListeners
    <2>1. m \in Settled /\ ~Got(l, m)
      BY <2>0, <1>2, <1>12 DEF ServiceInv
    <2> QED
      BY <2>0, <2>1, <1>0, SettledTyped
  <1> QED
    BY <1>10, <1>11, <1>12 DEF ServiceInv
(* RegisterListener takes the mutex: its listener enters the list, with    *)
(* its replay to come.                                                     *)
LEMMA RegisterLockedStack ==
  ASSUME LogTypeOK, NEW t \in Threads, RegisterLocked(t)
  PROVE  \E k \in Nat \ {0}, s \in Seq(Messages), l0 \in Listeners, g \in Frames :
           /\ l0 = Top(t).listener /\ Top(t) = stack[t][k] /\ Top(t).at = "register"
           /\ ToSet(s) = Flushed(t) /\ Distinct(s) /\ g = Delivering(s, <<l0>>) /\ Replace(t, <<g>>)
           /\ DOMAIN stack[t] = 1 .. k /\ DOMAIN stack'[t] = 1 .. k /\ stack'[t][k] = g
           /\ k = Len(stack[t])
           /\ \A u \in Threads : u # t => stack'[u] = stack[u]
           /\ \A i \in 1 .. k : i # k => stack'[t][i] = stack[t][i]
  <1>1. stack \in [Threads -> Seq(Frames)] /\ IsAt(t, "register")
    BY DEF LogTypeOK, RegisterLocked
  <1>2. PICK k \in Nat \ {0} : k = Len(stack[t]) /\ DOMAIN stack[t] = 1 .. k
    BY <1>1, AtTop
  <1>3. stack[t] # <<>> /\ Top(t) = stack[t][k] /\ Top(t).at = "register" /\ Top(t) \in Frames
    BY <1>1, <1>2, AtTop
  <1>4. PICK l0 \in Listeners : l0 = Top(t).listener
    BY <1>3, FrameFields
  <1>5. PICK s \in SortedByStamp(Flushed(t)) :
          Delivering(s, <<l0>>) \in Frames /\ Replace(t, <<Delivering(s, <<l0>>)>>)
    BY <1>4, RegisterLockedTypes
  <1>6. s \in Seq(Messages) /\ ToSet(s) = Flushed(t) /\ Distinct(s)
    BY FlushedMessages, ReplayElements
  <1>7. PICK g \in Frames : g = Delivering(s, <<l0>>) /\ Replace(t, <<g>>)
    BY <1>5
  <1>8. /\ stack' \in [Threads -> Seq(Frames)]
        /\ \A u \in Threads : u # t => stack'[u] = stack[u]
        /\ Len(stack'[t]) = Len(stack[t])
        /\ \A i \in 1 .. Len(stack[t]) - 1 : stack'[t][i] = stack[t][i]
        /\ stack'[t][Len(stack[t])] = g
    BY <1>1, <1>3, <1>7, Replaced
  <1>9. DOMAIN stack'[t] = 1 .. k
    BY <1>2, <1>8
  <1>10. \A i \in 1 .. k : i # k => i \in 1 .. k - 1
    OBVIOUS
  <1>11. \A i \in 1 .. k : i # k => stack'[t][i] = stack[t][i]
    BY <1>2, <1>8, <1>10
  <1>12. stack'[t][k] = g
    BY <1>2, <1>8
  <1> QED
    BY <1>2, <1>3, <1>4, <1>6, <1>7, <1>8, <1>9, <1>11, <1>12

LEMMA RegisterLockedKeeps ==
  ASSUME LogTypeOK, LogTypeOK', QueueInv, RegisterInv, DeliveryInv, OnceInv, ListInv, ServiceInv,
         NEW t \in Threads, RegisterLocked(t)
  PROVE  DeliveryInv' /\ OnceInv' /\ ListInv' /\ ServiceInv'
  <1>0. UNCHANGED <<loggers, ownListeners, history, pending, numMessages, received>> /\ Settled' = Settled
    BY DEF RegisterLocked, settings, queues, Settled, Written, Pending
  <1>1. PICK k \in Nat \ {0}, s \in Seq(Messages), l0 \in Listeners, g \in Frames :
           /\ l0 = Top(t).listener /\ Top(t) = stack[t][k] /\ Top(t).at = "register"
           /\ ToSet(s) = Flushed(t) /\ Distinct(s) /\ g = Delivering(s, <<l0>>) /\ Replace(t, <<g>>)
           /\ DOMAIN stack[t] = 1 .. k /\ DOMAIN stack'[t] = 1 .. k /\ stack'[t][k] = g
           /\ k = Len(stack[t])
           /\ \A u \in Threads : u # t => stack'[u] = stack[u]
           /\ \A i \in 1 .. k : i # k => stack'[t][i] = stack[t][i]
    BY RegisterLockedStack
  <1>2. k \in DOMAIN stack[t] /\ k \in DOMAIN stack'[t] /\ Registers(t, k, l0) /\ l0 \in AllListeners
    BY <1>1 DEF Registers, AllListeners
  <1>3. /\ Unknown(l0) /\ registration[l0].used
        /\ \A u \in Threads : \A i \in DOMAIN stack[u] : Registers(u, i, l0) => u = t /\ i = k
    BY <1>2 DEF ListInv
  <1>4. <<l0>> \in Seq(AllListeners) /\ ToSet(<<l0>>) = {l0} /\ Distinct(<<l0>>) /\ Len(<<l0>>) = 1
    <2>1. <<l0>> \in Seq(AllListeners) /\ Len(<<l0>>) = 1 /\ <<l0>>[1] = l0
      BY <1>2
    <2>2. Distinct(<<l0>>)
      BY <2>1 DEF Distinct
    <2>3. ToSet(<<l0>>) = {l0}
      BY <2>1 DEF ToSet
    <2> QED
      BY <2>1, <2>2, <2>3
  <1>5. \A l, m : Has(g, l, m) <=> l = l0 /\ m \in Flushed(t)
    <2> TAKE l, m
    <2>1. PICK p \in Seq(AllListeners) : p = <<l0>> /\ ToSet(p) = {l0} /\ g = Delivering(s, p)
      BY <1>1, <1>4
    <2>2. Has(Delivering(s, p), l, m) <=> m \in ToSet(s) /\ l \in ToSet(p)
      BY DeliveringHas
    <2> QED
      BY <1>1, <2>1, <2>2
  <1>6. Flushed(t) \subseteq Settled
    BY DEF Flushed, QueueInv, LogTypeOK
  <1>7. GoodDelivery(g)'
    <2>1. g.messages = s /\ g.called = <<l0>> /\ g.done = 0
      BY <1>1 DEF Delivering
    <2> QED
      BY <2>1, <1>0, <1>1, <1>4, <1>6 DEF GoodDelivery
  <1>8. /\ DeliveryInv' /\ OnceInv'
        /\ \A l \in AllListeners, m \in Messages : Got(l, m)' <=> Got(l, m) \/ Has(g, l, m)
    <2>1. \A u \in Threads : \A i \in DOMAIN stack'[u] : stack'[u][i].at = "deliver" =>
            (u = t /\ i = k) \/ (i \in DOMAIN stack[u] /\ stack'[u][i] = stack[u][i])
      BY <1>1
    <2>2. \A u \in Threads : \A i \in DOMAIN stack[u] : stack[u][i].at = "deliver" =>
            i \in DOMAIN stack'[u] /\ stack'[u][i] = stack[u][i]
      BY <1>1
    <2>3. \A l \in AllListeners, m \in Messages : Has(g, l, m) => ~Got(l, m)
      BY <1>3, <1>5 DEF Unknown
    <2>4. GoodDelivery(stack[t][k])'
      BY <1>1, <1>7 DEF GoodDelivery
    <2>5. received' = received /\ Settled \subseteq Settled' /\ stack'[t][k] = g
      BY <1>0, <1>1
    <2> QED
      BY <2>1, <2>2, <2>3, <2>4, <2>5, <1>2, NewDelivery
  <1>9. \A l \in AllListeners, m \in Messages : Got(l, m)' <=> Got(l, m) \/ (l = l0 /\ m \in Flushed(t))
    BY <1>5, <1>8
  <1>10. /\ listeners' = Append(listeners, l0) /\ ToSet(listeners') = ToSet(listeners) \cup {l0}
         /\ Distinct(listeners')
    <2>1. listeners' = Append(listeners, l0) /\ listeners \in Seq(Listeners)
      BY <1>1 DEF RegisterLocked, LogTypeOK
    <2>2. l0 \notin ToSet(listeners) /\ Distinct(listeners)
      BY <1>3 DEF Unknown, ListInv
    <2> QED
      BY <2>1, <2>2, AppendElements
  <1>11. PICK skip \in Nat, missed \in SUBSET Nat :
           /\ skip = (IF Top(t).flush \/ loggers # Channels THEN 0 ELSE Top(t).since)
           /\ missed = Written \ (Pending \cup Flushed(t))
    <2>1. Top(t) \in Frames
      BY AtTop DEF RegisterLocked, LogTypeOK
    <2>2. Top(t).since \in Nat
      BY <2>1, <1>1, FrameFields
    <2>3. Written \in SUBSET Nat
      BY DEF Written, LogTypeOK
    <2>4. Written \ (Pending \cup Flushed(t)) \in SUBSET Nat
      BY <2>3, Zenon
    <2>5. (IF Top(t).flush \/ loggers # Channels THEN 0 ELSE Top(t).since) \in Nat
      BY <2>2
    <2> QED
      BY <2>4, <2>5, Zenon
  <1>12. /\ registration'[l0].skipsUpTo = skip /\ registration'[l0].missed = missed
         /\ \A l \in AllListeners : l # l0 => registration'[l] = registration[l]
         /\ registration'[l0].used
    <2>1. registration' = [registration EXCEPT ![l0].skipsUpTo = skip, ![l0].missed = missed]
      BY <1>1, <1>11 DEF RegisterLocked, Flushed
    <2> QED
      BY <2>1, <1>2, <1>3 DEF LogTypeOK
  <1>13. \A l \in AllListeners : Unknown(l) /\ l # l0 => Unknown(l)'
    BY <1>0, <1>9, <1>10 DEF Unknown
  <1>14. ASSUME NEW u \in Threads, NEW i \in DOMAIN stack'[u], NEW l, Registers(u, i, l)'
         PROVE  i \in DOMAIN stack[u] /\ Registers(u, i, l) /\ l # l0
    <2>1. ~(u = t /\ i = k)
      BY <1>1, <1>14 DEF Registers, Delivering
    <2>2. i \in DOMAIN stack[u] /\ stack'[u][i] = stack[u][i]
      BY <2>1, <1>1
    <2>3. Registers(u, i, l)
      BY <2>2, <1>14 DEF Registers
    <2> QED
      BY <2>1, <2>2, <2>3, <1>3
  <1>15. ASSUME NEW l \in AllListeners, ~registration'[l].used
         PROVE  Unknown(l)' /\ \A u \in Threads : \A i \in DOMAIN stack'[u] : ~Registers(u, i, l)'
    <2>1. l # l0 /\ ~registration[l].used
      BY <1>12, <1>15
    <2>2. Unknown(l) /\ \A u \in Threads : \A i \in DOMAIN stack[u] : ~Registers(u, i, l)
      BY <2>1 DEF ListInv
    <2> QED
      BY <2>1, <2>2, <1>13, <1>14
  <1>16. ASSUME NEW l \in Listeners, NEW v \in Threads, NEW i \in DOMAIN stack'[v], Registers(v, i, l)'
         PROVE  /\ Unknown(l)'
                /\ \A u \in Threads : \A h \in DOMAIN stack'[u] : Registers(u, h, l)' => u = v /\ h = i
    <2>0. l \in AllListeners
      BY DEF AllListeners
    <2>1. i \in DOMAIN stack[v] /\ Registers(v, i, l) /\ l # l0
      BY <1>14, <1>16
    <2>2. Unknown(l) /\ \A u \in Threads : \A h \in DOMAIN stack[u] : Registers(u, h, l) => u = v /\ h = i
      BY <2>1, Zenon DEF ListInv
    <2> QED
      BY <2>0, <2>1, <2>2, <1>13, <1>14
  <1>17. ListInv'
    BY <1>0, <1>10, <1>15, <1>16 DEF ListInv
  <1>18. ASSUME NEW l \in AllListeners, NEW m \in Due(l)' PROVE Got(l, m)'
    <2>1. /\ m \notin registration'[l].missed
          /\ IF l \in Listeners THEN m \in Settled /\ l \in ToSet(listeners')
             ELSE \E c \in Channels : l \in ToSet(ownListeners[c]) /\ m \in ToSet(history[c])
      BY <1>0, <1>18 DEF Due, Settled
    <2>2. m \in Messages
      <3>1. \A c \in Channels : ToSet(history[c]) \subseteq Messages
        BY ElementsTyped DEF LogTypeOK
      <3> QED
        BY <3>1, <2>1, SettledTyped
    <2>3. CASE l = l0
      <3>1. m \in Settled /\ m \notin missed
        BY <2>1, <2>3, <1>12
      <3>2. m \in Flushed(t)
        BY <3>1, <1>11 DEF Settled
      <3> QED
        BY <2>2, <2>3, <3>2, <1>9
    <2>4. CASE l # l0
      <3>1. m \in Due(l)
        BY <2>1, <2>4, <1>10, <1>12, DueMessages
      <3> QED
        BY <2>2, <3>1, <1>9 DEF ServiceInv
    <2> QED
      BY <2>3, <2>4
  <1>19. ASSUME NEW l \in Listeners, NEW m \in 1 .. registration'[l].skipsUpTo
         PROVE  m \in Settled' /\ ~Got(l, m)'
    <2>0. l \in AllListeners
      BY DEF AllListeners
    <2>1. CASE l # l0
      <3>1. m \in Settled /\ ~Got(l, m)
        BY <2>0, <2>1, <1>12, <1>19 DEF ServiceInv
      <3> QED
        BY <2>0, <2>1, <3>1, <1>0, <1>9, SettledTyped
    <2>2. CASE l = l0
      <3>1. m \in 1 .. skip /\ skip # 0
        BY <2>2, <1>11, <1>12, <1>19
      <3>2. ~Top(t).flush /\ loggers = Channels /\ skip = Top(t).since
        BY <3>1, <1>11
      <3>3. Flushed(t) = {}
        BY <3>2 DEF Flushed
      <3>4. skip <= numMessages /\ \A c \in Channels : \A x \in ToSet(pending[c]) : x > skip
        BY <3>2, <1>1, <1>2 DEF RegisterInv
      <3>5. m \in 1 .. numMessages
        BY <3>1, <3>4 DEF LogTypeOK
      <3>6. \A c \in Channels : m \notin ToSet(pending[c])
        <4> SUFFICES ASSUME NEW c \in Channels, m \in ToSet(pending[c]) PROVE FALSE
          OBVIOUS
        <4>1. m > skip
          BY <3>4
        <4>2. m <= skip /\ m \in Nat /\ skip \in Nat
          BY <3>1
        <4> QED
          BY <4>1, <4>2
      <3>7. m \in Settled
        BY <3>5, <3>6, SettledMessages
      <3>8. m \in Messages
        BY <3>7, SettledTyped
      <3> QED
        BY <2>0, <2>2, <3>3, <3>7, <3>8, <1>0, <1>3, <1>9 DEF Unknown
    <2> QED
      BY <2>1, <2>2
  <1> QED
    BY <1>8, <1>17, <1>18, <1>19 DEF ServiceInv
-----------------------------------------------------------------------------
(* The steps.  A step that touches no delivery, no list and no history.    *)
LEMMA QuietStep ==
  ASSUME LogInv, LogTypeOK', QueueInv', Settled' = Settled, Quiet, NoneRegisters,
         UNCHANGED <<registry, history, received>>
  PROVE  DeliveryInv' /\ OnceInv' /\ ListInv' /\ ServiceInv'
  <1>1. UNCHANGED <<listeners, ownListeners, registration, history>>
    BY DEF registry
  <1>2. /\ DeliveryInv' /\ OnceInv'
        /\ \A l \in AllListeners, m \in Messages : Got(l, m)' <=> Got(l, m)
    <2>1. UNCHANGED received /\ Settled \subseteq Settled'
      OBVIOUS
    <2> QED
      BY <2>1, QuietKeeps DEF LogInv
  <1>3. /\ ToSet(listeners') \subseteq ToSet(listeners) /\ Distinct(listeners')
        /\ \A c \in Channels : ToSet(ownListeners'[c]) \subseteq ToSet(ownListeners[c]) /\ Distinct(ownListeners'[c])
    BY <1>1 DEF LogInv, ListInv
  <1> QED
    BY <1>1, <1>2, <1>3, ListsKept DEF LogInv

LEMMA PushStep ==
  ASSUME LogInv, NEW t \in Threads, CanCall(t), NEW f \in Frames, Push(t, <<f>>),
         f.at = "write" \/ f = Dispatching, UNCHANGED <<settings, queues, registry, received>>
  PROVE  LogInv'
  <1>1. stack \in [Threads -> Seq(Frames)] /\ LogTypeOK
    BY DEF LogInv, LogTypeOK
  <1>2. f.at # "deliver" /\ f.at # "register"
    BY DEF Dispatching
  <1>3. /\ stack' \in [Threads -> Seq(Frames)]
        /\ \A u \in Threads : u # t => stack'[u] = stack[u]
        /\ Len(stack'[t]) = Len(stack[t]) + 1
        /\ \A i \in 1 .. Len(stack[t]) : stack'[t][i] = stack[t][i]
        /\ stack'[t][Len(stack[t]) + 1] = f
    BY <1>1, Pushed
  <1>4. UNCHANGED <<loggers, queues, registry, received>> /\ UNCHANGED <<registry, history, received>>
    BY DEF settings, queues
  <1>5. LogTypeOK'
    BY <1>1, <1>3, <1>4, TypeByStack
  <1>6. QueueInv' /\ Settled' = Settled /\ Later
    BY <1>1, <1>4, SameQueues DEF LogInv
  <1>7. Quiet /\ NoneRegisters
    BY <1>1, <1>2, QuietPushed
  <1>8. DeliveryInv' /\ OnceInv' /\ ListInv' /\ ServiceInv'
    BY <1>4, <1>5, <1>6, <1>7, QuietStep
  <1>9. RegisterInv'
    BY <1>1, <1>2, <1>5, <1>6, RegisterPushed DEF LogInv
  <1>10. DispatchInv'
    <2>1. PICK k \in Nat : k = Len(stack[t]) /\ DOMAIN stack[t] = 1 .. k /\ DOMAIN stack'[t] = 1 .. k + 1
      <3>1. stack[t] \in Seq(Frames) /\ stack'[t] \in Seq(Frames)
        BY <1>1, <1>3
      <3>2. /\ Len(stack[t]) \in Nat /\ DOMAIN stack[t] = 1 .. Len(stack[t])
            /\ DOMAIN stack'[t] = 1 .. Len(stack'[t])
        BY <3>1
      <3> QED
        BY <3>2, <1>3
    <2>2. \A i \in 1 .. k + 1 : i \in 1 .. k \/ i = k + 1
      OBVIOUS
    <2>3. \A u \in Threads : \A i \in DOMAIN stack'[u] :
            (i \in DOMAIN stack[u] /\ stack'[u][i] = stack[u][i]) \/ stack'[u][i] = f
      BY <1>3, <2>1, <2>2
    <2>4. f.at = "dispatch" => /\ f.upTo <= numMessages'
                               /\ \A c \in loggers' \ f.todo : \A m \in ToSet(pending'[c]) : m > f.upTo
      BY <1>1, <1>4, NewServed
    <2>5. \A u \in Threads : \A i \in DOMAIN stack'[u] :
            (i \in DOMAIN stack[u] /\ stack'[u][i] = stack[u][i]) \/ Served(stack[u][i])'
      BY <2>3, <2>4 DEF Served
    <2> QED
      BY <2>5, <1>1, <1>5, <1>6, DispatchKept DEF LogInv
  <1> QED
    BY <1>5, <1>6, <1>8, <1>9, <1>10 DEF LogInv

LEMMA PopStep ==
  ASSUME LogInv, NEW t \in Threads, NEW where, IsAt(t, where), Pop(t), LogTypeOK', QueueInv', Settled' = Settled, Later,
         where = "deliver" => IsDelivered(Top(t)),
         where = "dispatch" => Top(t).todo = {} /\ UNCHANGED <<loggers, pending>>,
         UNCHANGED <<registry, history, received>>
  PROVE  LogInv'
  <1>1. stack \in [Threads -> Seq(Frames)] /\ LogTypeOK
    BY DEF LogInv, LogTypeOK
  <1>2. Quiet /\ NoneRegisters
    BY <1>1, QuietPopped
  <1>3. DeliveryInv' /\ OnceInv' /\ ListInv' /\ ServiceInv'
    BY <1>2, QuietStep
  <1>4. RegisterInv'
    BY <1>1, RegisterPopped DEF LogInv
  <1>5. DispatchInv'
    <2>1. stack[t] # <<>> /\ Len(stack[t]) \in Nat \ {0} /\ DOMAIN stack[t] = 1 .. Len(stack[t])
      BY <1>1, AtTop
    <2>2. /\ stack' \in [Threads -> Seq(Frames)]
          /\ \A u \in Threads : u # t => stack'[u] = stack[u]
          /\ Len(stack'[t]) = Len(stack[t]) - 1
          /\ \A i \in 1 .. Len(stack[t]) - 1 : stack'[t][i] = stack[t][i]
      BY <1>1, <2>1, Popped
    <2>3. DOMAIN stack'[t] = 1 .. Len(stack[t]) - 1
      BY <2>2
    <2>4. \A i \in 1 .. Len(stack[t]) - 1 : i \in 1 .. Len(stack[t])
      BY <2>1
    <2>5. \A u \in Threads : \A i \in DOMAIN stack'[u] : i \in DOMAIN stack[u] /\ stack'[u][i] = stack[u][i]
      BY <2>1, <2>2, <2>3, <2>4
    <2> QED
      BY <2>5, <1>1, DispatchKept DEF LogInv
  <1> QED
    BY <1>3, <1>4, <1>5 DEF LogInv

(* Steps that leave every stack alone.                                     *)
LEMMA SameStackStep ==
  ASSUME LogInv, LogTypeOK', UNCHANGED <<stack, queues, received>>, loggers' \subseteq loggers
  PROVE  /\ QueueInv' /\ Settled' = Settled /\ Quiet /\ NoneRegisters
         /\ DispatchInv' /\ RegisterInv' /\ DeliveryInv' /\ OnceInv'
         /\ \A l \in AllListeners, m \in Messages : Got(l, m)' <=> Got(l, m)
  <1>1. LogTypeOK
    BY DEF LogInv
  <1>2. QueueInv' /\ Settled' = Settled /\ Later
    BY <1>1, SameQueues DEF LogInv
  <1>3. Quiet /\ NoneRegisters
    BY QuietSame
  <1>4. /\ DeliveryInv' /\ OnceInv'
        /\ \A l \in AllListeners, m \in Messages : Got(l, m)' <=> Got(l, m)
    <2>1. UNCHANGED received /\ Settled \subseteq Settled'
      BY <1>2
    <2> QED
      BY <1>1, <1>3, <2>1, QuietKeeps DEF LogInv
  <1>5. DispatchInv'
    BY <1>1, <1>2, DispatchKept DEF LogInv
  <1>6. RegisterInv'
    <2>1. \A u \in Threads : RegisterOrder(u)'
      BY <1>1, <1>2, RegisterSame DEF LogInv
    <2> QED
      BY <2>1 DEF RegisterInv, RegisterOrder
  <1> QED
    BY <1>2, <1>3, <1>4, <1>5, <1>6
LEMMA DispatchPendingStep ==
  ASSUME LogInv, NEW t \in Threads, NEW c \in Channels, DispatchPending(t, c)
  PROVE  LogInv'
  <1>1. LogTypeOK /\ QueueInv /\ stack \in [Threads -> Seq(Frames)] /\ IsAt(t, "dispatch")
    BY DEF LogInv, LogTypeOK, DispatchPending
  <1>2. LogTypeOK'
    BY <1>1, DispatchPendingTypes
  <1>3. /\ QueueInv' /\ Settled' = Settled \cup ToSet(pending[c]) /\ Later
        /\ pending'[c] = <<>> /\ numMessages' = numMessages
    BY <1>1, DispatchQueues
  <1>4. PICK k \in Nat \ {0} : k = Len(stack[t]) /\ DOMAIN stack[t] = 1 .. k
    BY <1>1, AtTop
  <1>5. k \in 1 .. k /\ stack[t] # <<>> /\ Top(t) = stack[t][k] /\ Top(t).at = "dispatch" /\ Top(t) \in Frames
    BY <1>1, <1>4, AtTop
  <1>6. PICK f \in Frames : f = [Top(t) EXCEPT !.todo = @ \ {c}]
    BY <1>1, DispatchPendingTypes
  <1>7. f.at = "dispatch" /\ f.upTo = Top(t).upTo /\ f.todo = Top(t).todo \ {c}
    <2>1. Top(t) = [at |-> "dispatch", todo |-> Top(t).todo, upTo |-> Top(t).upTo]
      BY <1>5, DispatchRecord
    <2> QED
      BY <1>6, <2>1
  <1>8. PICK p \in Seq(AllListeners) : /\ p = ownListeners[c] \o listeners /\ Distinct(p)
                                       /\ ToSet(p) = ToSet(ownListeners[c]) \cup ToSet(listeners)
    <2>1. ownListeners[c] \in Seq(AllListeners) /\ listeners \in Seq(AllListeners)
      BY <1>1 DEF LogTypeOK, AllListeners
    <2>2. ToSet(ownListeners[c]) \subseteq OwnListeners /\ ToSet(listeners) \subseteq Listeners
      <3>1. ownListeners[c] \in Seq(OwnListeners) /\ listeners \in Seq(Listeners)
        BY <1>1 DEF LogTypeOK
      <3> QED
        BY <3>1, ElementsTyped
    <2>3. ToSet(ownListeners[c]) \cap ToSet(listeners) = {}
      BY <2>2, LogAssumption
    <2>4. Distinct(ownListeners[c]) /\ Distinct(listeners)
      BY DEF LogInv, ListInv
    <2>5. /\ ownListeners[c] \o listeners \in Seq(AllListeners) /\ Distinct(ownListeners[c] \o listeners)
          /\ ToSet(ownListeners[c] \o listeners) = ToSet(ownListeners[c]) \cup ToSet(listeners)
      <3>1. PICK q \in Seq(AllListeners), r \in Seq(AllListeners) : q = ownListeners[c] /\ r = listeners
        BY <2>1
      <3>2. Distinct(q) /\ Distinct(r) /\ ToSet(q) \cap ToSet(r) = {}
        BY <2>3, <2>4, <3>1
      <3>3. q \o r \in Seq(AllListeners) /\ Distinct(q \o r) /\ ToSet(q \o r) = ToSet(q) \cup ToSet(r)
        BY <3>2, ConcatElements
      <3> QED
        BY <3>1, <3>3
    <2> QED
      BY <2>5, Zenon
  <1>9. PICK s \in Seq(Messages) : s = pending[c] /\ Distinct(s) /\ ToSet(s) = ToSet(pending[c])
    BY <1>1, PendingTyped DEF QueueInv
  <1>10. PICK g \in Frames : g = Delivering(s, p)
    BY <1>1, <1>8, <1>9, DispatchPendingTypes
  <1>11. g.at = "deliver" /\ g.messages = s /\ g.called = p /\ g.done = 0
    BY <1>10 DEF Delivering
  <1>12. Replace(t, <<f, g>>)
    BY <1>6, <1>8, <1>9, <1>10 DEF DispatchPending
  <1>13. /\ \A u \in Threads : u # t => stack'[u] = stack[u]
         /\ Len(stack'[t]) = k + 1 /\ DOMAIN stack'[t] = 1 .. k + 1
         /\ \A i \in 1 .. k - 1 : stack'[t][i] = stack[t][i]
         /\ stack'[t][k] = f /\ stack'[t][k + 1] = g
    <2>1. /\ stack' \in [Threads -> Seq(Frames)]
          /\ \A u \in Threads : u # t => stack'[u] = stack[u]
          /\ Len(stack'[t]) = Len(stack[t]) + 1
          /\ \A i \in 1 .. Len(stack[t]) - 1 : stack'[t][i] = stack[t][i]
          /\ stack'[t][Len(stack[t])] = f /\ stack'[t][Len(stack[t]) + 1] = g
      BY <1>1, <1>5, <1>12, ReplacedTwo
    <2>2. DOMAIN stack'[t] = 1 .. Len(stack'[t])
      BY <2>1
    <2> QED
      BY <2>1, <2>2, <1>4
  <1>14. \A i \in 1 .. k + 1 : (i \in 1 .. k - 1 /\ i \in 1 .. k) \/ i = k \/ i = k + 1
    OBVIOUS
  <1>15. ASSUME NEW u \in Threads, NEW i \in DOMAIN stack'[u]
         PROVE  \/ i \in DOMAIN stack[u] /\ stack'[u][i] = stack[u][i]
                \/ u = t /\ i = k /\ stack'[u][i] = f
                \/ u = t /\ i = k + 1 /\ stack'[u][i] = g
    BY <1>4, <1>13, <1>14
  <1>16. ASSUME NEW u \in Threads, NEW i \in DOMAIN stack[u], ~(u = t /\ i = k)
         PROVE  i \in DOMAIN stack'[u] /\ stack'[u][i] = stack[u][i]
    <2>1. CASE u = t
      <3>1. i \in 1 .. k - 1 /\ i \in 1 .. k + 1
        BY <2>1, <1>4, <1>16
      <3> QED
        BY <2>1, <3>1, <1>13
    <2>2. CASE u # t
      BY <2>2, <1>13
    <2> QED
      BY <2>1, <2>2
  <1>17. RegisterInv'
    BY <1>1, <1>2, <1>3, <1>7, <1>11, <1>12, RegisterReplacedTwo DEF LogInv
  <1>18. DispatchInv'
    <2>0. loggers' = loggers /\ \A d \in Channels : d # c => pending'[d] = pending[d]
      BY <1>1 DEF DispatchPending, settings, LogTypeOK
    <2>1. Served(Top(t))
      BY <1>4, <1>5 DEF LogInv, DispatchInv
    <2>2. Top(t).upTo <= numMessages /\ \A d \in loggers \ Top(t).todo : \A m \in ToSet(pending[d]) : m > Top(t).upTo
      BY <2>1, <1>5 DEF Served
    <2>3. ToSet(<<>>) = {} /\ loggers \subseteq Channels
      BY <1>1 DEF ToSet, LogTypeOK
    <2>4. /\ f.upTo <= numMessages'
          /\ \A d \in loggers' \ f.todo : \A m \in ToSet(pending'[d]) : m > f.upTo
      BY <2>0, <2>2, <2>3, <1>3, <1>7
    <2>5. \A u \in Threads : \A i \in DOMAIN stack'[u] :
            (i \in DOMAIN stack[u] /\ stack'[u][i] = stack[u][i]) \/ Served(stack[u][i])'
      BY <2>4, <1>11, <1>15 DEF Served
    <2> QED
      BY <2>5, <1>1, <1>2, <1>3, DispatchKept DEF LogInv
  <1>19. \A l, m : Has(g, l, m) <=> m \in ToSet(pending[c]) /\ l \in ToSet(p)
    BY <1>9, <1>10, DeliveringHas
  <1>20. /\ DeliveryInv' /\ OnceInv'
         /\ \A l \in AllListeners, m \in Messages : Got(l, m)' <=> Got(l, m) \/ Has(g, l, m)
    <2>1. \A u \in Threads : \A i \in DOMAIN stack'[u] : stack'[u][i].at = "deliver" =>
            (u = t /\ i = k + 1) \/ (i \in DOMAIN stack[u] /\ stack'[u][i] = stack[u][i])
      BY <1>7, <1>15
    <2>2. \A u \in Threads : \A i \in DOMAIN stack[u] : stack[u][i].at = "deliver" =>
            i \in DOMAIN stack'[u] /\ stack'[u][i] = stack[u][i]
      BY <1>5, <1>16
    <2>3. \A l \in AllListeners, m \in Messages : Has(g, l, m) => ~Got(l, m)
      <3>1. \A m \in ToSet(pending[c]) : m \notin Settled
        BY SettledMessages
      <3> QED
        BY <3>1, <1>1, <1>19, GotSettled DEF LogInv
    <2>4. GoodDelivery(stack[t][k + 1])'
      <3>1. /\ stack'[t][k + 1].messages = s /\ stack'[t][k + 1].called = p /\ stack'[t][k + 1].done = 0
        BY <1>11, <1>13
      <3>2. ToSet(s) \subseteq Settled'
        BY <1>3, <1>9
      <3>3. p # <<>> => 0 < Len(p)
        OBVIOUS
      <3> QED
        BY <3>1, <3>2, <3>3, <1>8, <1>9 DEF GoodDelivery
    <2>5. received' = received /\ Settled \subseteq Settled' /\ stack'[t][k + 1] = g /\ k + 1 \in DOMAIN stack'[t]
      BY <1>3, <1>13 DEF DispatchPending
    <2> QED
      BY <2>1, <2>2, <2>3, <2>4, <2>5, <1>1, NewDelivery DEF LogInv
  <1>21. ListInv' /\ ServiceInv'
    <2>1. NoneRegisters
      BY <1>7, <1>11, <1>15 DEF NoneRegisters
    <2>2. \A l \in AllListeners, m \in Messages :
            Got(l, m)' <=> Got(l, m) \/ (m \in ToSet(pending[c]) /\ l \in ToSet(ownListeners[c]) \cup ToSet(listeners))
      BY <1>8, <1>19, <1>20
    <2>3. history'[c] = Recent(history[c] \o pending[c]) /\ \A d \in Channels : d # c => history'[d] = history[d]
      BY <1>1 DEF DispatchPending, LogTypeOK
    <2>4. ToSet(history'[c]) \subseteq ToSet(history[c]) \cup ToSet(pending[c])
      <3>1. history[c] \in Seq(Messages) /\ pending[c] \in Seq(Messages) /\ MaxHistory \in Nat
        BY <1>1, LogAssumption DEF LogTypeOK
      <3>2. /\ history[c] \o pending[c] \in Seq(Messages)
            /\ ToSet(history[c] \o pending[c]) = ToSet(history[c]) \cup ToSet(pending[c])
        BY <3>1, ConcatElements
      <3> QED
        BY <2>3, <3>1, <3>2, RecentElements
    <2>5. UNCHANGED registry
      BY DEF DispatchPending
    <2> QED
      BY <2>1, <2>2, <2>3, <2>4, <2>5, <1>1, <1>2, <1>3, DispatchLists DEF LogInv
  <1> QED
    BY <1>2, <1>3, <1>17, <1>18, <1>20, <1>21 DEF LogInv

LEMMA DeliverStep ==
  ASSUME LogInv, NEW t \in Threads, Deliver(t)
  PROVE  LogInv'
  <1>1. LogTypeOK /\ stack \in [Threads -> Seq(Frames)] /\ IsAt(t, "deliver") /\ DeliveryInv
    BY DEF LogInv, LogTypeOK, Deliver
  <1>2. LogTypeOK' /\ Advanced(Top(t)) \in Frames
    BY <1>1, DeliverTypes
  <1>3. UNCHANGED <<loggers, queues, registry, history>>
    BY DEF Deliver, settings, queues
  <1>4. QueueInv' /\ Settled' = Settled /\ Later
    BY <1>1, <1>3, SameQueues DEF LogInv
  <1>5. /\ DeliveryInv' /\ OnceInv' /\ NoneRegisters
        /\ \A l \in AllListeners, m \in Messages : Got(l, m)' <=> Got(l, m)
    BY <1>1, DeliverKeeps DEF LogInv
  <1>6. ListInv' /\ ServiceInv'
    <2>1. UNCHANGED <<listeners, ownListeners, registration, history>>
      BY <1>3 DEF registry
    <2>2. /\ ToSet(listeners') \subseteq ToSet(listeners) /\ Distinct(listeners')
          /\ \A c \in Channels : ToSet(ownListeners'[c]) \subseteq ToSet(ownListeners[c]) /\ Distinct(ownListeners'[c])
      BY <2>1 DEF LogInv, ListInv
    <2> QED
      BY <2>1, <2>2, <1>1, <1>2, <1>4, <1>5, ListsKept DEF LogInv
  <1>7. PICK f \in Frames, g \in Frames :
          /\ f = Advanced(Top(t)) /\ f.at = "deliver" /\ g = [at |-> "callback"] /\ Replace(t, <<f, g>>)
    <2>1. [at |-> "callback"] \in Frames /\ Replace(t, <<Advanced(Top(t)), [at |-> "callback"]>>)
      BY DEF Frames, Deliver
    <2>2. Top(t) = stack[t][Len(stack[t])] /\ Top(t) \in Frames /\ Top(t).at = "deliver" /\ Len(stack[t]) \in DOMAIN stack[t]
      <3>1. /\ Top(t) = stack[t][Len(stack[t])] /\ Top(t) \in Frames /\ Top(t).at = "deliver"
            /\ Len(stack[t]) \in Nat \ {0} /\ DOMAIN stack[t] = 1 .. Len(stack[t])
        BY <1>1, AtTop
      <3> QED
        BY <3>1
    <2>3. GoodDelivery(Top(t)) /\ ~IsDelivered(Top(t))
      BY <1>1, <2>2 DEF DeliveryInv, Deliver
    <2>4. Advanced(Top(t)).at = "deliver"
      BY <2>2, <2>3, AdvancedFrame
    <2> QED
      BY <1>2, <2>1, <2>4
  <1>8. RegisterInv'
    BY <1>1, <1>2, <1>4, <1>7, RegisterReplacedTwo DEF LogInv
  <1>9. DispatchInv'
    <2>1. stack[t] # <<>> /\ Len(stack[t]) \in Nat \ {0} /\ DOMAIN stack[t] = 1 .. Len(stack[t])
      BY <1>1, AtTop
    <2>2. /\ stack' \in [Threads -> Seq(Frames)]
          /\ \A u \in Threads : u # t => stack'[u] = stack[u]
          /\ Len(stack'[t]) = Len(stack[t]) + 1
          /\ \A i \in 1 .. Len(stack[t]) - 1 : stack'[t][i] = stack[t][i]
          /\ stack'[t][Len(stack[t])] = f /\ stack'[t][Len(stack[t]) + 1] = g
      BY <1>1, <1>7, <2>1, ReplacedTwo
    <2>3. PICK k \in Nat \ {0} : k = Len(stack[t]) /\ DOMAIN stack'[t] = 1 .. k + 1
      <3>1. stack'[t] \in Seq(Frames)
        BY <2>2
      <3>2. DOMAIN stack'[t] = 1 .. Len(stack'[t])
        BY <3>1
      <3> QED
        BY <2>1, <2>2, <3>2
    <2>4. \A i \in 1 .. k + 1 : (i \in 1 .. k - 1 /\ i \in 1 .. k) \/ i = k \/ i = k + 1
      OBVIOUS
    <2>5. \A u \in Threads : \A i \in DOMAIN stack'[u] :
            (i \in DOMAIN stack[u] /\ stack'[u][i] = stack[u][i]) \/ stack'[u][i].at # "dispatch"
      BY <1>7, <2>1, <2>2, <2>3, <2>4
    <2>6. \A u \in Threads : \A i \in DOMAIN stack'[u] :
            (i \in DOMAIN stack[u] /\ stack'[u][i] = stack[u][i]) \/ Served(stack[u][i])'
      BY <2>5 DEF Served
    <2> QED
      BY <2>6, <1>1, <1>2, <1>4, DispatchKept DEF LogInv
  <1> QED
    BY <1>2, <1>4, <1>5, <1>6, <1>8, <1>9 DEF LogInv
LEMMA RegisterListenerStep ==
  ASSUME LogInv, NEW t \in Threads, NEW l0 \in Listeners, NEW flush \in BOOLEAN, RegisterListener(t, l0, flush)
  PROVE  LogInv'
  <1>1. LogTypeOK /\ stack \in [Threads -> Seq(Frames)] /\ CanCall(t)
    BY DEF LogInv, LogTypeOK, RegisterListener
  <1>2. LogTypeOK'
    BY <1>1, RegisterListenerTypes
  <1>3. UNCHANGED <<loggers, queues, received, numMessages>>
    BY DEF RegisterListener, settings, queues
  <1>4. QueueInv' /\ Settled' = Settled /\ Later
    BY <1>1, <1>3, SameQueues DEF LogInv
  <1>5. PICK f \in Frames, g \in Frames :
          /\ f = [at |-> "register", listener |-> l0, flush |-> flush, since |-> numMessages]
          /\ g = Dispatching /\ Push(t, <<f, g>>)
    BY <1>1, RegisterListenerTypes, DispatchingFrame DEF RegisterListener
  <1>6. /\ f.at = "register" /\ f.since = numMessages /\ g.at = "dispatch" /\ g.upTo = f.since
        /\ f.since <= numMessages'
    BY <1>1, <1>3, <1>5 DEF Dispatching, LogTypeOK
  <1>7. Quiet
    BY <1>1, <1>5, <1>6, QuietPushedTwo
  <1>8. /\ DeliveryInv' /\ OnceInv'
        /\ \A l \in AllListeners, m \in Messages : Got(l, m)' <=> Got(l, m)
    <2>1. UNCHANGED received /\ Settled \subseteq Settled'
      BY <1>3, <1>4
    <2> QED
      BY <2>1, <1>1, <1>2, <1>7, QuietKeeps DEF LogInv
  <1>9. ListInv' /\ ServiceInv'
    BY <1>1, <1>2, <1>8, RegisterListenerLists DEF LogInv
  <1>10. RegisterInv'
    BY <1>1, <1>2, <1>4, <1>5, <1>6, RegisterPushedTwo DEF LogInv
  <1>11. DispatchInv'
    <2>1. /\ stack' \in [Threads -> Seq(Frames)]
          /\ \A u \in Threads : u # t => stack'[u] = stack[u]
          /\ Len(stack'[t]) = Len(stack[t]) + 2
          /\ \A i \in 1 .. Len(stack[t]) : stack'[t][i] = stack[t][i]
          /\ stack'[t][Len(stack[t]) + 1] = f /\ stack'[t][Len(stack[t]) + 2] = g
      BY <1>1, <1>5, PushedTwo
    <2>2. PICK k \in Nat : k = Len(stack[t]) /\ DOMAIN stack[t] = 1 .. k /\ DOMAIN stack'[t] = 1 .. k + 2
      <3>1. stack[t] \in Seq(Frames) /\ stack'[t] \in Seq(Frames)
        BY <1>1, <2>1
      <3> QED
        BY <3>1, <2>1
    <2>3. \A i \in 1 .. k + 2 : i \in 1 .. k \/ i = k + 1 \/ i = k + 2
      OBVIOUS
    <2>4. \A u \in Threads : \A i \in DOMAIN stack'[u] :
            (i \in DOMAIN stack[u] /\ stack'[u][i] = stack[u][i]) \/ stack'[u][i] = f \/ stack'[u][i] = g
      BY <2>1, <2>2, <2>3
    <2>5. g.at = "dispatch" => /\ g.upTo <= numMessages'
                               /\ \A c \in loggers' \ g.todo : \A m \in ToSet(pending'[c]) : m > g.upTo
      BY <1>1, <1>3, <1>5, NewServed
    <2>6. \A u \in Threads : \A i \in DOMAIN stack'[u] :
            (i \in DOMAIN stack[u] /\ stack'[u][i] = stack[u][i]) \/ Served(stack[u][i])'
      BY <2>4, <2>5, <1>6 DEF Served
    <2> QED
      BY <2>6, <1>1, <1>2, <1>4, DispatchKept DEF LogInv
  <1> QED
    BY <1>2, <1>4, <1>8, <1>9, <1>10, <1>11 DEF LogInv

LEMMA RegisterLockedStep ==
  ASSUME LogInv, NEW t \in Threads, RegisterLocked(t)
  PROVE  LogInv'
  <1>1. LogTypeOK /\ stack \in [Threads -> Seq(Frames)] /\ IsAt(t, "register")
    BY DEF LogInv, LogTypeOK, RegisterLocked
  <1>2. LogTypeOK'
    BY <1>1, RegisterLockedTypes
  <1>3. UNCHANGED <<loggers, queues>>
    BY DEF RegisterLocked, settings, queues
  <1>4. QueueInv' /\ Settled' = Settled /\ Later
    BY <1>1, <1>3, SameQueues DEF LogInv
  <1>5. DeliveryInv' /\ OnceInv' /\ ListInv' /\ ServiceInv'
    BY <1>1, <1>2, RegisterLockedKeeps DEF LogInv
  <1>6. PICK k \in Nat \ {0}, g \in Frames :
          /\ g.at = "deliver" /\ Replace(t, <<g>>)
          /\ DOMAIN stack[t] = 1 .. k /\ DOMAIN stack'[t] = 1 .. k /\ stack'[t][k] = g
          /\ \A u \in Threads : u # t => stack'[u] = stack[u]
          /\ \A i \in 1 .. k : i # k => stack'[t][i] = stack[t][i]
    <2>1. \A s, p : Delivering(s, p).at = "deliver"
      BY DEF Delivering
    <2>2. PICK k \in Nat \ {0}, s \in Seq(Messages), l0 \in Listeners, g \in Frames :
           /\ l0 = Top(t).listener /\ Top(t) = stack[t][k] /\ Top(t).at = "register"
           /\ ToSet(s) = Flushed(t) /\ Distinct(s) /\ g = Delivering(s, <<l0>>) /\ Replace(t, <<g>>)
           /\ DOMAIN stack[t] = 1 .. k /\ DOMAIN stack'[t] = 1 .. k /\ stack'[t][k] = g
           /\ k = Len(stack[t])
           /\ \A u \in Threads : u # t => stack'[u] = stack[u]
           /\ \A i \in 1 .. k : i # k => stack'[t][i] = stack[t][i]
      BY <1>1, RegisterLockedStack
    <2>3. g.at = "deliver"
      BY <2>1, <2>2
    <2> QED
      BY <2>2, <2>3, Zenon
  <1>7. RegisterInv'
    BY <1>1, <1>2, <1>4, <1>6, RegisterReplaced DEF LogInv
  <1>8. DispatchInv'
    <2>1. \A u \in Threads : \A i \in DOMAIN stack'[u] :
            (i \in DOMAIN stack[u] /\ stack'[u][i] = stack[u][i]) \/ stack'[u][i].at # "dispatch"
      BY <1>6
    <2>2. \A u \in Threads : \A i \in DOMAIN stack'[u] :
            (i \in DOMAIN stack[u] /\ stack'[u][i] = stack[u][i]) \/ Served(stack[u][i])'
      BY <2>1 DEF Served
    <2> QED
      BY <2>2, <1>1, <1>2, <1>4, DispatchKept DEF LogInv
  <1> QED
    BY <1>2, <1>4, <1>5, <1>7, <1>8 DEF LogInv

(* A change of the settings or of the lists alone.                         *)
LEMMA UnregisterStep ==
  ASSUME LogInv, LogTypeOK', UNCHANGED <<stack, queues, received, registration>>, loggers' \subseteq loggers,
         ToSet(listeners') \subseteq ToSet(listeners), Distinct(listeners'),
         \A c \in Channels : ToSet(ownListeners'[c]) \subseteq ToSet(ownListeners[c]) /\ Distinct(ownListeners'[c])
  PROVE  LogInv'
  <1>1. UNCHANGED <<stack, queues, received>> /\ UNCHANGED <<registration, history>>
    BY DEF queues
  <1>2. /\ QueueInv' /\ Settled' = Settled /\ Quiet /\ NoneRegisters
        /\ DispatchInv' /\ RegisterInv' /\ DeliveryInv' /\ OnceInv'
        /\ \A l \in AllListeners, m \in Messages : Got(l, m)' <=> Got(l, m)
    BY <1>1, SameStackStep
  <1>3. ListInv' /\ ServiceInv'
    BY <1>1, <1>2, ListsKept DEF LogInv
  <1> QED
    BY <1>2, <1>3 DEF LogInv

LEMMA SettingsStep ==
  ASSUME LogInv, UNCHANGED <<stack, queues, received, registry>>, loggers' \subseteq loggers
  PROVE  LogInv'
  <1>1. UNCHANGED <<listeners, ownListeners, registration>>
    BY DEF registry
  <1>2. LogTypeOK'
    BY <1>1 DEF LogInv, LogTypeOK, queues
  <1>3. /\ ToSet(listeners') \subseteq ToSet(listeners) /\ Distinct(listeners')
        /\ \A c \in Channels : ToSet(ownListeners'[c]) \subseteq ToSet(ownListeners[c]) /\ Distinct(ownListeners'[c])
    BY <1>1 DEF LogInv, ListInv
  <1> QED
    BY <1>1, <1>2, <1>3, UnregisterStep

LEMMA UnregisterListenerStep ==
  ASSUME LogInv, NEW t \in Threads, NEW l0 \in Listeners, UnregisterListener(t, l0)
  PROVE  LogInv'
  <1>1. listeners \in Seq(Listeners) /\ Distinct(listeners)
    BY DEF LogInv, LogTypeOK, ListInv
  <1>2. listeners' = Keep(listeners, Listeners \ {l0})
    BY DEF UnregisterListener
  <1>3. listeners' \in Seq(Listeners) /\ ToSet(listeners') \subseteq ToSet(listeners) /\ Distinct(listeners')
    BY <1>1, <1>2, KeepIsFilter, KeepElements, KeepDistinct
  <1>4. UNCHANGED <<stack, queues, received, registration, ownListeners, loggers>>
    BY DEF UnregisterListener, settings
  <1>5. LogTypeOK'
    BY <1>3, <1>4 DEF LogInv, LogTypeOK, queues
  <1>6. \A c \in Channels : ToSet(ownListeners'[c]) \subseteq ToSet(ownListeners[c]) /\ Distinct(ownListeners'[c])
    BY <1>4 DEF LogInv, ListInv
  <1> QED
    BY <1>3, <1>4, <1>5, <1>6, UnregisterStep

LEMMA UnregisterOwnListenerStep ==
  ASSUME LogInv, NEW t \in Threads, NEW c \in Channels, NEW l0 \in OwnListeners, UnregisterOwnListener(t, c, l0)
  PROVE  LogInv'
  <1>1. ownListeners[c] \in Seq(OwnListeners) /\ Distinct(ownListeners[c])
    BY DEF LogInv, LogTypeOK, ListInv
  <1>2. PICK r : r = Keep(ownListeners[c], OwnListeners \ {l0})
    OBVIOUS
  <1>3. r \in Seq(OwnListeners) /\ ToSet(r) \subseteq ToSet(ownListeners[c]) /\ Distinct(r)
    BY <1>1, <1>2, KeepIsFilter, KeepElements, KeepDistinct
  <1>4. UNCHANGED <<stack, queues, received, registration, listeners, loggers>>
    BY DEF UnregisterOwnListener, settings
  <1>5. ownListeners' = [ownListeners EXCEPT ![c] = r]
    BY <1>2 DEF UnregisterOwnListener
  <1>6. LogTypeOK'
    <2>1. ownListeners' \in [Channels -> Seq(OwnListeners)]
      BY <1>3, <1>5 DEF LogInv, LogTypeOK
    <2> QED
      BY <2>1, <1>4 DEF LogInv, LogTypeOK, queues
  <1>7. \A d \in Channels : ToSet(ownListeners'[d]) \subseteq ToSet(ownListeners[d]) /\ Distinct(ownListeners'[d])
    <2>1. ownListeners \in [Channels -> Seq(OwnListeners)] /\ \A d \in Channels : Distinct(ownListeners[d])
      BY DEF LogInv, LogTypeOK, ListInv
    <2> QED
      BY <2>1, <1>3, <1>5
  <1>8. ToSet(listeners') \subseteq ToSet(listeners) /\ Distinct(listeners')
    BY <1>4 DEF LogInv, ListInv
  <1> QED
    BY <1>4, <1>6, <1>7, <1>8, UnregisterStep

LEMMA RegisterOwnListenerStep ==
  ASSUME LogInv, NEW t \in Threads, NEW c \in Channels, NEW l0 \in OwnListeners, RegisterOwnListener(t, c, l0)
  PROVE  LogInv'
  <1>1. LogTypeOK
    BY DEF LogInv
  <1>2. UNCHANGED <<stack, queues, received>> /\ UNCHANGED <<listeners, loggers>>
    BY DEF RegisterOwnListener, settings
  <1>3. LogTypeOK'
    <2>1. ownListeners' \in [Channels -> Seq(OwnListeners)]
      BY <1>1 DEF RegisterOwnListener, LogTypeOK
    <2>2. Written \ Pending \in SUBSET Nat
      <3>1. Written \in SUBSET Nat
        BY <1>1 DEF Written, LogTypeOK
      <3> QED
        BY <3>1, Zenon
    <2>3. registration' \in [AllListeners -> [used : BOOLEAN, skipsUpTo : Nat, missed : SUBSET Nat]]
      BY <1>1, <2>2 DEF RegisterOwnListener, LogTypeOK
    <2> QED
      BY <1>1, <1>2, <2>1, <2>3 DEF LogTypeOK, queues
  <1>4. /\ QueueInv' /\ Settled' = Settled /\ Quiet /\ NoneRegisters
        /\ DispatchInv' /\ RegisterInv' /\ DeliveryInv' /\ OnceInv'
        /\ \A l \in AllListeners, m \in Messages : Got(l, m)' <=> Got(l, m)
    BY <1>2, <1>3, SameStackStep
  <1>5. ListInv' /\ ServiceInv'
    BY <1>1, <1>3, <1>4, RegisterOwnLists DEF LogInv
  <1> QED
    BY <1>3, <1>4, <1>5 DEF LogInv
-----------------------------------------------------------------------------
LEMMA LogInvInit ==
  Init => LogInv
  <1> SUFFICES ASSUME Init PROVE LogInv
    OBVIOUS
  <1>1. LogTypeOK
    BY LogTypeInit
  <1>2. DOMAIN <<>> = {} /\ ToSet(<<>>) = {} /\ Distinct(<<>>)
    BY DEF ToSet, Distinct
  <1>3. \A t \in Threads : DOMAIN stack[t] = {}
    BY <1>2 DEF Init
  <1>4. Settled = {}
    <2>1. Written = {}
      BY DEF Init, Written
    <2> QED
      BY <2>1 DEF Settled
  <1>5. QueueInv
    BY <1>2, <1>4 DEF Init, QueueInv
  <1>6. DispatchInv /\ RegisterInv /\ DeliveryInv
    BY <1>3 DEF DispatchInv, RegisterInv, DeliveryInv
  <1>7. \A l \in AllListeners, m \in Messages : received[l][m] = 0 /\ ~Got(l, m)
    BY <1>3 DEF Init, Got
  <1>8. OnceInv
    BY <1>3, <1>7 DEF OnceInv
  <1>9. ListInv
    BY <1>2, <1>3, <1>7 DEF Init, ListInv, Unknown
  <1>10. \A l \in AllListeners : registration[l].skipsUpTo = 0
    BY DEF Init, NeverRegistered
  <1>11. \A l \in AllListeners : Due(l) = {}
    BY <1>2, <1>4, DueMessages DEF Init
  <1>12. ServiceInv
    <2>1. \A l \in Listeners : 1 .. registration[l].skipsUpTo = {}
      BY <1>10 DEF AllListeners
    <2> QED
      BY <2>1, <1>11 DEF ServiceInv
  <1> QED
    BY <1>1, <1>5, <1>6, <1>8, <1>9, <1>12 DEF LogInv

LEMMA LogInvNext ==
  ASSUME LogInv, [Next]_vars
  PROVE  LogInv'
  <1>0. LogTypeOK /\ stack \in [Threads -> Seq(Frames)]
    BY DEF LogInv, LogTypeOK
  <1>1. ASSUME NEW config \in Configs, Initialize(config) PROVE LogInv'
    <2>1. UNCHANGED <<stack, queues, received, registry>> /\ loggers' \subseteq loggers
      BY <1>1 DEF Initialize
    <2> QED
      BY <2>1, SettingsStep
  <1>2. CASE Terminate
    <2>1. UNCHANGED <<stack, queues, received, registry>> /\ loggers' \subseteq loggers
      BY <1>2 DEF Terminate
    <2> QED
      BY <2>1, SettingsStep
  <1>3. CASE DispatchListeners
    <2>1. PICK f \in Frames : f = Dispatching /\ Push(Main, <<f>>)
      BY <1>0, <1>3, DispatchingFrame DEF DispatchListeners
    <2>2. Main \in Threads /\ CanCall(Main) /\ UNCHANGED <<settings, queues, registry, received>>
      BY <1>3, LogAssumption DEF DispatchListeners
    <2> QED
      BY <2>1, <2>2, PushStep
  <1>4. ASSUME NEW t \in Threads, Call(t) PROVE LogInv'
    <2>1. ASSUME NEW c \in Channels, WriteBegin(t, c) PROVE LogInv'
      <3>1. PICK f \in Frames : f.at = "write" /\ Push(t, <<f>>)
        <4>1. PICK f : f = [at |-> "write", channel |-> c]
          OBVIOUS
        <4>2. f \in Frames /\ f.at = "write"
          BY <4>1 DEF Frames
        <4> QED
          BY <2>1, <4>1, <4>2 DEF WriteBegin
      <3>2. CanCall(t) /\ UNCHANGED <<settings, queues, registry, received>>
        BY <2>1 DEF WriteBegin
      <3> QED
        BY <3>1, <3>2, PushStep
    <2>2. ASSUME NEW c \in Channels, NEW levels \in SUBSET Levels, SetLogLevel(t, c, levels) PROVE LogInv'
      <3>1. UNCHANGED <<stack, queues, received, registry>> /\ loggers' \subseteq loggers
        BY <2>2 DEF SetLogLevel
      <3> QED
        BY <3>1, SettingsStep
    <2>3. ASSUME NEW l \in Listeners, NEW flush \in BOOLEAN, RegisterListener(t, l, flush) PROVE LogInv'
      BY <2>3, RegisterListenerStep
    <2>4. ASSUME NEW l \in Listeners, UnregisterListener(t, l) PROVE LogInv'
      BY <2>4, UnregisterListenerStep
    <2>5. ASSUME NEW c \in Channels, NEW l \in OwnListeners, RegisterOwnListener(t, c, l) PROVE LogInv'
      BY <2>5, RegisterOwnListenerStep
    <2>6. ASSUME NEW c \in Channels, NEW l \in OwnListeners, UnregisterOwnListener(t, c, l) PROVE LogInv'
      BY <2>6, UnregisterOwnListenerStep
    <2> QED
      BY <1>4, <2>1, <2>2, <2>3, <2>4, <2>5, <2>6 DEF Call
  <1>5. ASSUME NEW t \in Threads, Continue(t) PROVE LogInv'
    <2>1. ASSUME NEW level \in Levels, Write(t, level) PROVE LogInv'
      <3>1. LogTypeOK'
        BY <1>0, <2>1, WriteTypes
      <3>2. QueueInv' /\ Settled' = Settled /\ Later
        BY <1>0, <2>1, WriteQueues DEF LogInv
      <3>3. IsAt(t, "write") /\ Pop(t) /\ UNCHANGED <<registry, history, received>>
        BY <2>1 DEF Write
      <3> QED
        BY <3>1, <3>2, <3>3, PopStep
    <2>2. ASSUME NEW c \in Channels, DispatchPending(t, c) PROVE LogInv'
      BY <2>2, DispatchPendingStep
    <2>3. ASSUME NEW where, IsAt(t, where), Pop(t), UNCHANGED <<settings, queues, registry, received>>,
                 where = "deliver" => IsDelivered(Top(t)), where = "dispatch" => Top(t).todo = {}
          PROVE  LogInv'
      <3>1. UNCHANGED <<loggers, queues, registry, received>> /\ UNCHANGED <<registry, history, received>>
            /\ UNCHANGED <<loggers, pending>>
        BY <2>3 DEF settings, queues
      <3>2. stack' \in [Threads -> Seq(Frames)]
        BY <1>0, <2>3, PopTypes
      <3>3. LogTypeOK'
        BY <1>0, <3>1, <3>2, TypeByStack
      <3>4. QueueInv' /\ Settled' = Settled /\ Later
        BY <1>0, <3>1, SameQueues DEF LogInv
      <3> QED
        BY <2>3, <3>1, <3>3, <3>4, PopStep
    <2>4. CASE DispatchReturns(t)
      BY <2>3, <2>4 DEF DispatchReturns
    <2>5. CASE Deliver(t)
      BY <2>5, DeliverStep
    <2>6. CASE CallbackReturns(t)
      BY <2>3, <2>6 DEF CallbackReturns
    <2>7. CASE Delivered(t)
      BY <2>3, <2>7 DEF Delivered
    <2>8. CASE RegisterLocked(t)
      BY <2>8, RegisterLockedStep
    <2> QED
      BY <1>5, <2>1, <2>2, <2>4, <2>5, <2>6, <2>7, <2>8 DEF Continue
  <1>6. CASE UNCHANGED vars
    <2>1. UNCHANGED <<stack, queues, received, registry>> /\ loggers' \subseteq loggers
      BY <1>6 DEF vars, settings
    <2> QED
      BY <2>1, SettingsStep
  <1> QED
    BY <1>1, <1>2, <1>3, <1>4, <1>5, <1>6 DEF Next

(* The inductive invariant of the log system: queued messages are settled  *)
(* once, each call stands in one frame or was made, a dispatch has served  *)
(* what it has passed, and a registration waits for its own dispatch.      *)
THEOREM LogInvariant == Spec => []LogInv
  BY LogInvInit, LogInvNext, PTL DEF Spec

-----------------------------------------------------------------------------
(* The calls to come are at most one, and one if a frame has one.          *)
LEMMA OwedOnce ==
  ASSUME NEW f \in Frames, GoodDelivery(f), NEW l, NEW m, NEW q \in Owed(f, l, m)
  PROVE  Has(f, l, m) /\ \A r \in Owed(f, l, m) : r = q
  <1>1. f.at = "deliver"
    BY DEF Owed
  <1>2. PICK s \in Seq(Messages), p \in Seq(AllListeners) : s = f.messages /\ p = f.called
    BY <1>1, FrameFields
  <1>3. Distinct(s) /\ Distinct(p) /\ DOMAIN s = 1 .. Len(s) /\ DOMAIN p = 1 .. Len(p)
    BY <1>1, <1>2 DEF GoodDelivery
  <1>4. ASSUME NEW r \in Owed(f, l, m)
        PROVE  \E k \in DOMAIN s, j \in DOMAIN p : r = <<k, j>> /\ Owes(f, k, j, l, m)
    <2>1. r \in (DOMAIN s) \X (DOMAIN p) /\ Owes(f, r[1], r[2], l, m)
      BY <1>1, <1>2, <1>4, Zenon DEF Owed
    <2> QED
      BY <2>1
  <1>5. PICK k \in DOMAIN s, j \in DOMAIN p : q = <<k, j>> /\ Owes(f, k, j, l, m)
    BY <1>4
  <1>6. Has(f, l, m)
    BY <1>1, <1>2, <1>5, Zenon DEF Has
  <1>7. ASSUME NEW r \in Owed(f, l, m) PROVE r = q
    <2>1. PICK x \in DOMAIN s, y \in DOMAIN p : r = <<x, y>> /\ Owes(f, x, y, l, m)
      BY <1>4
    <2>2. s[x] = s[k] /\ p[y] = p[j]
      BY <1>2, <1>5, <2>1 DEF Owes
    <2>3. x = k /\ y = j
      BY <2>2, <1>3 DEF Distinct
    <2> QED
      BY <2>1, <2>3, <1>5
  <1> QED
    BY <1>6, <1>7

LEMMA ComingOnce ==
  ASSUME LogInv, NEW l \in AllListeners, NEW m \in Messages
  PROVE  /\ Cardinality(Coming(l, m)) \in {0, 1}
         /\ Cardinality(Coming(l, m)) # 0 <=>
              \E t \in Threads : \E i \in DOMAIN stack[t] : Has(stack[t][i], l, m)
  <1>0. /\ \A t \in Threads : \A i \in DOMAIN stack[t] : stack[t][i] \in Frames /\ GoodDelivery(stack[t][i])
        /\ OnceInv
    <2>1. \A t \in Threads : stack[t] \in Seq(Frames)
      BY DEF LogInv, LogTypeOK
    <2>2. \A t \in Threads : \A i \in DOMAIN stack[t] : stack[t][i] \in Frames
      BY <2>1
    <2> QED
      BY <2>2 DEF LogInv, DeliveryInv
  <1>1. ASSUME NEW x \in Coming(l, m)
        PROVE  \E t \in Threads : \E i \in DOMAIN stack[t] : \E q \in Owed(stack[t][i], l, m) : x = <<t, <<i, q>>>>
    <2>1. PICK t \in Threads : x \in {t} \X UNION {{i} \X Owed(stack[t][i], l, m) : i \in DOMAIN stack[t]}
      BY <1>1 DEF Coming
    <2>2. PICK y \in UNION {{i} \X Owed(stack[t][i], l, m) : i \in DOMAIN stack[t]} : x = <<t, y>>
      BY <2>1
    <2>3. PICK i \in DOMAIN stack[t] : y \in {i} \X Owed(stack[t][i], l, m)
      BY <2>2
    <2> QED
      BY <2>2, <2>3
  <1>2. ASSUME NEW t \in Threads, NEW i \in DOMAIN stack[t], NEW q \in Owed(stack[t][i], l, m)
        PROVE  <<t, <<i, q>>>> \in Coming(l, m)
    <2>1. <<i, q>> \in UNION {{h} \X Owed(stack[t][h], l, m) : h \in DOMAIN stack[t]}
      BY <1>2
    <2> QED
      BY <2>1 DEF Coming
  <1>3. ASSUME NEW t \in Threads, NEW i \in DOMAIN stack[t], Has(stack[t][i], l, m)
        PROVE  \E q : q \in Owed(stack[t][i], l, m)
    <2>1. PICK k \in DOMAIN stack[t][i].messages, j \in DOMAIN stack[t][i].called :
            Owes(stack[t][i], k, j, l, m) /\ stack[t][i].at = "deliver"
      BY <1>3 DEF Has
    <2>2. <<k, j>> \in (DOMAIN stack[t][i].messages) \X (DOMAIN stack[t][i].called) /\ <<k, j>>[1] = k /\ <<k, j>>[2] = j
      OBVIOUS
    <2>3. <<k, j>> \in Owed(stack[t][i], l, m)
      BY <2>1, <2>2 DEF Owed
    <2> QED
      BY <2>3
  <1>4. CASE \E t \in Threads : \E i \in DOMAIN stack[t] : Has(stack[t][i], l, m)
    <2>0. PICK t \in Threads : \E i \in DOMAIN stack[t] : Has(stack[t][i], l, m)
      BY <1>4
    <2>1. PICK i \in DOMAIN stack[t] : Has(stack[t][i], l, m)
      BY <2>0
    <2>2. PICK q : q \in Owed(stack[t][i], l, m)
      BY <1>3, <2>1
    <2>3. ASSUME NEW x \in Coming(l, m) PROVE x = <<t, <<i, q>>>>
      <3>1. PICK u \in Threads : \E h \in DOMAIN stack[u] : \E r \in Owed(stack[u][h], l, m) : x = <<u, <<h, r>>>>
        BY <1>1, <2>3
      <3>2. PICK h \in DOMAIN stack[u] : \E r \in Owed(stack[u][h], l, m) : x = <<u, <<h, r>>>>
        BY <3>1
      <3>3. PICK r \in Owed(stack[u][h], l, m) : x = <<u, <<h, r>>>>
        BY <3>2
      <3>4. Has(stack[u][h], l, m)
        BY <1>0, <3>3, OwedOnce
      <3>5. u = t /\ h = i
        BY <1>0, <2>1, <3>4, OnceHere
      <3>6. r = q
        BY <1>0, <2>2, <3>3, <3>5, OwedOnce
      <3> QED
        BY <3>3, <3>5, <3>6
    <2>4. Coming(l, m) = {<<t, <<i, q>>>>}
      BY <1>2, <2>2, <2>3
    <2>5. Cardinality(Coming(l, m)) = 1
      BY <2>4, FS_Singleton
    <2> QED
      BY <1>4, <2>5
  <1>5. CASE ~\E t \in Threads : \E i \in DOMAIN stack[t] : Has(stack[t][i], l, m)
    <2>1. Coming(l, m) = {}
      <3> SUFFICES ASSUME NEW x \in Coming(l, m) PROVE FALSE
        OBVIOUS
      <3>1. PICK u \in Threads : \E h \in DOMAIN stack[u] : \E r \in Owed(stack[u][h], l, m) : x = <<u, <<h, r>>>>
        BY <1>1
      <3>2. PICK h \in DOMAIN stack[u] : \E r \in Owed(stack[u][h], l, m) : x = <<u, <<h, r>>>>
        BY <3>1
      <3>3. PICK r \in Owed(stack[u][h], l, m) : x = <<u, <<h, r>>>>
        BY <3>2
      <3>4. Has(stack[u][h], l, m)
        BY <1>0, <3>3, OwedOnce
      <3> QED
        BY <1>5, <3>4
    <2>2. Cardinality(Coming(l, m)) = 0
      BY <2>1, FS_EmptySet
    <2> QED
      BY <1>5, <2>2
  <1> QED
    BY <1>4, <1>5

LEMMA CalledOnce ==
  ASSUME LogInv, NEW l \in AllListeners, NEW m \in Messages
  PROVE  Called(l, m) \in {0, 1} /\ (Called(l, m) = 1 <=> Got(l, m))
  <1>1. PICK n \in {0, 1} : n = Cardinality(Coming(l, m))
    BY ComingOnce
  <1>2. n # 0 <=> \E t \in Threads : \E i \in DOMAIN stack[t] : Has(stack[t][i], l, m)
    BY <1>1, ComingOnce
  <1>3. PICK k \in {0, 1} : k = received[l][m]
    BY DEF LogInv, OnceInv
  <1>4. n # 0 => k = 0
    BY <1>2, <1>3, OnceHere DEF LogInv
  <1>5. Called(l, m) = k + n
    BY <1>1, <1>3 DEF Called
  <1>6. Got(l, m) <=> k # 0 \/ n # 0
    BY <1>2, <1>3 DEF Got
  <1> QED
    BY <1>4, <1>5, <1>6

LEMMA ServedFromInv ==
  ASSUME LogInv
  PROVE  ListenersAreServed
  <1>0. LogTypeOK
    BY DEF LogInv
  <1>1. ExactlyOnce
    <2> SUFFICES ASSUME NEW l \in AllListeners
                 PROVE  /\ \A m \in Messages : Called(l, m) <= 1
                        /\ \A m \in Due(l) : Called(l, m) = 1
      BY DEF ExactlyOnce
    <2>1. \A m \in Messages : Called(l, m) <= 1
      BY CalledOnce
    <2>2. ASSUME NEW m \in Due(l) PROVE Called(l, m) = 1
      <3>1. Got(l, m)
        BY <2>2 DEF LogInv, ServiceInv
      <3>2. m \in Messages
        <4>1. \A c \in Channels : ToSet(history[c]) \subseteq Messages
          BY <1>0, ElementsTyped DEF LogTypeOK
        <4> QED
          BY <4>1, <1>0, <2>2, DueMessages, SettledTyped
      <3> QED
        BY <3>1, <3>2, CalledOnce
    <2> QED
      BY <2>1, <2>2
  <1>2. SkipSkipsBacklog
    <2> SUFFICES ASSUME NEW l \in Listeners, NEW m \in 1 .. registration[l].skipsUpTo
                 PROVE  Called(l, m) = 0
      BY DEF SkipSkipsBacklog
    <2>1. m \in Settled /\ ~Got(l, m) /\ l \in AllListeners
      BY DEF LogInv, ServiceInv, AllListeners
    <2>2. m \in Messages
      BY <1>0, <2>1, SettledTyped
    <2> QED
      BY <2>1, <2>2, CalledOnce
  <1>3. DispatchLeavesNothing
    <2> SUFFICES ASSUME NEW t \in Threads, IsAt(t, "dispatch"), Top(t).todo = {},
                        NEW c \in loggers, NEW i \in DOMAIN pending[c]
                 PROVE  pending[c][i] > Top(t).upTo
      BY DEF DispatchLeavesNothing
    <2>1. /\ Top(t) = stack[t][Len(stack[t])] /\ Top(t).at = "dispatch"
          /\ Len(stack[t]) \in Nat \ {0} /\ DOMAIN stack[t] = 1 .. Len(stack[t])
      BY <1>0, AtTop DEF LogTypeOK
    <2>2. Len(stack[t]) \in DOMAIN stack[t]
      BY <2>1
    <2>3. Served(Top(t))
      BY <2>1, <2>2 DEF LogInv, DispatchInv
    <2>4. pending[c][i] \in ToSet(pending[c])
      BY DEF ToSet
    <2> QED
      BY <2>1, <2>3, <2>4 DEF Served
  <1> QED
    BY <1>1, <1>2, <1>3 DEF ListenersAreServed

(* log_system.cpp:862 and README.md:199, for any number of threads,        *)
(* channels, listeners and messages: no listener gets a message twice, a   *)
(* registered one gets each message that leaves the queues, one that skips *)
(* the history gets none of it, and a dispatch leaves nothing behind.      *)
THEOREM LogListenersAreServed == Spec => []ListenersAreServed
  BY LogInvariant, ServedFromInv, PTL

(* Type correctness of the log system.                                     *)
THEOREM LogTypeCorrect == Spec => []LogTypeOK
  <1>1. LogInv => LogTypeOK
    BY DEF LogInv
  <1> QED
    BY <1>1, LogInvariant, PTL
=============================================================================
