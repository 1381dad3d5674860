------------------------ MODULE SerialJobQueueProofs ------------------------
(***************************************************************************)
(* Proofs about the serial job queue, for any sets of clients and ids and  *)
(* any bound on submissions.  A ticket moves from the pending queue to the *)
(* worker, to the results and out; the invariant says that these four      *)
(* places hold increasing tickets, one place below the next, and that only *)
(* an owner whose worker is gone clears them.                              *)
(***************************************************************************)
EXTENDS SerialJobQueue, SequenceFilterProofs, TLAPS

Entries == JobIds \X Nat

OwnerPcs == {"stopping", "joining", "clearing", "restarting"}

TypeOK ==
  /\ isRunning \in BOOLEAN /\ shouldStop \in BOOLEAN /\ isFlush \in BOOLEAN
  /\ pending \in Seq(Entries)
  /\ completed \in Seq(Nat) /\ polled \in Seq(Nat)
  /\ workerPc \in {"none", "test", "refused", "blocked", "working", "exited"}
  /\ workerPc = "working" => entry \in Entries
  /\ clientPc \in [Clients -> {"idle", "pushed"} \cup OwnerPcs]
  /\ tickets \in Nat /\ watermark \in Nat

(* A client other than the owner only submits; the owner clears and        *)
(* restarts when the worker has been joined.                               *)
OwnerInv ==
  /\ \A c \in Clients : clientPc[c] \in OwnerPcs => c = Owner
  /\ isRunning <=> workerPc # "none"
  /\ clientPc[Owner] \in {"clearing", "restarting"} => ~isRunning

(* The places a ticket can be, as sets.                                    *)
Numbers(s) == {s[i] : i \in 1 .. Len(s)}

Polled == Numbers(polled)
Completed == Numbers(completed)
Working == IF workerPc = "working" THEN {entry[2]} ELSE {}

Increasing(s) == \A i, k \in 1 .. Len(s) : i < k => s[i] < s[k]

Below(S, T) == \A x \in S, y \in T : x < y

IncreasingEntries(s) == \A i, k \in 1 .. Len(s) : i < k => s[i][2] < s[k][2]

(* Each place is in order, and the places are in order.                    *)
OrderInv ==
  /\ Increasing(polled) /\ Increasing(completed) /\ IncreasingEntries(pending)
  /\ Below(Polled, Completed) /\ Below(Polled, Working) /\ Below(Polled, TicketsOf(pending))
  /\ Below(Completed, Working) /\ Below(Completed, TicketsOf(pending))
  /\ Below(Working, TicketsOf(pending))

(* Nothing that can still come out is as old as the last Flush.            *)
RecentInv ==
  /\ watermark <= tickets
  /\ \A t \in Completed \cup Working \cup TicketsOf(pending) : t > watermark

(* Every ticket handed out is somewhere, and nothing else is.              *)
AccountInv ==
  1 .. tickets = Polled \cup Completed \cup Working \cup TicketsOf(pending) \cup removed \cup flushed

SerialInv == TypeOK /\ OwnerInv /\ OrderInv /\ RecentInv /\ AccountInv

-----------------------------------------------------------------------------
(* What Cancel leaves pending: entries of another id, in their order.      *)
LEMMA DropKeepsOrder ==
  ASSUME NEW s \in Seq(Entries), NEW id, IncreasingEntries(s)
  PROVE  /\ Drop(s, id) \in Seq(Entries)
         /\ IncreasingEntries(Drop(s, id))
         /\ TicketsOf(Drop(s, id)) \subseteq TicketsOf(s)
  <1> DEFINE S == {e \in ToSet(s) : e[1] # id}
             r == Keep(s, S)
  <1>1. r \in Seq(Entries) /\ \E f : IsFilter(r, f, s, S, Len(s))
    BY KeepIsFilter
  <1>2. PICK f : IsFilter(r, f, s, S, Len(s))
    BY <1>1
  <1>3. Drop(s, id) = r
    BY DEF Drop
  <1> HIDE DEF r, S
  <1>4. \A i \in 1 .. Len(r) : f[i] \in 1 .. Len(s) /\ r[i] = s[f[i]]
    BY <1>2 DEF IsFilter
  <1>5. IncreasingEntries(r)
    BY <1>2, <1>4 DEF IsFilter, IncreasingEntries
  <1>6. TicketsOf(r) \subseteq TicketsOf(s)
    BY <1>4 DEF TicketsOf
  <1> QED
    BY <1>1, <1>3, <1>5, <1>6

(* A queue of numbers, and one of entries, that grows or loses its front.  *)
LEMMA AppendNumber ==
  ASSUME NEW s \in Seq(Nat), NEW t \in Nat, Increasing(s), \A x \in Numbers(s) : x < t
  PROVE  /\ Append(s, t) \in Seq(Nat)
         /\ Numbers(Append(s, t)) = Numbers(s) \cup {t}
         /\ Increasing(Append(s, t))
  <1> DEFINE r == Append(s, t)
  <1>1. r \in Seq(Nat) /\ Len(r) = Len(s) + 1 /\ Len(s) \in Nat /\ r[Len(r)] = t
        /\ \A i \in 1 .. Len(s) : r[i] = s[i]
    OBVIOUS
  <1>2. 1 .. Len(r) = (1 .. Len(s)) \cup {Len(r)}
    BY <1>1
  <1> HIDE DEF r
  <1>3. Numbers(r) = Numbers(s) \cup {t}
    <2>1. ASSUME NEW i \in 1 .. Len(r) PROVE r[i] \in Numbers(s) \cup {t}
      BY <1>1, <1>2 DEF Numbers
    <2>2. ASSUME NEW i \in 1 .. Len(s) PROVE s[i] \in Numbers(r)
      BY <1>1, <1>2 DEF Numbers
    <2>3. t \in Numbers(r)
      BY <1>1, <1>2 DEF Numbers
    <2> QED
      BY <2>1, <2>2, <2>3 DEF Numbers
  <1>4. Increasing(r)
    <2> SUFFICES ASSUME NEW i \in 1 .. Len(r), NEW k \in 1 .. Len(r), i < k PROVE r[i] < r[k]
      BY DEF Increasing
    <2>1. i \in 1 .. Len(s)
      BY <1>1
    <2>2. CASE k \in 1 .. Len(s)
      BY <2>1, <2>2, <1>1 DEF Increasing
    <2>3. CASE k = Len(r)
      BY <2>1, <2>3, <1>1 DEF Numbers
    <2> QED
      BY <2>2, <2>3, <1>2
  <1> QED
    BY <1>1, <1>3, <1>4 DEF r

LEMMA TailNumber ==
  ASSUME NEW s \in Seq(Nat), s # <<>>, Increasing(s)
  PROVE  /\ Tail(s) \in Seq(Nat) /\ Head(s) \in Nat
         /\ Numbers(s) = Numbers(Tail(s)) \cup {Head(s)}
         /\ Increasing(Tail(s))
         /\ \A x \in Numbers(Tail(s)) : Head(s) < x
  <1> DEFINE r == Tail(s)
  <1>1. r \in Seq(Nat) /\ Head(s) \in Nat /\ Head(s) = s[1] /\ Len(s) = Len(r) + 1 /\ Len(r) \in Nat
        /\ \A i \in 1 .. Len(r) : r[i] = s[i + 1]
    OBVIOUS
  <1> HIDE DEF r
  <1>2. Numbers(s) = Numbers(r) \cup {s[1]}
    <2>1. ASSUME NEW i \in 1 .. Len(s) PROVE s[i] \in Numbers(r) \cup {s[1]}
      <3>1. CASE i # 1
        <4>1. i - 1 \in 1 .. Len(r) /\ (i - 1) + 1 = i
          BY <1>1, <3>1
        <4>2. r[i - 1] = s[(i - 1) + 1]
          BY <1>1, <4>1
        <4> QED
          BY <4>1, <4>2 DEF Numbers
      <3> QED
        BY <3>1
    <2>2. ASSUME NEW i \in 1 .. Len(r) PROVE r[i] \in Numbers(s)
      <3>1. i + 1 \in 1 .. Len(s) /\ r[i] = s[i + 1]
        BY <1>1
      <3> QED
        BY <3>1 DEF Numbers
    <2>3. s[1] \in Numbers(s)
      BY <1>1 DEF Numbers
    <2> QED
      BY <2>1, <2>2, <2>3 DEF Numbers
  <1>3. Increasing(r)
    <2> SUFFICES ASSUME NEW i \in 1 .. Len(r), NEW k \in 1 .. Len(r), i < k PROVE r[i] < r[k]
      BY DEF Increasing
    <2>1. i + 1 \in 1 .. Len(s) /\ k + 1 \in 1 .. Len(s) /\ i + 1 < k + 1
      BY <1>1
    <2> QED
      BY <1>1, <2>1 DEF Increasing
  <1>4. \A x \in Numbers(r) : s[1] < x
    <2> SUFFICES ASSUME NEW i \in 1 .. Len(r) PROVE s[1] < r[i]
      BY DEF Numbers
    <2>1. 1 \in 1 .. Len(s) /\ i + 1 \in 1 .. Len(s) /\ 1 < i + 1 /\ r[i] = s[i + 1]
      BY <1>1
    <2> QED
      BY <2>1 DEF Increasing
  <1> QED
    BY <1>1, <1>2, <1>3, <1>4 DEF r

LEMMA AppendEntry ==
  ASSUME NEW s \in Seq(Entries), NEW e \in Entries, IncreasingEntries(s),
         \A x \in TicketsOf(s) : x < e[2]
  PROVE  /\ Append(s, e) \in Seq(Entries)
         /\ TicketsOf(Append(s, e)) = TicketsOf(s) \cup {e[2]}
         /\ IncreasingEntries(Append(s, e))
  <1> DEFINE r == Append(s, e)
  <1>1. r \in Seq(Entries) /\ Len(r) = Len(s) + 1 /\ Len(s) \in Nat /\ r[Len(r)] = e
        /\ \A i \in 1 .. Len(s) : r[i] = s[i]
    OBVIOUS
  <1>2. 1 .. Len(r) = (1 .. Len(s)) \cup {Len(r)}
    BY <1>1
  <1> HIDE DEF r
  <1>3. TicketsOf(r) = TicketsOf(s) \cup {e[2]}
    <2>1. ASSUME NEW i \in 1 .. Len(r) PROVE r[i][2] \in TicketsOf(s) \cup {e[2]}
      BY <1>1, <1>2 DEF TicketsOf
    <2>2. ASSUME NEW i \in 1 .. Len(s) PROVE s[i][2] \in TicketsOf(r)
      BY <1>1, <1>2 DEF TicketsOf
    <2>3. e[2] \in TicketsOf(r)
      BY <1>1, <1>2 DEF TicketsOf
    <2> QED
      BY <2>1, <2>2, <2>3 DEF TicketsOf
  <1>4. IncreasingEntries(r)
    <2> SUFFICES ASSUME NEW i \in 1 .. Len(r), NEW k \in 1 .. Len(r), i < k PROVE r[i][2] < r[k][2]
      BY DEF IncreasingEntries
    <2>1. i \in 1 .. Len(s)
      BY <1>1
    <2>2. CASE k \in 1 .. Len(s)
      BY <2>1, <2>2, <1>1 DEF IncreasingEntries
    <2>3. CASE k = Len(r)
      BY <2>1, <2>3, <1>1 DEF TicketsOf
    <2> QED
      BY <2>2, <2>3, <1>2
  <1> QED
    BY <1>1, <1>3, <1>4 DEF r

LEMMA TailEntry ==
  ASSUME NEW s \in Seq(Entries), s # <<>>, IncreasingEntries(s)
  PROVE  /\ Tail(s) \in Seq(Entries) /\ Head(s) \in Entries
         /\ TicketsOf(s) = TicketsOf(Tail(s)) \cup {Head(s)[2]}
         /\ IncreasingEntries(Tail(s))
         /\ \A x \in TicketsOf(Tail(s)) : Head(s)[2] < x
  <1> DEFINE r == Tail(s)
  <1>1. r \in Seq(Entries) /\ Head(s) \in Entries /\ Head(s) = s[1] /\ Len(s) = Len(r) + 1
        /\ Len(r) \in Nat /\ \A i \in 1 .. Len(r) : r[i] = s[i + 1]
    OBVIOUS
  <1> HIDE DEF r
  <1>2. TicketsOf(s) = TicketsOf(r) \cup {s[1][2]}
    <2>1. ASSUME NEW i \in 1 .. Len(s) PROVE s[i][2] \in TicketsOf(r) \cup {s[1][2]}
      <3>1. CASE i # 1
        <4>1. i - 1 \in 1 .. Len(r) /\ r[i - 1] = s[i]
          BY <1>1, <3>1
        <4> QED
          BY <4>1 DEF TicketsOf
      <3> QED
        BY <3>1
    <2>2. ASSUME NEW i \in 1 .. Len(r) PROVE r[i][2] \in TicketsOf(s)
      <3>1. i + 1 \in 1 .. Len(s) /\ r[i] = s[i + 1]
        BY <1>1
      <3> QED
        BY <3>1 DEF TicketsOf
    <2>3. s[1][2] \in TicketsOf(s)
      BY <1>1 DEF TicketsOf
    <2> QED
      BY <2>1, <2>2, <2>3 DEF TicketsOf
  <1>3. IncreasingEntries(r)
    <2> SUFFICES ASSUME NEW i \in 1 .. Len(r), NEW k \in 1 .. Len(r), i < k PROVE r[i][2] < r[k][2]
      BY DEF IncreasingEntries
    <2>1. i + 1 \in 1 .. Len(s) /\ k + 1 \in 1 .. Len(s) /\ i + 1 < k + 1
      BY <1>1
    <2> QED
      BY <1>1, <2>1 DEF IncreasingEntries
  <1>4. \A x \in TicketsOf(r) : s[1][2] < x
    BY <1>1 DEF IncreasingEntries, TicketsOf
  <1> QED
    BY <1>1, <1>2, <1>3, <1>4 DEF r

-----------------------------------------------------------------------------
LEMMA EmptyQueues ==
  /\ Numbers(<<>>) = {} /\ Increasing(<<>>)
  /\ TicketsOf(<<>>) = {} /\ IncreasingEntries(<<>>)
  /\ <<>> \in Seq(Nat) /\ <<>> \in Seq(Entries)
  BY DEF Numbers, Increasing, TicketsOf, IncreasingEntries

LEMMA SerialInit == Init => SerialInv
  <1> SUFFICES ASSUME Init PROVE SerialInv
    OBVIOUS
  <1> USE SerialAssumption, EmptyQueues DEF Init
  <1>1. TypeOK
    BY DEF TypeOK
  <1>2. OwnerInv
    BY DEF OwnerInv, OwnerPcs
  <1>3. Polled = {} /\ Completed = {} /\ Working = {} /\ TicketsOf(pending) = {}
    BY DEF Polled, Completed, Working
  <1>4. OrderInv /\ RecentInv
    BY <1>3 DEF OrderInv, RecentInv, Below
  <1>5. AccountInv
    BY <1>3 DEF AccountInv
  <1> QED
    BY <1>1, <1>2, <1>4, <1>5 DEF SerialInv

(* Start, and the steps of Stop and Flush up to the clearing, move no      *)
(* ticket: the thread they start or join has none.                         *)
LEMMA OwnerSteps ==
  ASSUME SerialInv,
         Start \/ StopFlag(FALSE) \/ StopFlag(TRUE) \/ StopNotify \/ StopJoin
           \/ FlushStopped \/ FlushStart
  PROVE  SerialInv'
  <1> USE SerialAssumption DEF SerialInv, Start, StopFlag, StopNotify, StopJoin, FlushStopped,
          FlushStart, Launch, NotifyOne, TypeOK
  <1>1. TypeOK'
    BY DEF OwnerPcs
  <1>2. OwnerInv'
    BY DEF OwnerInv, OwnerPcs
  <1>3. (workerPc # "working" /\ workerPc' # "working") \/ UNCHANGED <<workerPc, entry>>
    BY DEF OwnerInv
  <1>4. Polled' = Polled /\ Completed' = Completed /\ TicketsOf(pending)' = TicketsOf(pending)
        /\ Working' = Working
    BY <1>3 DEF Polled, Completed, TicketsOf, Working
  <1>5. OrderInv'
    BY <1>4 DEF OrderInv, Increasing, IncreasingEntries
  <1>6. RecentInv' /\ AccountInv'
    BY <1>4 DEF RecentInv, AccountInv
  <1> QED
    BY <1>1, <1>2, <1>5, <1>6

LEMMA FlushClearStep ==
  ASSUME SerialInv, FlushClear
  PROVE  SerialInv'
  <1> USE SerialAssumption DEF SerialInv, FlushClear, TypeOK
  <1>1. TypeOK'
    BY DEF OwnerPcs
  <1>2. OwnerInv'
    BY DEF OwnerInv, OwnerPcs
  <1>3. workerPc # "working"
    BY DEF OwnerInv
  <1>4. Polled' = Polled /\ Completed' = {} /\ TicketsOf(pending)' = {} /\ Working' = {} /\ Working = {}
    BY <1>3, EmptyQueues DEF Polled, Completed, Working
  <1>5. OrderInv'
    BY <1>4, EmptyQueues DEF OrderInv, Increasing, Below
  <1>6. RecentInv'
    BY <1>4 DEF RecentInv
  <1>7. AccountInv'
    <2>1. flushed' = flushed \cup TicketsOf(pending) \cup Completed
      BY DEF Completed, Numbers
    <2> QED
      BY <1>4, <2>1 DEF AccountInv
  <1> QED
    BY <1>1, <1>2, <1>5, <1>6, <1>7

LEMMA SubmitStep ==
  ASSUME SerialInv, NEW c \in Clients, NEW id \in JobIds, Submit(c, id)
  PROVE  SerialInv'
  <1> USE SerialAssumption DEF SerialInv, Submit, TypeOK
  <1> DEFINE e == <<id, tickets + 1>>
  <1>0. e \in Entries /\ e[2] = tickets + 1 /\ tickets + 1 \in Nat
    BY DEF Entries
  <1>1. \A t \in Polled \cup Completed \cup Working \cup TicketsOf(pending) :
           t \in 1 .. tickets /\ t < tickets + 1
    BY DEF AccountInv
  <1>2. pending' = Append(pending, e)
    OBVIOUS
  <1> HIDE DEF e
  <1>3. /\ pending' \in Seq(Entries)
        /\ TicketsOf(pending)' = TicketsOf(pending) \cup {tickets + 1}
        /\ IncreasingEntries(pending)'
    BY <1>0, <1>1, <1>2, AppendEntry DEF OrderInv
  <1>4. Polled' = Polled /\ Completed' = Completed /\ Working' = Working
    BY DEF Polled, Completed, Working
  <1>5. TypeOK'
    BY <1>0, <1>3
  <1>6. OwnerInv'
    BY DEF OwnerInv, OwnerPcs
  <1>7. OrderInv'
    BY <1>1, <1>3, <1>4 DEF OrderInv, Below, Increasing
  <1>8. RecentInv'
    <2>1. \A t \in Completed \cup Working \cup TicketsOf(pending) : t > watermark
      BY DEF RecentInv
    <2>2. tickets + 1 > watermark /\ watermark <= tickets + 1
      BY DEF RecentInv
    <2> QED
      BY <1>3, <1>4, <2>1, <2>2 DEF RecentInv
  <1>9. AccountInv'
    <2>1. 1 .. (tickets + 1) = (1 .. tickets) \cup {tickets + 1}
      OBVIOUS
    <2> QED
      BY <1>3, <1>4, <2>1 DEF AccountInv
  <1> QED
    BY <1>5, <1>6, <1>7, <1>8, <1>9

LEMMA SubmitNotifyStep ==
  ASSUME SerialInv, NEW c \in Clients, SubmitNotify(c)
  PROVE  SerialInv'
  <1> USE SerialAssumption DEF SerialInv, SubmitNotify, NotifyOne, TypeOK
  <1>1. TypeOK'
    OBVIOUS
  <1>2. OwnerInv'
    BY DEF OwnerInv, OwnerPcs
  <1>3. Polled' = Polled /\ Completed' = Completed /\ TicketsOf(pending)' = TicketsOf(pending)
        /\ Working' = Working
    BY DEF Polled, Completed, TicketsOf, Working
  <1>4. OrderInv' /\ RecentInv' /\ AccountInv'
    BY <1>3 DEF OrderInv, Increasing, IncreasingEntries, RecentInv, AccountInv
  <1> QED
    BY <1>1, <1>2, <1>4

LEMMA PollStep ==
  ASSUME SerialInv, NEW c \in Clients, Poll(c)
  PROVE  SerialInv'
  <1> USE SerialAssumption DEF SerialInv, Poll, TypeOK
  <1> DEFINE t == Head(completed)
  <1>1. /\ completed' \in Seq(Nat) /\ t \in Nat /\ Increasing(completed)'
        /\ Completed = Completed' \cup {t}
        /\ \A x \in Completed' : t < x
    BY TailNumber DEF OrderInv, Completed
  <1> HIDE DEF t
  <1>2. \A x \in Numbers(polled) : x < t
    BY <1>1 DEF OrderInv, Below, Polled
  <1>3. polled' = Append(polled, t)
    BY DEF t
  <1>4. polled' \in Seq(Nat) /\ Polled' = Polled \cup {t} /\ Increasing(polled)'
    BY <1>1, <1>2, <1>3, AppendNumber DEF OrderInv, Polled
  <1>5. TicketsOf(pending)' = TicketsOf(pending) /\ Working' = Working
    BY DEF TicketsOf, Working
  <1>6. TypeOK'
    BY <1>1, <1>4
  <1>7. OwnerInv'
    BY DEF OwnerInv
  <1>8. OrderInv'
    BY <1>1, <1>4, <1>5 DEF OrderInv, Below, IncreasingEntries
  <1>9. RecentInv' /\ AccountInv'
    BY <1>1, <1>4, <1>5 DEF RecentInv, AccountInv
  <1> QED
    BY <1>6, <1>7, <1>8, <1>9

LEMMA CancelStep ==
  ASSUME SerialInv, NEW c \in Clients, NEW id \in JobIds, Cancel(c, id)
  PROVE  SerialInv'
  <1> USE SerialAssumption DEF SerialInv, Cancel, TypeOK
  <1>1. pending' \in Seq(Entries) /\ IncreasingEntries(pending)'
    BY DropKeepsOrder DEF OrderInv
  <1>2. TicketsOf(pending)' \subseteq TicketsOf(pending)
    <2>1. TicketsOf(Drop(pending, id)) \subseteq TicketsOf(pending)
      BY DropKeepsOrder DEF OrderInv
    <2> QED
      BY <2>1
  <1>3. removed' = removed \cup (TicketsOf(pending) \ TicketsOf(pending)')
    BY DEF TicketsOf
  <1>4. Polled' = Polled /\ Completed' = Completed /\ Working' = Working
    BY DEF Polled, Completed, Working
  <1>5. TypeOK'
    BY <1>1
  <1>6. OwnerInv'
    BY DEF OwnerInv
  <1>7. OrderInv'
    BY <1>1, <1>2, <1>4 DEF OrderInv, Below, Increasing
  <1>8. RecentInv'
    BY <1>2, <1>4 DEF RecentInv
  <1>9. AccountInv'
    BY <1>2, <1>3, <1>4 DEF AccountInv
  <1> QED
    BY <1>5, <1>6, <1>7, <1>8, <1>9

-----------------------------------------------------------------------------
(* The worker waits, wakes and leaves without a ticket.                    *)
LEMMA WorkerIdleSteps ==
  ASSUME SerialInv, WorkerRefused \/ WorkerSleep \/ WorkerSpuriousWake \/ WorkerExit
  PROVE  SerialInv'
  <1> USE SerialAssumption DEF SerialInv, WorkerRefused, WorkerSleep, WorkerSpuriousWake, WorkerExit,
          TypeOK
  <1>1. TypeOK'
    OBVIOUS
  <1>2. OwnerInv'
    BY DEF OwnerInv
  <1>3. Polled' = Polled /\ Completed' = Completed /\ TicketsOf(pending)' = TicketsOf(pending)
        /\ Working' = Working
    BY DEF Polled, Completed, TicketsOf, Working
  <1>4. OrderInv' /\ RecentInv' /\ AccountInv'
    BY <1>3 DEF OrderInv, Increasing, IncreasingEntries, RecentInv, AccountInv
  <1> QED
    BY <1>1, <1>2, <1>4

LEMMA WorkerTakeStep ==
  ASSUME SerialInv, WorkerTake
  PROVE  SerialInv'
  <1> USE SerialAssumption DEF SerialInv, TypeOK
  <1> DEFINE e == Head(pending)
  <1>0. pending # <<>> /\ pending' = Tail(pending) /\ workerPc = "test"
        /\ UNCHANGED <<isRunning, shouldStop, completed, clientPc, isFlush, tickets, polled,
                       flushed, watermark>>
    BY DEF WorkerTake
  <1>1. /\ pending' \in Seq(Entries) /\ e \in Entries /\ e[2] \in Nat /\ IncreasingEntries(pending)'
        /\ TicketsOf(pending) = TicketsOf(pending)' \cup {e[2]}
        /\ \A x \in TicketsOf(pending)' : e[2] < x
    <2>1. /\ Tail(pending) \in Seq(Entries) /\ e \in Entries
          /\ TicketsOf(pending) = TicketsOf(Tail(pending)) \cup {e[2]}
          /\ IncreasingEntries(Tail(pending))
          /\ \A x \in TicketsOf(Tail(pending)) : e[2] < x
      BY <1>0, TailEntry DEF OrderInv
    <2> QED
      BY <1>0, <2>1 DEF Entries
  <1>2. \/ removed' = removed \cup {e[2]} /\ workerPc' = "test"
        \/ removed' = removed /\ workerPc' = "working" /\ entry' = e
    BY DEF WorkerTake
  <1> HIDE DEF e
  <1>3. Polled' = Polled /\ Completed' = Completed /\ Working = {}
    BY <1>0 DEF Polled, Completed, Working
  <1>4. \/ Working' = {} /\ removed' = removed \cup {e[2]}
        \/ Working' = {e[2]} /\ removed' = removed
    <2>1. CASE removed' = removed \cup {e[2]} /\ workerPc' = "test"
      <3>1. Working' = {}
        BY <2>1 DEF Working
      <3> QED
        BY <2>1, <3>1
    <2>2. CASE removed' = removed /\ workerPc' = "working" /\ entry' = e
      BY <2>2 DEF Working
    <2> QED
      BY <1>2, <2>1, <2>2
  <1>5. TypeOK'
    BY <1>0, <1>1, <1>2
  <1>6. OwnerInv'
    BY <1>0, <1>2 DEF OwnerInv
  <1>7. OrderInv'
    BY <1>0, <1>1, <1>3, <1>4 DEF OrderInv, Below, Increasing
  <1>8. RecentInv'
    BY <1>0, <1>1, <1>3, <1>4 DEF RecentInv
  <1>9. AccountInv'
    BY <1>0, <1>1, <1>3, <1>4 DEF AccountInv
  <1> QED
    BY <1>5, <1>6, <1>7, <1>8, <1>9

LEMMA WorkerCompleteStep ==
  ASSUME SerialInv, WorkerComplete
  PROVE  SerialInv'
  <1> USE SerialAssumption DEF SerialInv, WorkerComplete, TypeOK
  <1>1. Working = {entry[2]} /\ entry[2] \in Nat /\ Working' = {}
    BY DEF Working, Entries
  <1>2. \A x \in Numbers(completed) : x < entry[2]
    BY <1>1 DEF OrderInv, Below, Completed
  <1>3. completed' \in Seq(Nat) /\ Completed' = Completed \cup {entry[2]} /\ Increasing(completed)'
    BY <1>1, <1>2, AppendNumber DEF OrderInv, Completed
  <1>4. Polled' = Polled /\ TicketsOf(pending)' = TicketsOf(pending)
    BY DEF Polled, TicketsOf
  <1>5. TypeOK'
    BY <1>3
  <1>6. OwnerInv'
    BY DEF OwnerInv
  <1>7. OrderInv'
    BY <1>1, <1>3, <1>4 DEF OrderInv, Below, Increasing, IncreasingEntries
  <1>8. RecentInv' /\ AccountInv'
    BY <1>1, <1>3, <1>4 DEF RecentInv, AccountInv
  <1> QED
    BY <1>5, <1>6, <1>7, <1>8

LEMMA SerialStutter ==
  ASSUME SerialInv, UNCHANGED vars
  PROVE  SerialInv'
  <1> USE DEF SerialInv, vars
  <1>1. TypeOK' /\ OwnerInv'
    BY DEF TypeOK, OwnerInv
  <1>2. Polled' = Polled /\ Completed' = Completed /\ TicketsOf(pending)' = TicketsOf(pending)
        /\ Working' = Working
    BY DEF Polled, Completed, TicketsOf, Working
  <1>3. OrderInv' /\ RecentInv' /\ AccountInv'
    BY <1>2 DEF OrderInv, Increasing, IncreasingEntries, RecentInv, AccountInv
  <1> QED
    BY <1>1, <1>3

(* The inductive invariant of the queue.                                   *)
THEOREM SerialInvariant == FairSpec => []SerialInv
  <1>1. SerialInv /\ [Next]_vars => SerialInv'
    <2> SUFFICES ASSUME SerialInv, [Next]_vars PROVE SerialInv'
      OBVIOUS
    <2>1. CASE Start \/ StopFlag(FALSE) \/ StopFlag(TRUE) \/ StopNotify \/ StopJoin
                 \/ FlushStopped \/ FlushStart
      BY <2>1, OwnerSteps
    <2>2. CASE FlushClear
      BY <2>2, FlushClearStep
    <2>3. CASE \E c \in Clients, id \in JobIds : Submit(c, id)
      BY <2>3, SubmitStep
    <2>4. CASE \E c \in Clients, id \in JobIds : Cancel(c, id)
      BY <2>4, CancelStep
    <2>5. CASE \E c \in Clients : SubmitNotify(c)
      BY <2>5, SubmitNotifyStep
    <2>6. CASE \E c \in Clients : Poll(c)
      BY <2>6, PollStep
    <2>7. CASE WorkerRefused \/ WorkerSleep \/ WorkerSpuriousWake \/ WorkerExit
      BY <2>7, WorkerIdleSteps
    <2>8. CASE WorkerTake
      BY <2>8, WorkerTakeStep
    <2>9. CASE WorkerComplete
      BY <2>9, WorkerCompleteStep
    <2>10. CASE UNCHANGED vars
      BY <2>10, SerialStutter
    <2> QED
      BY <2>1, <2>2, <2>3, <2>4, <2>5, <2>6, <2>7, <2>8, <2>9, <2>10
      DEF Next, OwnerStep, WorkerStep
  <1> QED
    BY <1>1, SerialInit, PTL DEF FairSpec

-----------------------------------------------------------------------------
(* Two queues end to end.                                                  *)
LEMMA JoinNumbers ==
  ASSUME NEW s \in Seq(Nat), NEW t \in Seq(Nat),
         Increasing(s), Increasing(t), Below(Numbers(s), Numbers(t))
  PROVE  /\ s \o t \in Seq(Nat)
         /\ Len(s \o t) = Len(s) + Len(t)
         /\ \A i \in 1 .. Len(s) : (s \o t)[i] = s[i]
         /\ \A i \in (Len(s) + 1) .. Len(s \o t) : (s \o t)[i] \in Numbers(t)
         /\ Numbers(s \o t) = Numbers(s) \cup Numbers(t)
         /\ Increasing(s \o t)
  <1> DEFINE r == s \o t
  <1>1. /\ r \in Seq(Nat) /\ Len(s) \in Nat /\ Len(t) \in Nat /\ Len(r) = Len(s) + Len(t)
        /\ \A i \in 1 .. Len(s) : r[i] = s[i]
        /\ \A i \in 1 .. Len(r) : i > Len(s) => r[i] = t[i - Len(s)] /\ i - Len(s) \in 1 .. Len(t)
        /\ \A i \in 1 .. Len(t) : r[Len(s) + i] = t[i]
    OBVIOUS
  <1> HIDE DEF r
  <1>0. (\A i \in 1 .. Len(s) : s[i] \in Numbers(s)) /\ \A i \in 1 .. Len(t) : t[i] \in Numbers(t)
    BY DEF Numbers
  <1>2. \A i \in (Len(s) + 1) .. Len(r) : r[i] \in Numbers(t)
    <2> TAKE i \in (Len(s) + 1) .. Len(r)
    <2>1. i \in 1 .. Len(r) /\ i > Len(s)
      BY <1>1
    <2> QED
      BY <1>0, <1>1, <2>1
  <1>3. Numbers(r) = Numbers(s) \cup Numbers(t)
    <2>1. ASSUME NEW i \in 1 .. Len(r) PROVE r[i] \in Numbers(s) \cup Numbers(t)
      <3>1. CASE i \in 1 .. Len(s)
        BY <3>1, <1>0, <1>1
      <3>2. CASE i \in (Len(s) + 1) .. Len(r)
        BY <3>2, <1>2
      <3> QED
        BY <3>1, <3>2, <1>1
    <2>2. ASSUME NEW i \in 1 .. Len(s) PROVE s[i] \in Numbers(r)
      BY <1>1 DEF Numbers
    <2>3. ASSUME NEW i \in 1 .. Len(t) PROVE t[i] \in Numbers(r)
      <3>1. Len(s) + i \in 1 .. Len(r) /\ r[Len(s) + i] = t[i]
        BY <1>1
      <3> QED
        BY <3>1 DEF Numbers
    <2> QED
      BY <2>1, <2>2, <2>3 DEF Numbers
  <1>4. Increasing(r)
    <2> SUFFICES ASSUME NEW i \in 1 .. Len(r), NEW k \in 1 .. Len(r), i < k PROVE r[i] < r[k]
      BY DEF Increasing
    <2>1. CASE k <= Len(s)
      <3>1. i \in 1 .. Len(s) /\ k \in 1 .. Len(s)
        BY <2>1, <1>1
      <3> QED
        BY <3>1, <1>1 DEF Increasing
    <2>2. CASE i <= Len(s) /\ k > Len(s)
      <3>0. i \in 1 .. Len(s) /\ k \in (Len(s) + 1) .. Len(r)
        BY <2>2, <1>1
      <3>1. r[i] \in Numbers(s)
        BY <3>0, <1>0, <1>1
      <3>2. r[k] \in Numbers(t)
        BY <3>0, <1>2
      <3> QED
        BY <3>1, <3>2 DEF Below
    <2>3. CASE i > Len(s) /\ k > Len(s)
      <3>1. i - Len(s) \in 1 .. Len(t) /\ k - Len(s) \in 1 .. Len(t) /\ i - Len(s) < k - Len(s)
        BY <2>3, <1>1
      <3>2. r[i] = t[i - Len(s)] /\ r[k] = t[k - Len(s)]
        BY <2>3, <1>1
      <3> QED
        BY <3>1, <3>2 DEF Increasing
    <2> QED
      BY <2>1, <2>2, <2>3, <1>1
  <1> QED
    BY <1>1, <1>2, <1>3, <1>4 DEF r

(* The places in order are the line in order.                              *)
LEMMA KeptByInvariant == SerialInv => JobsAreKept
  <1> SUFFICES ASSUME SerialInv PROVE JobsAreKept
    OBVIOUS
  <1> USE DEF SerialInv, TypeOK
  <1> DEFINE waiting == [i \in 1 .. Len(pending) |-> pending[i][2]]
             A == polled \o completed
             B == A \o InFlight
  <1>1. /\ waiting \in Seq(Nat) /\ Numbers(waiting) = TicketsOf(pending) /\ Increasing(waiting)
    <2>1. Len(pending) \in Nat /\ \A i \in 1 .. Len(pending) : pending[i][2] \in Nat
      BY DEF Entries
    <2>2. waiting \in Seq(Nat) /\ Len(waiting) = Len(pending)
      BY <2>1
    <2>3. Numbers(waiting) = TicketsOf(pending)
      BY <2>2 DEF Numbers, TicketsOf
    <2>4. Increasing(waiting)
      BY <2>2 DEF Increasing, IncreasingEntries, OrderInv
    <2> QED
      BY <2>2, <2>3, <2>4
  <1>2. InFlight \in Seq(Nat) /\ Numbers(InFlight) = Working /\ Increasing(InFlight)
    <2>1. CASE workerPc = "working"
      <3>1. InFlight = <<entry[2]>> /\ entry[2] \in Nat /\ Working = {entry[2]}
        BY <2>1 DEF InFlight, Working, Entries
      <3>2. InFlight \in Seq(Nat) /\ Len(InFlight) = 1 /\ InFlight[1] = entry[2]
        BY <3>1
      <3>3. Numbers(InFlight) = {entry[2]} /\ Increasing(InFlight)
        BY <3>2 DEF Numbers, Increasing
      <3> QED
        BY <3>1, <3>2, <3>3
    <2>2. CASE workerPc # "working"
      BY <2>2, EmptyQueues DEF InFlight, Working
    <2> QED
      BY <2>1, <2>2
  <1>3. Line = B \o waiting
    BY DEF Line
  <1> HIDE DEF waiting
  <1>4. /\ A \in Seq(Nat) /\ Len(A) = Len(polled) + Len(completed)
        /\ \A i \in (Len(polled) + 1) .. Len(A) : A[i] \in Completed
        /\ Numbers(A) = Polled \cup Completed /\ Increasing(A)
    BY JoinNumbers DEF OrderInv, Polled, Completed
  <1> HIDE DEF A
  <1>5. Below(Numbers(A), Working) /\ Below(Numbers(A), TicketsOf(pending))
    BY <1>4 DEF OrderInv, Below
  <1>6. /\ B \in Seq(Nat) /\ Len(B) = Len(A) + Len(InFlight)
        /\ \A i \in 1 .. Len(A) : B[i] = A[i]
        /\ \A i \in (Len(A) + 1) .. Len(B) : B[i] \in Working
        /\ Numbers(B) = Polled \cup Completed \cup Working /\ Increasing(B)
    BY <1>2, <1>4, <1>5, JoinNumbers
  <1> HIDE DEF B
  <1>7. Below(Numbers(B), Numbers(waiting))
    BY <1>1, <1>6 DEF OrderInv, Below
  <1>8. /\ Line \in Seq(Nat) /\ Len(Line) = Len(B) + Len(waiting)
        /\ \A i \in 1 .. Len(B) : Line[i] = B[i]
        /\ \A i \in (Len(B) + 1) .. Len(Line) : Line[i] \in TicketsOf(pending)
        /\ Numbers(Line) = Polled \cup Completed \cup Working \cup TicketsOf(pending)
        /\ Increasing(Line)
    <2> DEFINE L == B \o waiting
    <2>1. /\ L \in Seq(Nat) /\ Len(L) = Len(B) + Len(waiting)
          /\ \A i \in 1 .. Len(B) : L[i] = B[i]
          /\ \A i \in (Len(B) + 1) .. Len(L) : L[i] \in Numbers(waiting)
          /\ Numbers(L) = Numbers(B) \cup Numbers(waiting)
          /\ Increasing(L)
      BY <1>1, <1>6, <1>7, JoinNumbers
    <2> HIDE DEF L
    <2>2. Line = L
      BY <1>3 DEF L
    <2> QED
      BY <1>1, <1>6, <2>1, <2>2
  <1>9. ResultsInOrder
    BY <1>8 DEF ResultsInOrder, Increasing
  <1>10. EveryJobAccountedFor
    BY <1>8 DEF EveryJobAccountedFor, AccountInv, Numbers
  <1>11. FlushForgets
    <2> SUFFICES ASSUME NEW i \in (Len(polled) + 1) .. Len(Line) PROVE Line[i] > watermark
      BY DEF FlushForgets
    <2>0. Len(polled) \in Nat /\ Len(A) \in Nat /\ Len(B) \in Nat /\ Len(Line) \in Nat
      BY <1>4, <1>6, <1>8
    <2>1. CASE i <= Len(A)
      BY <2>0, <2>1, <1>4, <1>6, <1>8 DEF RecentInv
    <2>2. CASE i > Len(A) /\ i <= Len(B)
      BY <2>0, <2>2, <1>4, <1>6, <1>8 DEF RecentInv
    <2>3. CASE i > Len(B)
      BY <2>0, <2>3, <1>8 DEF RecentInv
    <2> QED
      BY <2>0, <2>1, <2>2, <2>3
  <1> QED
    BY <1>9, <1>10, <1>11 DEF JobsAreKept

(* No job of the queue (Submit, Poll, Cancel, Stop, Flush and the worker's *)
(* thread, in any interleaving) is lost, doubled, reordered or kept past a *)
(* Flush, for every set of clients and ids and any number of submissions.  *)
THEOREM SerialJobsAreKept == FairSpec => []JobsAreKept
  BY SerialInvariant, KeptByInvariant, PTL

(* The worker works only on an entry that was submitted, a client other    *)
(* than the owner is only ever inside Submit, and the queues hold what     *)
(* they should.                                                            *)
THEOREM SerialTypeCorrect == FairSpec => [](TypeOK /\ OwnerInv)
  <1>1. SerialInv => TypeOK /\ OwnerInv
    BY DEF SerialInv
  <1> QED
    BY <1>1, SerialInvariant, PTL
=============================================================================
