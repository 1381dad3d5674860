------------------------------ MODULE LogSystem ------------------------------
(***************************************************************************)
(* CLogSystem and CLog (private/logging/log_system.cpp): channels that any *)
(* thread writes to, and listeners that are called with no lock held, when *)
(* DispatchListeners hands them what was queued.  One mutex guards all of  *)
(* it; only m_initialized is read outside it.  A listener, like any other  *)
(* code of its thread, may write, register and unregister.                 *)
(*                                                                         *)
(* A message is its number: messages are stamped under the mutex, so the   *)
(* number is also the order of the stamps.  A thread's calls are a stack   *)
(* of frames, the innermost last.                                          *)
(***************************************************************************)
EXTENDS Naturals, Sequences, FiniteSets, SequencesExt, SequenceFilters

CONSTANTS Threads,
          Main,        \* the thread of Tge::Update
          Channels,
          Listeners,   \* global listeners, by key
          OwnListeners,\* listeners of one channel, by key
          Levels,
          Configs,     \* what logging.cfg may say, after parsing
          MaxMessages, \* bound: messages written
          MaxHistory,  \* the code's MaxMessages: length of a channel's history
          MaxChanges,  \* bound: calls of Initialize and of SetLogLevel
          MaxNesting   \* bound: callbacks on a stack that may still call in

ASSUME LogAssumption ==
  /\ Main \in Threads
  /\ Listeners \cap OwnListeners = {}
  /\ MaxMessages \in Nat /\ MaxHistory \in Nat /\ MaxChanges \in Nat /\ MaxNesting \in Nat
  /\ \A config \in Configs : config \in Seq((Channels \cup {"default"}) \X SUBSET Levels)

VARIABLES isInitialized,  \* m_initialized
          loggers,        \* GetLoggers(): the channels it holds
          levelMask,      \* CLog::m_levelMask
          numChanges,     \* calls of Initialize and of SetLogLevel
          listeners,      \* GetListeners(), in order
          ownListeners,   \* CLog::m_listeners, in order
          pending,        \* CLog::m_pendingDispatch
          history,        \* CLog::m_history
          numMessages,    \* messages queued so far
          stack,          \* each thread's calls into the log system
          received,       \* how often a listener was called with a message
          registration    \* what each key asked for: a history variable

settings == <<isInitialized, loggers, levelMask, numChanges>>
queues == <<pending, history, numMessages>>
registry == <<listeners, ownListeners, registration>>
vars == <<settings, queues, registry, stack, received>>

Messages == 1 .. MaxMessages
AllListeners == Listeners \cup OwnListeners
NeverRegistered == [used |-> FALSE, skipsUpTo |-> 0, missed |-> {}]

(* Channels are global objects: they register before main.                 *)
Init ==
  /\ isInitialized = FALSE
  /\ loggers = Channels
  /\ levelMask = [c \in Channels |-> Levels]
  /\ numChanges = 0
  /\ listeners = <<>>
  /\ ownListeners = [c \in Channels |-> <<>>]
  /\ pending = [c \in Channels |-> <<>>]
  /\ history = [c \in Channels |-> <<>>]
  /\ numMessages = 0
  /\ stack = [t \in Threads |-> <<>>]
  /\ received = [l \in AllListeners |-> [m \in Messages |-> 0]]
  /\ registration = [l \in AllListeners |-> NeverRegistered]

-----------------------------------------------------------------------------
Top(t) == Last(stack[t])
IsAt(t, where) == stack[t] # <<>> /\ Top(t).at = where
IsCallback(frame) == frame.at = "callback"

(* A thread calls in from its own code, or from a listener's callback.     *)
CanCall(t) ==
  \/ stack[t] = <<>>
  \/ IsAt(t, "callback") /\ Len(SelectSeq(stack[t], IsCallback)) <= MaxNesting

Push(t, frames) == stack' = [stack EXCEPT ![t] = @ \o frames]
Pop(t) == stack' = [stack EXCEPT ![t] = Front(@)]
Replace(t, frames) == stack' = [stack EXCEPT ![t] = Front(@) \o frames]

(* LoadConfig: the last default for every channel, then the overrides in   *)
(* the order of the file, wherever the default stands.                     *)
Configured(config) ==
  LET SettingsOf(key) == SelectSeq(config, LAMBDA line : line[1] = key)
      LastOf(key, otherwise) == IF SettingsOf(key) = <<>> THEN otherwise ELSE Last(SettingsOf(key))[2]
  IN [c \in Channels |-> IF c \in loggers THEN LastOf(c, LastOf("default", levelMask[c]))
                                          ELSE levelMask[c]]

(* Initialize may run again, with or without a Terminate in between.       *)
Initialize(config) ==
  /\ stack[Main] = <<>>
  /\ numChanges < MaxChanges
  /\ numChanges' = numChanges + 1
  /\ levelMask' = Configured(config)
  /\ isInitialized' = TRUE
  /\ UNCHANGED <<loggers, queues, registry, stack, received>>

(* Terminate also forgets the channels.                                    *)
Terminate ==
  /\ stack[Main] = <<>>
  /\ isInitialized
  /\ isInitialized' = FALSE
  /\ loggers' = {}
  /\ UNCHANGED <<levelMask, numChanges, queues, registry, stack, received>>

SetLogLevel(t, c, levels) ==
  /\ CanCall(t)
  /\ c \in loggers
  /\ numChanges < MaxChanges
  /\ numChanges' = numChanges + 1
  /\ levelMask' = [levelMask EXCEPT ![c] = levels]
  /\ UNCHANGED <<isInitialized, loggers, queues, registry, stack, received>>

-----------------------------------------------------------------------------
(* Write: m_initialized is read without the mutex.  Before Initialize the  *)
(* message goes to the terminal and nothing changes.                       *)
WriteBegin(t, c) ==
  /\ CanCall(t)
  /\ isInitialized
  /\ numMessages < MaxMessages
  /\ Push(t, <<[at |-> "write", channel |-> c]>>)
  /\ UNCHANGED <<settings, queues, registry, received>>

IsQueued(t, level) == level \in levelMask[Top(t).channel] /\ numMessages < MaxMessages

(* Keeps a message in the history from the moment it is written.           *)
WriteKeepsHistory(t, level) ==
  /\ IsAt(t, "write")
  /\ IF IsQueued(t, level)
     THEN /\ numMessages' = numMessages + 1
          /\ pending' = [pending EXCEPT ![Top(t).channel] = Append(@, numMessages')]
          /\ history' = [history EXCEPT ![Top(t).channel] = Append(@, numMessages')]
     ELSE UNCHANGED queues
  /\ Pop(t)
  /\ UNCHANGED <<settings, registry, received>>

(* Under the mutex: filtered out, or queued for the listeners.  A message  *)
(* whose targets, less the disabled ones, leave the listeners out changes  *)
(* nothing here: it is as if it were not written.                          *)
Write(t, level) ==
  /\ IsAt(t, "write")
  /\ IF IsQueued(t, level)
     THEN /\ numMessages' = numMessages + 1
          /\ pending' = [pending EXCEPT ![Top(t).channel] = Append(@, numMessages')]
     ELSE UNCHANGED <<pending, numMessages>>
  /\ Pop(t)
  /\ UNCHANGED <<settings, history, registry, received>>

-----------------------------------------------------------------------------
(* DispatchListeners copies the set of channels under the mutex and serves *)
(* them one after the other, in the order of a hash map.                   *)
Dispatching == [at |-> "dispatch", todo |-> loggers, upTo |-> numMessages]

DispatchListeners ==
  /\ CanCall(Main)
  /\ Push(Main, <<Dispatching>>)
  /\ UNCHANGED <<settings, queues, registry, received>>

Recent(messages) ==
  SubSeq(messages, IF Len(messages) > MaxHistory THEN Len(messages) - MaxHistory + 1 ELSE 1, Len(messages))

(* The loops over messages and over listeners: done listeners have been    *)
(* called with the first of the messages.                                  *)
Delivering(messages, called) ==
  [at |-> "deliver", messages |-> messages, called |-> called, done |-> 0]

IsDelivered(frame) == frame.messages = <<>> \/ frame.called = <<>>

(* The frame once one more listener is called.                             *)
Advanced(frame) ==
  IF frame.done + 1 < Len(frame.called)
  THEN [frame EXCEPT !.done = @ + 1]
  ELSE [frame EXCEPT !.done = 0, !.messages = Tail(@)]

(* DispatchPending: under the mutex the queue is taken, appended to the    *)
(* history, whose oldest go, and the listeners are copied, the channel's   *)
(* own and then the global.                                                *)
DispatchPending(t, c) ==
  /\ IsAt(t, "dispatch")
  /\ c \in Top(t).todo
  /\ history' = [history EXCEPT ![c] = Recent(@ \o pending[c])]
  /\ pending' = [pending EXCEPT ![c] = <<>>]
  /\ Replace(t, <<[Top(t) EXCEPT !.todo = @ \ {c}],
                  Delivering(pending[c], ownListeners[c] \o listeners)>>)
  /\ UNCHANGED <<settings, numMessages, registry, received>>

DispatchReturns(t) ==
  /\ IsAt(t, "dispatch")
  /\ Top(t).todo = {}
  /\ Pop(t)
  /\ UNCHANGED <<settings, queues, registry, received>>

(* With no lock held, the callbacks one after the other.                   *)
Deliver(t) ==
  /\ IsAt(t, "deliver")
  /\ ~IsDelivered(Top(t))
  /\ received' = [received EXCEPT ![Top(t).called[Top(t).done + 1]][Head(Top(t).messages)] = @ + 1]
  /\ Replace(t, <<Advanced(Top(t)), [at |-> "callback"]>>)
  /\ UNCHANGED <<settings, queues, registry>>

CallbackReturns(t) ==
  /\ IsAt(t, "callback")
  /\ Pop(t)
  /\ UNCHANGED <<settings, queues, registry, received>>

Delivered(t) ==
  /\ IsAt(t, "deliver")
  /\ IsDelivered(Top(t))
  /\ Pop(t)
  /\ UNCHANGED <<settings, queues, registry, received>>

-----------------------------------------------------------------------------
(* RegisterListener dispatches what is queued, then takes the mutex.  A    *)
(* key is one object's registration: here it is used once.                 *)
RegisterListener(t, l, flush) ==
  /\ CanCall(t)
  /\ ~registration[l].used
  /\ registration' = [registration EXCEPT ![l].used = TRUE]
  /\ Push(t, <<[at |-> "register", listener |-> l, flush |-> flush, since |-> numMessages], Dispatching>>)
  /\ UNCHANGED <<settings, queues, listeners, ownListeners, received>>

Pending == UNION {ToSet(pending[c]) : c \in Channels}
Written == 1 .. numMessages

(* The sequence of the messages in S by their stamps.                      *)
SortedByStamp(S) ==
  {messages \in UNION {[1 .. n -> S] : n \in 0 .. MaxMessages} :
     /\ ToSet(messages) = S
     /\ \A i, j \in DOMAIN messages : i < j => messages[i] < messages[j]}

(* Under the mutex the histories of all channels are merged by their       *)
(* stamps and the listener enters the list; the replay runs unlocked.      *)
RegisterLocked(t) ==
  /\ IsAt(t, "register")
  /\ LET l == Top(t).listener
         flushed == IF Top(t).flush THEN UNION {ToSet(history[c]) : c \in loggers} ELSE {}
     IN /\ listeners' = Append(listeners, l)
        /\ registration' = [registration EXCEPT
             ![l].skipsUpTo = IF Top(t).flush \/ loggers # Channels THEN 0 ELSE Top(t).since,
             ![l].missed = Written \ (Pending \cup flushed)]
        /\ \E messages \in SortedByStamp(flushed) : Replace(t, <<Delivering(messages, <<l>>)>>)
  /\ UNCHANGED <<settings, queues, ownListeners, received>>

UnregisterListener(t, l) ==
  /\ CanCall(t)
  /\ l \in ToSet(listeners)
  /\ listeners' = Keep(listeners, Listeners \ {l})
  /\ UNCHANGED <<settings, queues, ownListeners, registration, stack, received>>

(* The same for one channel: no dispatch and no replay.                    *)
RegisterOwnListener(t, c, l) ==
  /\ CanCall(t)
  /\ ~registration[l].used
  /\ ownListeners' = [ownListeners EXCEPT ![c] = Append(@, l)]
  /\ registration' = [registration EXCEPT ![l] = [used |-> TRUE, skipsUpTo |-> 0, missed |-> Written \ Pending]]
  /\ UNCHANGED <<settings, queues, listeners, stack, received>>

UnregisterOwnListener(t, c, l) ==
  /\ CanCall(t)
  /\ l \in ToSet(ownListeners[c])
  /\ ownListeners' = [ownListeners EXCEPT ![c] = Keep(@, OwnListeners \ {l})]
  /\ UNCHANGED <<settings, queues, listeners, registration, stack, received>>

-----------------------------------------------------------------------------
Call(t) ==
  \/ \E c \in Channels : WriteBegin(t, c)
  \/ \E c \in Channels, levels \in SUBSET Levels : SetLogLevel(t, c, levels)
  \/ \E l \in Listeners, flush \in BOOLEAN : RegisterListener(t, l, flush)
  \/ \E l \in Listeners : UnregisterListener(t, l)
  \/ \E c \in Channels, l \in OwnListeners : RegisterOwnListener(t, c, l)
  \/ \E c \in Channels, l \in OwnListeners : UnregisterOwnListener(t, c, l)

Continue(t) ==
  \/ \E level \in Levels : Write(t, level)
  \/ \E c \in Channels : DispatchPending(t, c)
  \/ DispatchReturns(t)
  \/ Deliver(t)
  \/ CallbackReturns(t)
  \/ Delivered(t)
  \/ RegisterLocked(t)

Next ==
  \/ \E config \in Configs : Initialize(config)
  \/ Terminate
  \/ DispatchListeners
  \/ \E t \in Threads : Call(t) \/ Continue(t)

Spec == Init /\ [][Next]_vars

-----------------------------------------------------------------------------
(* A frame has still to call its j-th listener, l, with its k-th message,  *)
(* m: the places <<k, j>> of these calls in the frame, and with the thread *)
(* and the depth of the frame those of all frames.                         *)
Owes(frame, k, j, l, m) ==
  /\ frame.messages[k] = m
  /\ frame.called[j] = l
  /\ k = 1 => j > frame.done

Owed(frame, l, m) ==
  IF frame.at # "deliver" THEN {}
  ELSE {place \in (DOMAIN frame.messages) \X (DOMAIN frame.called) : Owes(frame, place[1], place[2], l, m)}

Coming(l, m) ==
  UNION {{t} \X UNION {{i} \X Owed(stack[t][i], l, m) : i \in DOMAIN stack[t]} : t \in Threads}

(* How often l has been and will be called with m.                         *)
Called(l, m) == received[l][m] + Cardinality(Coming(l, m))

(* Of the messages no longer queued, those a registered listener must have *)
(* got: all of them for a global one, its channel's for the other, but for *)
(* what was history when it registered and was not replayed to it.         *)
Due(l) ==
  (IF l \in Listeners
   THEN {m \in Written \ Pending : l \in ToSet(listeners)}
   ELSE UNION {ToSet(history[c]) : c \in {c \in Channels : l \in ToSet(ownListeners[c])}})
  \ registration[l].missed

(* log_system.cpp:862: receiving a message in a dispatch and replaying it  *)
(* from the history are mutually exclusive, and one of them happens: no    *)
(* listener gets a message twice, and a registered one has got, or a       *)
(* thread is about to hand it, each one that has left the queues, whatever *)
(* threads write, dispatch, register and unregister around it.             *)
ExactlyOnce ==
  \A l \in AllListeners :
    /\ \A m \in Messages : Called(l, m) <= 1
    /\ \A m \in Due(l) : Called(l, m) = 1

(* test_log_listener.cpp, "Skipping the history means skipping all of it - *)
(* including the tail that happens to be queued": a listener that skips    *)
(* the history is never called with what was written before its            *)
(* RegisterListener began.  (Stated of a registration that finds every     *)
(* channel: on one that Terminate has made the system forget, it           *)
(* dispatches nothing.)                                                    *)
SkipSkipsBacklog ==
  \A l \in Listeners : \A m \in 1 .. registration[l].skipsUpTo :
    Called(l, m) = 0

(* README.md:199: callbacks are dispatched from Update.  When              *)
(* DispatchListeners returns, nothing written before it was called is      *)
(* still queued on a channel the system knows.                             *)
DispatchLeavesNothing ==
  \A t \in Threads : IsAt(t, "dispatch") /\ Top(t).todo = {} =>
    \A c \in loggers : \A i \in DOMAIN pending[c] : pending[c][i] > Top(t).upTo

(* Listeners are served in full: each message once, none they skipped, and *)
(* none left behind by a dispatch.                                         *)
ListenersAreServed == ExactlyOnce /\ SkipSkipsBacklog /\ DispatchLeavesNothing
=============================================================================
