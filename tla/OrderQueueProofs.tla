--------------------------- MODULE OrderQueueProofs ---------------------------
(***************************************************************************)
(* Theorems about OrderQueue.tla, for any set of events, any number of     *)
(* workers and any number of outages.                                      *)
(***************************************************************************)
EXTENDS OrderQueue, FiniteSetTheorems, TLAPS

-----------------------------------------------------------------------------
(* Sequences                                                               *)

\* What a lost connection gives back is at most one message.
LEMMA ReturnsOneMessage ==
    /\ SetToSeq({}) = <<>>
    /\ \A e : SetToSeq({e}) = <<e>>
  <1>1. SetToSeq({}) = <<>>
    <2>1. Cardinality({}) = 0
      BY FS_EmptySet
    <2>2. \A f \in [1..0 -> {}] : f = <<>>
      OBVIOUS
    <2>3. <<>> \in [1..0 -> {}] /\ IsInjective(<<>>)
      BY DEF IsInjective
    <2> QED
      BY <2>1, <2>2, <2>3 DEF SetToSeq
  <1>2. ASSUME NEW e PROVE SetToSeq({e}) = <<e>>
    <2>1. Cardinality({e}) = 1
      BY FS_Singleton
    <2>2. \A f \in [1..1 -> {e}] : f = <<e>>
      OBVIOUS
    <2>3. <<e>> \in [1..1 -> {e}] /\ IsInjective(<<e>>)
      BY DEF IsInjective
    <2> QED
      BY <2>1, <2>2, <2>3 DEF SetToSeq
  <1> QED
    BY <1>1, <1>2

\* The messages of a queue, and that none of them is in it twice.
Elements(s) == {s[i] : i \in DOMAIN s}
NoneTwice(s) == \A i, j \in DOMAIN s : s[i] = s[j] => i = j

LEMMA AppendedElements ==
    ASSUME NEW s \in Seq(Events), NEW e \in Events, NoneTwice(s),
           e \notin Elements(s)
    PROVE  /\ Append(s, e) \in Seq(Events)
           /\ Elements(Append(s, e)) = Elements(s) \cup {e}
           /\ NoneTwice(Append(s, e))
           /\ Len(Append(s, e)) = Len(s) + 1
  <1> DEFINE t == Append(s, e)
  <1>1. /\ t \in Seq(Events) /\ Len(t) = Len(s) + 1 /\ Len(s) \in Nat
        /\ DOMAIN t = 1 .. Len(s) + 1 /\ DOMAIN s = 1 .. Len(s)
        /\ \A i \in DOMAIN s : t[i] = s[i]
        /\ t[Len(s) + 1] = e
    OBVIOUS
  <1> HIDE DEF t
  <1>2. DOMAIN t = DOMAIN s \cup {Len(s) + 1} /\ Len(s) + 1 \notin DOMAIN s
    BY <1>1
  <1>3. Elements(t) = Elements(s) \cup {e}
    BY <1>1, <1>2 DEF Elements
  <1>4. NoneTwice(t)
    BY <1>1, <1>2 DEF Elements, NoneTwice
  <1> QED
    BY <1>1, <1>3, <1>4 DEF t

LEMMA PutBackElements ==
    ASSUME NEW s \in Seq(Events), NEW e \in Events, NoneTwice(s),
           e \notin Elements(s)
    PROVE  /\ <<e>> \o s \in Seq(Events)
           /\ Elements(<<e>> \o s) = Elements(s) \cup {e}
           /\ NoneTwice(<<e>> \o s)
           /\ Len(<<e>> \o s) = Len(s) + 1
  <1> DEFINE t == <<e>> \o s
  <1>1. /\ t \in Seq(Events) /\ Len(t) = Len(s) + 1 /\ Len(s) \in Nat
        /\ DOMAIN t = 1 .. Len(s) + 1 /\ DOMAIN s = 1 .. Len(s)
        /\ \A i \in DOMAIN s : t[i + 1] = s[i]
        /\ t[1] = e
    OBVIOUS
  <1> HIDE DEF t
  <1>2. \A i \in DOMAIN t : i = 1 \/ (i - 1 \in DOMAIN s /\ t[i] = s[i - 1])
    BY <1>1
  <1>3. Elements(t) = Elements(s) \cup {e}
    <2>1. Elements(t) \subseteq Elements(s) \cup {e}
      BY <1>1, <1>2 DEF Elements
    <2>2. \A i \in DOMAIN s : s[i] \in Elements(t)
      BY <1>1 DEF Elements
    <2>3. e \in Elements(t)
      BY <1>1 DEF Elements
    <2> QED
      BY <2>1, <2>2, <2>3 DEF Elements
  <1>4. NoneTwice(t)
    BY <1>1, <1>2 DEF Elements, NoneTwice
  <1> QED
    BY <1>1, <1>3, <1>4 DEF t

LEMMA HeadTaken ==
    ASSUME NEW s \in Seq(Events), NoneTwice(s), s # <<>>
    PROVE  /\ Head(s) \in Elements(s) /\ Head(s) \in Events
           /\ Tail(s) \in Seq(Events)
           /\ Elements(Tail(s)) = Elements(s) \ {Head(s)}
           /\ NoneTwice(Tail(s))
           /\ Len(Tail(s)) = Len(s) - 1
  <1> DEFINE t == Tail(s)
             h == Head(s)
  <1>1. /\ t \in Seq(Events) /\ Len(s) \in Nat \ {0}
        /\ Len(t) = Len(s) - 1
        /\ DOMAIN t = 1 .. Len(s) - 1 /\ DOMAIN s = 1 .. Len(s)
        /\ \A i \in DOMAIN t : t[i] = s[i + 1]
        /\ h = s[1] /\ h \in Events
    OBVIOUS
  <1> HIDE DEF t, h
  <1>2. \A i \in DOMAIN t : i + 1 \in DOMAIN s \ {1}
    BY <1>1
  <1>3. \A i \in DOMAIN s \ {1} : i - 1 \in DOMAIN t /\ s[i] = t[i - 1]
    BY <1>1
  <1>4. 1 \in DOMAIN s
    BY <1>1
  <1>5. NoneTwice(t)
    BY <1>1, <1>2 DEF NoneTwice
  <1>6. Elements(t) \subseteq Elements(s) \ {h}
    BY <1>1, <1>2, <1>4 DEF Elements, NoneTwice
  <1>7. Elements(s) \ {h} \subseteq Elements(t)
    BY <1>1, <1>3, <1>4 DEF Elements
  <1>8. h \in Elements(s)
    BY <1>1, <1>4 DEF Elements
  <1> QED
    BY <1>1, <1>5, <1>6, <1>7, <1>8 DEF t, h

-----------------------------------------------------------------------------
(* Types                                                                   *)

\* What a worker has to hand back or to settle.
LEMMA SettledOne ==
    \A w : Settled(w) = IF unacked[w] = NoEvent THEN {} ELSE {unacked[w]}
  BY DEF Settled

\* A handler works on a message from its delivery to the end of its block, and
\* what a worker has not acknowledged is what its handler works on.
HandlersHaveMessages ==
    \A w \in Workers :
        /\ message[w] = NoEvent <=> task[w] \in {"waiting", "down"}
        /\ unacked[w] # NoEvent => unacked[w] = message[w]

QueueTyped == QueueTypeOK /\ HandlersHaveMessages

LEMMA QueueTypedInit == QueueInit => QueueTyped
  BY OrderQueueAssumption
     DEF QueueInit, QueueTyped, QueueTypeOK, HandlersHaveMessages, Tasks

\* The queue after a connection was lost.
LEMMA TakenBack ==
    ASSUME QueueTypeOK, NEW w \in Workers, TakeBack(w)
    PROVE  /\ unacked' = [unacked EXCEPT ![w] = NoEvent]
           /\ unacked[w] = NoEvent => ready' = ready
           /\ unacked[w] # NoEvent =>
                /\ unacked[w] \in Events
                /\ ready' = <<unacked[w]>> \o ready
           /\ ready' \in Seq(Events)
           /\ unacked' \in [Workers -> Events \cup {NoEvent}]
  <1>1. unacked[w] \in Events \cup {NoEvent} /\ ready \in Seq(Events)
    BY DEF QueueTypeOK
  <1>2. <<>> \o ready = ready
    BY <1>1
  <1>3. unacked' = [unacked EXCEPT ![w] = NoEvent]
    BY DEF TakeBack
  <1>4. unacked' \in [Workers -> Events \cup {NoEvent}]
    BY <1>3 DEF QueueTypeOK
  <1>5. CASE unacked[w] = NoEvent
    <2>1. ready' = SetToSeq({}) \o ready
      BY <1>5, SettledOne DEF TakeBack
    <2>2. ready' = ready
      BY <2>1, <1>2, ReturnsOneMessage
    <2> QED
      BY <1>1, <1>3, <1>4, <1>5, <2>2
  <1>6. CASE unacked[w] # NoEvent
    <2>1. ready' = SetToSeq({unacked[w]}) \o ready
      BY <1>6, SettledOne DEF TakeBack
    <2>2. ready' = <<unacked[w]>> \o ready
      BY <2>1, ReturnsOneMessage
    <2> QED
      BY <1>1, <1>3, <1>4, <1>6, <2>2
  <1> QED
    BY <1>5, <1>6

\* A rejected message is gone: nothing goes back.
LEMMA NothingRequeued ==
    ASSUME QueueTypeOK, NEW w \in Workers, RejectMessage(w)
    PROVE  ready' = ready /\ dropped' = dropped \cup Settled(w)
  <1>1. ready \in Seq(Events) /\ ToSet(<<>>) = {}
    BY DEF QueueTypeOK, ToSet
  <1>2. <<>> \o ready = ready
    BY <1>1
  <1> QED
    BY <1>1, <1>2 DEF RejectMessage, Requeued

LEMMA QueueTypedStep == QueueTyped /\ [QueueNext]_queueVars => QueueTyped'
  <1> SUFFICES ASSUME QueueTyped, [QueueNext]_queueVars PROVE QueueTyped'
    OBVIOUS
  <1> USE OrderQueueAssumption
      DEF QueueTyped, QueueTypeOK, HandlersHaveMessages, Tasks
  <1>1. ASSUME NEW e \in Events, Send(e) PROVE QueueTyped'
    BY <1>1 DEF Send, Enqueued
  <1>2. ASSUME NEW w \in Workers, Deliver(w) PROVE QueueTyped'
    <2>1. Head(ready) \in Events /\ Tail(ready) \in Seq(Events)
      BY <1>2 DEF Deliver
    <2> QED
      BY <1>2, <2>1 DEF Deliver
  <1>3. ASSUME NEW w \in Workers, SendEmail(w) \/ NotifyWarehouse(w)
        PROVE  QueueTyped'
    <2>1. message[w] \in Events
      BY <1>3 DEF SendEmail, NotifyWarehouse
    <2>2. CASE SendEmail(w)
      <3>1. emailed' \in [Events -> Nat]
        BY <2>1, <2>2 DEF SendEmail
      <3> QED
        BY <2>2, <3>1 DEF SendEmail
    <2>3. CASE NotifyWarehouse(w)
      <3>1. notified' \in [Events -> Nat]
        BY <2>1, <2>3 DEF NotifyWarehouse
      <3> QED
        BY <2>3, <3>1 DEF NotifyWarehouse
    <2> QED
      BY <1>3, <2>2, <2>3
  <1>4. ASSUME NEW w \in Workers, Ack(w) PROVE QueueTyped'
    BY <1>4 DEF Ack, Settled
  <1>5. ASSUME NEW w \in Workers, RejectMessage(w) PROVE QueueTyped'
    <2>1. ready' = ready /\ dropped' = dropped \cup Settled(w)
      BY <1>5, NothingRequeued
    <2>2. Settled(w) \subseteq Events
      BY DEF Settled
    <2> QED
      BY <1>5, <2>1, <2>2 DEF RejectMessage
  <1>6. ASSUME NEW w \in Workers, HandlerRaises(w) \/ Restart(w)
        PROVE  QueueTyped'
    BY <1>6 DEF HandlerRaises, Restart
  <1>7. ASSUME NEW w \in Workers, CountOutage, TakeBack(w),
               UNCHANGED <<sent, emailed, notified, acked, dropped>>
        PROVE  /\ ready' \in Seq(Events)
               /\ unacked' = [unacked EXCEPT ![w] = NoEvent]
               /\ unacked' \in [Workers -> Events \cup {NoEvent}]
               /\ outages' \in 0 .. MaxOutages
    <2>1. outages' \in 0 .. MaxOutages
      BY <1>7 DEF CountOutage
    <2> QED
      BY <1>7, <2>1, TakenBack
  <1>8. ASSUME NEW w \in Workers, Crash(w) \/ LoseConnection(w)
        PROVE  QueueTyped'
    <2>1. /\ CountOutage /\ TakeBack(w)
          /\ UNCHANGED <<sent, emailed, notified, acked, dropped>>
      BY <1>8 DEF Crash, LoseConnection
    <2>2. /\ ready' \in Seq(Events)
          /\ unacked' = [unacked EXCEPT ![w] = NoEvent]
          /\ unacked' \in [Workers -> Events \cup {NoEvent}]
          /\ outages' \in 0 .. MaxOutages
      BY <1>7, <2>1
    <2>3. \/ UNCHANGED <<task, message>>
          \/ /\ message' = [message EXCEPT ![w] = NoEvent]
             /\ task' = [task EXCEPT ![w] = "down"]
      BY <1>8 DEF Crash, LoseConnection
    <2> QED
      BY <2>1, <2>2, <2>3
  <1>9. CASE UNCHANGED queueVars
    BY <1>9 DEF queueVars
  <1> QED
    BY <1>1, <1>2, <1>3, <1>4, <1>5, <1>6, <1>8, <1>9
       DEF QueueNext, WorkerStep

-----------------------------------------------------------------------------
(* Places                                                                  *)

Queued == Elements(ready)
Held == {unacked[w] : w \in Workers} \ {NoEvent}

\* Every message that was confirmed is in one place and there only once.
Places ==
    /\ NoneTwice(ready)
    /\ \A v, w \in Workers :
          unacked[v] = unacked[w] /\ unacked[w] # NoEvent => v = w
    /\ sent = Queued \cup Held \cup acked \cup dropped
    /\ Queued \cap (Held \cup acked \cup dropped) = {}
    /\ Held \cap (acked \cup dropped) = {}
    /\ acked \cap dropped = {}

LEMMA PlacesInit == QueueInit => Places
  BY DEF QueueInit, Places, Queued, Held, Elements, NoneTwice

\* A worker that has nothing from the broker any more.
LEMMA HandsFree ==
    ASSUME QueueTyped, Places, NEW w \in Workers,
           unacked' = [unacked EXCEPT ![w] = NoEvent]
    PROVE  /\ Held' = Held \ Settled(w)
           /\ Settled(w) \subseteq Held
           /\ \A u, v \in Workers :
                 unacked'[u] = unacked'[v] /\ unacked'[v] # NoEvent => u = v
  <1> USE DEF QueueTyped, QueueTypeOK, Places
  <1>1. Settled(w) \subseteq Held
    BY DEF Settled, Held
  <1>2. Held' \subseteq Held \ Settled(w)
    BY DEF Settled, Held
  <1>3. Held \ Settled(w) \subseteq Held'
    BY DEF Settled, Held
  <1> QED
    BY <1>1, <1>2, <1>3

LEMMA PlacesStep ==
    QueueTyped /\ Places /\ [QueueNext]_queueVars => Places'
  <1> SUFFICES ASSUME QueueTyped, Places, [QueueNext]_queueVars PROVE Places'
    OBVIOUS
  <1>0. ready \in Seq(Events) /\ NoneTwice(ready)
    BY DEF QueueTyped, QueueTypeOK, Places
  <1>1. ASSUME NEW e \in Events, Send(e) PROVE Places'
    <2>1. e \notin Elements(ready)
      BY <1>1 DEF Send, Places, Queued
    <2>2. Queued' = Queued \cup {e} /\ NoneTwice(ready')
      BY <1>0, <1>1, <2>1, AppendedElements DEF Send, Enqueued, Queued
    <2> QED
      BY <1>1, <2>2 DEF Send, Places, Held
  <1>2. ASSUME NEW w \in Workers, Deliver(w) PROVE Places'
    <2> DEFINE e == Head(ready)
    <2>1. /\ e \in Queued /\ e \in Events
          /\ Queued' = Queued \ {e} /\ NoneTwice(ready')
      BY <1>0, <1>2, HeadTaken DEF Deliver, Queued
    <2>2. unacked' = [unacked EXCEPT ![w] = e] /\ unacked[w] = NoEvent
      BY <1>2 DEF Deliver
    <2> HIDE DEF e
    <2>3. e # NoEvent /\ unacked'[w] = e
          /\ \A v \in Workers \ {w} : unacked'[v] = unacked[v]
      BY <2>1, <2>2, OrderQueueAssumption DEF QueueTyped, QueueTypeOK
    <2>4. Held' = Held \cup {e}
      BY <2>2, <2>3 DEF Held
    <2>5. \A v \in Workers : unacked[v] # e
      BY <2>1, <2>3 DEF Places, Held
    <2>6. \A u, v \in Workers :
             unacked'[u] = unacked'[v] /\ unacked'[v] # NoEvent => u = v
      BY <2>3, <2>5 DEF Places
    <2>7. UNCHANGED <<sent, acked, dropped>>
      BY <1>2 DEF Deliver
    <2> QED
      BY <2>1, <2>4, <2>6, <2>7 DEF Places
  <1>3. ASSUME NEW w \in Workers, Ack(w) PROVE Places'
    <2>1. /\ Held' = Held \ Settled(w) /\ Settled(w) \subseteq Held
          /\ \A u, v \in Workers :
                unacked'[u] = unacked'[v] /\ unacked'[v] # NoEvent => u = v
      BY <1>3, HandsFree DEF Ack
    <2>2. UNCHANGED <<ready, sent, dropped>> /\ acked' = acked \cup Settled(w)
      BY <1>3 DEF Ack
    <2> QED
      BY <2>1, <2>2 DEF Places, Queued
  <1>4. ASSUME NEW w \in Workers, RejectMessage(w) PROVE Places'
    <2>1. /\ Held' = Held \ Settled(w) /\ Settled(w) \subseteq Held
          /\ \A u, v \in Workers :
                unacked'[u] = unacked'[v] /\ unacked'[v] # NoEvent => u = v
      BY <1>4, HandsFree DEF RejectMessage
    <2>2. UNCHANGED <<ready, sent, acked>> /\ dropped' = dropped \cup Settled(w)
      BY <1>4, NothingRequeued DEF RejectMessage, QueueTyped
    <2> QED
      BY <2>1, <2>2 DEF Places, Queued
  <1>5. ASSUME NEW w \in Workers, TakeBack(w), UNCHANGED <<sent, acked, dropped>>
        PROVE  Places'
    <2>1. /\ Held' = Held \ Settled(w) /\ Settled(w) \subseteq Held
          /\ \A u, v \in Workers :
                unacked'[u] = unacked'[v] /\ unacked'[v] # NoEvent => u = v
      BY <1>5, HandsFree DEF TakeBack
    <2>2. Queued' = Queued \cup Settled(w) /\ NoneTwice(ready')
      <3>1. CASE unacked[w] = NoEvent
        BY <1>0, <1>5, <3>1, TakenBack, SettledOne DEF QueueTyped, Queued
      <3>2. CASE unacked[w] # NoEvent
        <4>1. unacked[w] \in Events /\ ready' = <<unacked[w]>> \o ready
          BY <1>5, <3>2, TakenBack DEF QueueTyped
        <4>2. unacked[w] \notin Elements(ready)
          BY <2>1, <3>2, SettledOne DEF Places, Queued
        <4> QED
          BY <1>0, <3>2, <4>1, <4>2, PutBackElements, SettledOne DEF Queued
      <3> QED
        BY <3>1, <3>2
    <2> QED
      BY <1>5, <2>1, <2>2 DEF Places
  <1>6. CASE UNCHANGED <<sent, ready, unacked, acked, dropped>>
    BY <1>6 DEF Places, Queued, Held
  <1>7. ASSUME NEW w \in Workers,
               \/ SendEmail(w) \/ NotifyWarehouse(w) \/ HandlerRaises(w)
               \/ Restart(w) \/ UNCHANGED queueVars
        PROVE  Places'
    BY <1>6, <1>7 DEF SendEmail, NotifyWarehouse, HandlerRaises, Restart, queueVars
  <1>8. ASSUME NEW w \in Workers, Crash(w) \/ LoseConnection(w) PROVE Places'
    BY <1>5, <1>8 DEF Crash, LoseConnection
  <1>9. CASE UNCHANGED queueVars
    BY <1>6, <1>9 DEF queueVars
  <1> QED
    BY <1>1, <1>2, <1>3, <1>4, <1>7, <1>8, <1>9 DEF QueueNext, WorkerStep

\* How many there are of each message in each of the four places.
LEMMA PlacesAreCounted == QueueTyped /\ Places => OnePlacePerMessage
  <1> SUFFICES ASSUME QueueTyped, Places, NEW e \in Events
      PROVE  Cardinality(Waiting(e)) + Cardinality(Handed(e))
                + Cardinality({e} \cap acked) + Cardinality({e} \cap dropped)
             = Cardinality({e} \cap sent)
    BY DEF OnePlacePerMessage
  <1>1. Cardinality({}) = 0 /\ \A x : Cardinality({x}) = 1
    BY FS_EmptySet, FS_Singleton
  <1>2. Cardinality(Waiting(e)) = IF e \in Queued THEN 1 ELSE 0
    <2>1. CASE e \in Queued
      <3>1. PICK i \in DOMAIN ready : ready[i] = e
        BY <2>1 DEF Queued, Elements
      <3>2. Waiting(e) = {i}
        BY <3>1 DEF Waiting, Places, NoneTwice
      <3> QED
        BY <1>1, <2>1, <3>2
    <2>2. CASE e \notin Queued
      <3>1. Waiting(e) = {}
        BY <2>2 DEF Waiting, Queued, Elements
      <3> QED
        BY <1>1, <2>2, <3>1
    <2> QED
      BY <2>1, <2>2
  <1>3. Cardinality(Handed(e)) = IF e \in Held THEN 1 ELSE 0
    <2>1. e # NoEvent
      BY OrderQueueAssumption
    <2>2. CASE e \in Held
      <3>1. PICK w \in Workers : unacked[w] = e
        BY <2>2 DEF Held
      <3>2. Handed(e) = {w}
        BY <2>1, <3>1 DEF Handed, Places
      <3> QED
        BY <1>1, <2>2, <3>2
    <2>3. CASE e \notin Held
      <3>1. Handed(e) = {}
        BY <2>1, <2>3 DEF Handed, Held
      <3> QED
        BY <1>1, <2>3, <3>1
    <2> QED
      BY <2>2, <2>3
  <1>4. \A S : Cardinality({e} \cap S) = IF e \in S THEN 1 ELSE 0
    <2>1. \A S : {e} \cap S = IF e \in S THEN {e} ELSE {}
      OBVIOUS
    <2> QED
      BY <1>1, <2>1
  <1> QED
    BY <1>2, <1>3, <1>4 DEF Places

-----------------------------------------------------------------------------
(* Work                                                                    *)

\* What a handler has behind it has happened, and so has the work for every
\* message that was acknowledged.
WorkIsDone ==
    /\ \A w \in Workers :
          /\ task[w] \in {"emailed", "done"} => emailed[message[w]] > 0
          /\ task[w] = "done" => notified[message[w]] > 0
    /\ AckedMeansHandled

\* One more e-mail, or notification, for a message.
LEMMA Incremented ==
    ASSUME NEW f \in [Events -> Nat], NEW m \in Events,
           NEW g, g = [f EXCEPT ![m] = @ + 1]
    PROVE  /\ g \in [Events -> Nat]
           /\ g[m] = f[m] + 1 /\ g[m] > 0
           /\ \A e \in Events \ {m} : g[e] = f[e]
           /\ \A e \in Events : f[e] \in Nat /\ g[e] >= f[e]
           /\ \A e \in Events : f[e] > 0 => g[e] > 0
  OBVIOUS

LEMMA WorkInit == QueueInit => WorkIsDone
  BY DEF QueueInit, WorkIsDone, AckedMeansHandled

LEMMA WorkStep ==
    QueueTyped /\ WorkIsDone /\ [QueueNext]_queueVars => WorkIsDone'
  <1> SUFFICES ASSUME QueueTyped, WorkIsDone, [QueueNext]_queueVars
      PROVE  WorkIsDone'
    OBVIOUS
  <1> USE DEF QueueTyped, QueueTypeOK, HandlersHaveMessages, WorkIsDone,
              AckedMeansHandled
  <1>1. CASE UNCHANGED <<task, message, emailed, notified, acked>>
    BY <1>1
  <1>2. ASSUME NEW w \in Workers, Deliver(w) PROVE WorkIsDone'
    BY <1>2 DEF Deliver
  <1>3. ASSUME NEW w \in Workers, SendEmail(w) PROVE WorkIsDone'
    <2>1. message[w] \in Events
      BY <1>3 DEF SendEmail
    <2>2. /\ emailed' = [emailed EXCEPT ![message[w]] = @ + 1]
          /\ task' = [task EXCEPT ![w] = "emailed"] /\ task[w] = "handling"
          /\ UNCHANGED <<message, notified, acked>>
      BY <1>3 DEF SendEmail
    <2>3. /\ emailed'[message[w]] > 0
          /\ \A e \in Events : emailed[e] > 0 => emailed'[e] > 0
      BY <2>1, <2>2, Incremented
    <2>4. task'[w] = "emailed" /\ \A v \in Workers \ {w} : task'[v] = task[v]
      BY <2>2
    <2>5. \A v \in Workers : task[v] \in {"emailed", "done"}
                                  => message[v] \in Events
      OBVIOUS
    <2> HIDE DEF QueueTyped, QueueTypeOK, HandlersHaveMessages
    <2>6. acked \subseteq Events
      BY DEF QueueTyped, QueueTypeOK
    <2> QED
      BY <2>1, <2>2, <2>3, <2>4, <2>5, <2>6
  <1>4. ASSUME NEW w \in Workers, NotifyWarehouse(w) PROVE WorkIsDone'
    <2>1. message[w] \in Events
      BY <1>4 DEF NotifyWarehouse
    <2>2. /\ notified' = [notified EXCEPT ![message[w]] = @ + 1]
          /\ task' = [task EXCEPT ![w] = "done"] /\ task[w] = "emailed"
          /\ UNCHANGED <<message, emailed, acked>>
      BY <1>4 DEF NotifyWarehouse
    <2>3. /\ notified'[message[w]] > 0
          /\ \A e \in Events : notified[e] > 0 => notified'[e] > 0
      BY <2>1, <2>2, Incremented
    <2>4. task'[w] = "done" /\ \A v \in Workers \ {w} : task'[v] = task[v]
      BY <2>2
    <2>5. \A v \in Workers : task[v] \in {"emailed", "done"}
                                  => message[v] \in Events
      OBVIOUS
    <2> HIDE DEF QueueTyped, QueueTypeOK, HandlersHaveMessages
    <2>6. acked \subseteq Events
      BY DEF QueueTyped, QueueTypeOK
    <2> QED
      BY <2>1, <2>2, <2>3, <2>4, <2>5, <2>6
  <1>5. ASSUME NEW w \in Workers, Ack(w) PROVE WorkIsDone'
    <2>1. \A e \in Settled(w) : emailed[e] > 0 /\ notified[e] > 0
      BY <1>5 DEF Ack, MayAck, Settled
    <2> QED
      BY <1>5, <2>1 DEF Ack
  <1>6. ASSUME NEW w \in Workers,
               \/ RejectMessage(w) \/ HandlerRaises(w) \/ Restart(w)
               \/ Crash(w)
        PROVE  WorkIsDone'
    BY <1>6 DEF RejectMessage, HandlerRaises, Restart, Crash
  <1>7. ASSUME NEW w \in Workers, LoseConnection(w) PROVE WorkIsDone'
    BY <1>1, <1>7 DEF LoseConnection
  <1>8. ASSUME NEW e \in Events, Send(e) PROVE WorkIsDone'
    BY <1>1, <1>8 DEF Send
  <1> QED
    BY <1>1, <1>2, <1>3, <1>4, <1>5, <1>6, <1>7, <1>8
       DEF QueueNext, WorkerStep, queueVars

-----------------------------------------------------------------------------
(* Duplicates                                                              *)

\* The handlers that have told the customer of e and not the warehouse yet.
HalfWay(e) == {w \in Workers : task[w] = "emailed" /\ message[w] = e}

NotifiedAfterEmail ==
    \A e \in Events :
        /\ IsFiniteSet(HalfWay(e))
        /\ notified[e] + Cardinality(HalfWay(e)) <= emailed[e]

\* E-mails that were sent, are to be sent by a handler, or are to be sent for
\* a message in the queue.  All but one of them for each event are paid for
\* with an outage.
Mails == UNION {{e} \X (1 .. emailed[e]) : e \in Events}
Handling == {w \in Workers : task[w] = "handling"}
Alive ==
    {e \in Events : \/ emailed[e] > 0
                    \/ e \in Queued
                    \/ \E w \in Handling : message[w] = e}

MailsArePaidFor ==
    /\ IsFiniteSet(Mails) /\ IsFiniteSet(Handling) /\ IsFiniteSet(Alive)
    /\ Cardinality(Mails) + Cardinality(Handling) + Len(ready)
          <= Cardinality(Alive) + outages

DuplicatesInv == NotifiedAfterEmail /\ MailsArePaidFor

LEMMA DuplicatesInit == QueueInit => DuplicatesInv
  <1> SUFFICES ASSUME QueueInit PROVE DuplicatesInv
    OBVIOUS
  <1>1. IsFiniteSet({}) /\ Cardinality({}) = 0
    BY FS_EmptySet
  <1>2. Mails = {} /\ Handling = {} /\ Alive = {}
    BY DEF QueueInit, Mails, Handling, Alive, Queued, Elements
  <1>3. \A e \in Events : HalfWay(e) = {} /\ notified[e] = 0 /\ emailed[e] = 0
    BY DEF QueueInit, HalfWay
  <1>4. Len(ready) = 0 /\ outages = 0
    BY DEF QueueInit
  <1>5. NotifiedAfterEmail
    BY <1>1, <1>3 DEF NotifiedAfterEmail
  <1>6. MailsArePaidFor
    BY <1>1, <1>2, <1>4 DEF MailsArePaidFor
  <1> QED
    BY <1>5, <1>6 DEF DuplicatesInv

LEMMA NotifiedStep ==
    ASSUME QueueTyped, NotifiedAfterEmail, [QueueNext]_queueVars
    PROVE  NotifiedAfterEmail'
  <1> USE DEF QueueTyped, QueueTypeOK, HandlersHaveMessages
  <1>1. ASSUME UNCHANGED <<emailed, notified>>,
               \A e \in Events : HalfWay(e)' \subseteq HalfWay(e)
        PROVE  NotifiedAfterEmail'
    <2> SUFFICES ASSUME NEW e \in Events
        PROVE  /\ IsFiniteSet(HalfWay(e)')
               /\ notified[e] + Cardinality(HalfWay(e)') <= emailed[e]
      BY <1>1 DEF NotifiedAfterEmail
    <2>1. /\ IsFiniteSet(HalfWay(e))
          /\ notified[e] + Cardinality(HalfWay(e)) <= emailed[e]
      BY DEF NotifiedAfterEmail
    <2>2. HalfWay(e)' \in SUBSET HalfWay(e)
      BY <1>1
    <2>3. /\ IsFiniteSet(HalfWay(e)')
          /\ Cardinality(HalfWay(e)') <= Cardinality(HalfWay(e))
      BY <2>1, <2>2, FS_Subset
    <2>4. Cardinality(HalfWay(e)') \in Nat /\ Cardinality(HalfWay(e)) \in Nat
      BY <2>1, <2>3, FS_CardinalityType
    <2>5. notified[e] \in Nat /\ emailed[e] \in Nat
      OBVIOUS
    <2> QED
      BY <2>1, <2>3, <2>4, <2>5
  <1>2. ASSUME NEW w \in Workers, SendEmail(w) PROVE NotifiedAfterEmail'
    <2>1. PICK m \in Events : m = message[w]
      BY <1>2 DEF SendEmail
    <2>2. /\ emailed' = [emailed EXCEPT ![m] = @ + 1]
          /\ task' = [task EXCEPT ![w] = "emailed"] /\ task[w] = "handling"
          /\ UNCHANGED <<message, notified>>
      BY <1>2, <2>1 DEF SendEmail
    <2>3. w \notin HalfWay(m) /\ HalfWay(m)' = HalfWay(m) \cup {w}
      BY <2>1, <2>2 DEF HalfWay
    <2>4. \A e \in Events \ {m} : HalfWay(e)' = HalfWay(e)
      BY <2>1, <2>2 DEF HalfWay
    <2>5. emailed[m] \in Nat /\ notified[m] \in Nat
      BY <2>1
    <2>6. emailed \in [Events -> Nat]
      OBVIOUS
    <2> HIDE DEF QueueTyped, QueueTypeOK, HandlersHaveMessages
    <2>7. emailed'[m] = emailed[m] + 1
          /\ \A e \in Events \ {m} : emailed'[e] = emailed[e]
      BY <2>1, <2>2, <2>6, Incremented
    <2>8. /\ IsFiniteSet(HalfWay(m))
          /\ notified[m] + Cardinality(HalfWay(m)) <= emailed[m]
      BY <2>1 DEF NotifiedAfterEmail
    <2>9. /\ IsFiniteSet(HalfWay(m)')
          /\ Cardinality(HalfWay(m)') = Cardinality(HalfWay(m)) + 1
      BY <2>3, <2>8, FS_AddElement
    <2>10. Cardinality(HalfWay(m)) \in Nat
      BY <2>8, FS_CardinalityType
    <2>11. notified'[m] + Cardinality(HalfWay(m)') <= emailed'[m]
      BY <2>2, <2>5, <2>7, <2>8, <2>9, <2>10
    <2> SUFFICES ASSUME NEW e \in Events
        PROVE  /\ IsFiniteSet(HalfWay(e)')
               /\ notified'[e] + Cardinality(HalfWay(e)') <= emailed'[e]
      BY DEF NotifiedAfterEmail
    <2>12. CASE e = m
      BY <2>9, <2>11, <2>12
    <2>13. CASE e # m
      <3>1. HalfWay(e)' = HalfWay(e)
        BY <2>4, <2>13
      <3>2. notified'[e] = notified[e] /\ emailed'[e] = emailed[e]
        BY <2>2, <2>7, <2>13
      <3> QED
        BY <3>1, <3>2 DEF NotifiedAfterEmail
    <2> QED
      BY <2>12, <2>13
  <1>3. ASSUME NEW w \in Workers, NotifyWarehouse(w) PROVE NotifiedAfterEmail'
    <2>1. PICK m \in Events : m = message[w]
      BY <1>3 DEF NotifyWarehouse
    <2>2. /\ notified' = [notified EXCEPT ![m] = @ + 1]
          /\ task' = [task EXCEPT ![w] = "done"] /\ task[w] = "emailed"
          /\ UNCHANGED <<message, emailed>>
      BY <1>3, <2>1 DEF NotifyWarehouse
    <2>3. w \in HalfWay(m) /\ HalfWay(m)' = HalfWay(m) \ {w}
      BY <2>1, <2>2 DEF HalfWay
    <2>4. \A e \in Events \ {m} : HalfWay(e)' = HalfWay(e)
      BY <2>1, <2>2 DEF HalfWay
    <2>5. emailed[m] \in Nat /\ notified[m] \in Nat
      BY <2>1
    <2>6. notified \in [Events -> Nat]
      OBVIOUS
    <2> HIDE DEF QueueTyped, QueueTypeOK, HandlersHaveMessages
    <2>7. notified'[m] = notified[m] + 1
          /\ \A e \in Events \ {m} : notified'[e] = notified[e]
      BY <2>1, <2>2, <2>6, Incremented
    <2>8. /\ IsFiniteSet(HalfWay(m))
          /\ notified[m] + Cardinality(HalfWay(m)) <= emailed[m]
      BY <2>1 DEF NotifiedAfterEmail
    <2>9. /\ IsFiniteSet(HalfWay(m)')
          /\ Cardinality(HalfWay(m)') = Cardinality(HalfWay(m)) - 1
      BY <2>3, <2>8, FS_RemoveElement
    <2>10. Cardinality(HalfWay(m)) \in Nat
      BY <2>8, FS_CardinalityType
    <2>11. notified'[m] + Cardinality(HalfWay(m)') <= emailed'[m]
      BY <2>2, <2>5, <2>7, <2>8, <2>9, <2>10
    <2> SUFFICES ASSUME NEW e \in Events
        PROVE  /\ IsFiniteSet(HalfWay(e)')
               /\ notified'[e] + Cardinality(HalfWay(e)') <= emailed'[e]
      BY DEF NotifiedAfterEmail
    <2>12. CASE e = m
      BY <2>9, <2>11, <2>12
    <2>13. CASE e # m
      <3>1. HalfWay(e)' = HalfWay(e)
        BY <2>4, <2>13
      <3>2. notified'[e] = notified[e] /\ emailed'[e] = emailed[e]
        BY <2>2, <2>7, <2>13
      <3> QED
        BY <3>1, <3>2 DEF NotifiedAfterEmail
    <2> QED
      BY <2>12, <2>13
  <1>4. ASSUME NEW w \in Workers,
               \/ Deliver(w) \/ Ack(w) \/ RejectMessage(w)
               \/ HandlerRaises(w) \/ Restart(w) \/ Crash(w)
               \/ LoseConnection(w)
        PROVE  NotifiedAfterEmail'
    <2>1. UNCHANGED <<emailed, notified>>
      BY <1>4 DEF Deliver, Ack, RejectMessage, HandlerRaises, Restart, Crash,
                  LoseConnection
    <2>2. \A v \in Workers : task'[v] = "emailed" =>
             task[v] = "emailed" /\ message'[v] = message[v]
      BY <1>4 DEF Deliver, Ack, RejectMessage, HandlerRaises, Restart, Crash,
                  LoseConnection, Tasks
    <2>3. \A e \in Events : HalfWay(e)' \subseteq HalfWay(e)
      BY <2>2 DEF HalfWay
    <2> QED
      BY <1>1, <2>1, <2>3
  <1>5. CASE UNCHANGED queueVars \/ \E e \in Events : Send(e)
    BY <1>1, <1>5 DEF queueVars, Send, HalfWay
  <1> QED
    BY <1>2, <1>3, <1>4, <1>5 DEF QueueNext, WorkerStep

-----------------------------------------------------------------------------
\* Sizes of what is counted, as numbers.
LEMMA MailsAreNumbers ==
    ASSUME QueueTypeOK, MailsArePaidFor
    PROVE  /\ Cardinality(Mails) \in Nat /\ Cardinality(Handling) \in Nat
           /\ Cardinality(Alive) \in Nat /\ Len(ready) \in Nat
           /\ outages \in Nat
  BY FS_CardinalityType, OrderQueueAssumption DEF MailsArePaidFor, QueueTypeOK

\* A step that sends no e-mail: what is handled, queued and alive after it is
\* given, and an outage pays for a message that comes back.
LEMMA NoMailSent ==
    ASSUME QueueTypeOK, MailsArePaidFor, UNCHANGED emailed,
           NEW handled \in {0, -1, 1}, NEW queued \in {0, -1, 1},
           NEW alive \in {0, -1, 1}, NEW paid \in {0, 1},
           IsFiniteSet(Handling'),
           Cardinality(Handling') = Cardinality(Handling) + handled,
           Len(ready') = Len(ready) + queued,
           IsFiniteSet(Alive'),
           Cardinality(Alive') >= Cardinality(Alive) + alive,
           outages' = outages + paid,
           handled + queued <= alive + paid
    PROVE  MailsArePaidFor'
  <1>1. Mails' = Mails
    BY DEF Mails
  <1>2. Cardinality(Alive') \in Nat
    BY FS_CardinalityType
  <1>3. /\ Cardinality(Mails) \in Nat /\ Cardinality(Handling) \in Nat
        /\ Cardinality(Alive) \in Nat /\ Len(ready) \in Nat
        /\ outages \in Nat
    BY MailsAreNumbers
  <1>4. Cardinality(Mails) + Cardinality(Handling) + Len(ready)
            <= Cardinality(Alive) + outages
    BY DEF MailsArePaidFor
  <1>5. Cardinality(Mails) + Cardinality(Handling') + Len(ready')
            <= Cardinality(Alive') + outages'
    BY <1>2, <1>3, <1>4
  <1> QED
    BY <1>1, <1>5 DEF MailsArePaidFor

\* Only events that were published are worked on and told to anyone.
OnlyPublished ==
    /\ \A w \in Workers : message[w] # NoEvent => message[w] \in sent
    /\ \A e \in Events : emailed[e] > 0 => e \in sent

LEMMA OnlyPublishedInit == QueueInit => OnlyPublished
  BY DEF QueueInit, OnlyPublished

LEMMA OnlyPublishedStep ==
    ASSUME QueueTyped, Places, OnlyPublished, [QueueNext]_queueVars
    PROVE  OnlyPublished'
  <1> USE DEF QueueTyped, QueueTypeOK, OnlyPublished
  <1>1. ASSUME NEW w \in Workers, Deliver(w) PROVE OnlyPublished'
    <2>1. Head(ready) \in sent
      BY <1>1, HeadTaken DEF Deliver, Places, Queued
    <2> QED
      BY <1>1, <2>1 DEF Deliver
  <1>2. ASSUME NEW w \in Workers, SendEmail(w) PROVE OnlyPublished'
    <2>1. PICK m \in Events : m = message[w]
      BY <1>2 DEF SendEmail, HandlersHaveMessages
    <2>2. m \in sent
      BY <2>1, OrderQueueAssumption
    <2>3. /\ emailed' = [emailed EXCEPT ![m] = @ + 1]
          /\ UNCHANGED <<sent, message>>
      BY <1>2, <2>1 DEF SendEmail
    <2>4. \A e \in Events \ {m} : emailed'[e] = emailed[e]
      BY <2>3
    <2> QED
      BY <2>2, <2>3, <2>4
  <1>3. ASSUME NEW w \in Workers,
               \/ Ack(w) \/ RejectMessage(w) \/ HandlerRaises(w)
               \/ NotifyWarehouse(w) \/ Restart(w) \/ Crash(w)
               \/ LoseConnection(w)
        PROVE  OnlyPublished'
    <2>1. UNCHANGED <<sent, emailed>>
      BY <1>3 DEF Ack, RejectMessage, HandlerRaises, NotifyWarehouse, Restart,
                  Crash, LoseConnection
    <2>2. \/ UNCHANGED message
          \/ message' = [message EXCEPT ![w] = NoEvent]
      BY <1>3 DEF Ack, RejectMessage, HandlerRaises, NotifyWarehouse, Restart,
                  Crash, LoseConnection
    <2> QED
      BY <2>1, <2>2
  <1>4. CASE UNCHANGED queueVars \/ \E e \in Events : Send(e)
    BY <1>4 DEF queueVars, Send
  <1> QED
    BY <1>1, <1>2, <1>3, <1>4 DEF QueueNext, WorkerStep

\* The workers that handle a message, when one of them goes on to t.
LEMMA HandlingMoves ==
    ASSUME QueueTypeOK, MailsArePaidFor, NEW w \in Workers, NEW t,
           task' = [task EXCEPT ![w] = t]
    PROVE  /\ IsFiniteSet(Handling')
           /\ Cardinality(Handling') =
                Cardinality(Handling)
                    + (IF t = "handling" THEN 1 ELSE 0)
                    - (IF task[w] = "handling" THEN 1 ELSE 0)
  <1>1. task \in [Workers -> Tasks]
    BY DEF QueueTypeOK
  <1>2. /\ IsFiniteSet(Handling) /\ Cardinality(Handling) \in Nat
    BY MailsAreNumbers DEF MailsArePaidFor
  <1>3. CASE t = "handling"
    <2>1. Handling' = Handling \cup {w}
      BY <1>1, <1>3 DEF Handling
    <2>2. w \in Handling <=> task[w] = "handling"
      BY DEF Handling
    <2>3. /\ IsFiniteSet(Handling')
          /\ Cardinality(Handling') = IF w \in Handling
                                        THEN Cardinality(Handling)
                                        ELSE Cardinality(Handling) + 1
      BY <1>2, <2>1, FS_AddElement
    <2> QED
      BY <1>2, <1>3, <2>2, <2>3
  <1>4. CASE t # "handling"
    <2>1. Handling' = Handling \ {w}
      BY <1>1, <1>4 DEF Handling
    <2>2. w \in Handling <=> task[w] = "handling"
      BY DEF Handling
    <2>3. /\ IsFiniteSet(Handling')
          /\ Cardinality(Handling') = IF w \in Handling
                                        THEN Cardinality(Handling) - 1
                                        ELSE Cardinality(Handling)
      BY <1>2, <2>1, FS_RemoveElement
    <2> QED
      BY <1>2, <1>4, <2>2, <2>3
  <1> QED
    BY <1>3, <1>4

\* When a handler gives up a message, at most that event is not alive any
\* more.
LEMMA AtMostOneLess ==
    ASSUME NEW S, NEW T, NEW x, IsFiniteSet(S), S \ {x} \subseteq T,
           T \subseteq S
    PROVE  IsFiniteSet(T) /\ Cardinality(T) >= Cardinality(S) - 1
  <1>1. IsFiniteSet(T) /\ Cardinality(T) \in Nat /\ Cardinality(S) \in Nat
    BY FS_Subset, FS_CardinalityType
  <1>2. /\ IsFiniteSet(S \ {x})
        /\ Cardinality(S \ {x}) = IF x \in S THEN Cardinality(S) - 1
                                             ELSE Cardinality(S)
    BY FS_RemoveElement
  <1>3. Cardinality(S \ {x}) <= Cardinality(T)
    BY <1>1, FS_Subset
  <1> QED
    BY <1>1, <1>2, <1>3

LEMMA NoneLess ==
    ASSUME NEW S, NEW T, NEW x, IsFiniteSet(S), S \subseteq T,
           T \subseteq S \cup {x}
    PROVE  IsFiniteSet(T) /\ Cardinality(T) >= Cardinality(S)
  <1>1. IsFiniteSet(S \cup {x})
    BY FS_AddElement
  <1>2. IsFiniteSet(T)
    BY <1>1, FS_Subset
  <1>3. Cardinality(S) <= Cardinality(T)
    BY <1>2, FS_Subset
  <1>4. Cardinality(T) \in Nat /\ Cardinality(S) \in Nat
    BY <1>2, FS_CardinalityType
  <1> QED
    BY <1>2, <1>3, <1>4

\* The handler of w ends or gets no further with its message: only the event
\* of this message can lose its last chance of an e-mail.
LEMMA GivenUp ==
    ASSUME QueueTyped, MailsArePaidFor, NEW w \in Workers,
           NEW t \in Tasks \ {"handling"},
           UNCHANGED <<ready, emailed, outages>>,
           task' = [task EXCEPT ![w] = t],
           \A v \in Workers \ {w} : message'[v] = message[v]
    PROVE  MailsArePaidFor'
  <1> DEFINE h == IF task[w] = "handling" THEN -1 ELSE 0
  <1>1. /\ IsFiniteSet(Handling')
        /\ Cardinality(Handling') = Cardinality(Handling) + h
    <2>1. t # "handling"
      OBVIOUS
    <2>2. /\ IsFiniteSet(Handling')
          /\ Cardinality(Handling') =
                Cardinality(Handling) + (IF t = "handling" THEN 1 ELSE 0)
                    - (IF task[w] = "handling" THEN 1 ELSE 0)
      BY HandlingMoves DEF QueueTyped
    <2>3. Cardinality(Handling) \in Nat
      BY MailsAreNumbers DEF QueueTyped
    <2> QED
      BY <2>1, <2>2, <2>3
  <1>2. task \in [Workers -> Tasks] /\ IsFiniteSet(Alive)
    BY DEF QueueTyped, QueueTypeOK, MailsArePaidFor
  <1>3. /\ w \notin Handling' /\ Handling' = Handling \ {w}
        /\ Queued' = Queued
    BY <1>2 DEF Handling, Queued
  <1>4. UNCHANGED emailed /\ \A v \in Handling' : message'[v] = message[v]
    BY <1>3 DEF Handling
  <1>5. Alive' \subseteq Alive
    BY <1>3, <1>4 DEF Alive
  <1>6. Alive \ {message[w]} \subseteq Alive'
    BY <1>3, <1>4 DEF Alive
  <1>7. task[w] # "handling" => Alive \subseteq Alive'
    BY <1>3 DEF Alive, Handling
  <1>8. /\ IsFiniteSet(Alive')
        /\ Cardinality(Alive') >= Cardinality(Alive) + h
    <2>1. IsFiniteSet(Alive') /\ Cardinality(Alive') >= Cardinality(Alive) - 1
      BY <1>2, <1>5, <1>6, AtMostOneLess
    <2>2. task[w] # "handling" => Alive' = Alive
      BY <1>5, <1>7
    <2>3. Cardinality(Alive') \in Nat /\ Cardinality(Alive) \in Nat
      BY <2>1, <1>2, FS_CardinalityType
    <2> QED
      BY <2>1, <2>2, <2>3
  <1>9. /\ Len(ready') = Len(ready) + 0 /\ outages' = outages + 0
        /\ h \in {0, -1, 1} /\ h + 0 <= h + 0
    <2>1. Len(ready) \in Nat /\ outages \in Nat
      BY MailsAreNumbers DEF QueueTyped
    <2> QED
      BY <2>1
  <1> HIDE DEF h
  <1> QED
    BY <1>1, <1>8, <1>9, NoMailSent DEF QueueTyped

\* A connection ends, and with it maybe the handler: what it had not
\* acknowledged is to be sent again, and the outage pays for that.
LEMMA GivenBack ==
    ASSUME QueueTyped, MailsArePaidFor, NEW w \in Workers,
           unacked[w] # NoEvent, TakeBack(w), CountOutage, UNCHANGED emailed,
           \/ UNCHANGED <<task, message>>
           \/ /\ task' = [task EXCEPT ![w] = "down"]
              /\ message' = [message EXCEPT ![w] = NoEvent]
    PROVE  MailsArePaidFor'
  <1>1. PICK m \in Events : m = unacked[w] /\ m = message[w]
    BY TakenBack DEF QueueTyped, HandlersHaveMessages
  <1>2. /\ ready \in Seq(Events) /\ task \in [Workers -> Tasks]
        /\ message \in [Workers -> Events \cup {NoEvent}]
    BY DEF QueueTyped, QueueTypeOK
  <1>3. ready' = <<m>> \o ready
    BY <1>1, TakenBack DEF QueueTyped
  <1>4. Len(ready') = Len(ready) + 1 /\ Queued' = Queued \cup {m}
    <2>1. /\ Len(ready) \in Nat /\ Len(ready') = Len(ready) + 1
          /\ DOMAIN ready = 1 .. Len(ready)
          /\ DOMAIN ready' = 1 .. Len(ready) + 1
          /\ \A i \in DOMAIN ready : ready'[i + 1] = ready[i]
          /\ ready'[1] = m
      BY <1>2, <1>3
    <2>2. \A i \in DOMAIN ready' :
             i = 1 \/ (i - 1 \in DOMAIN ready /\ ready'[i] = ready[i - 1])
      BY <2>1
    <2>3. Queued' \subseteq Queued \cup {m}
      BY <2>1, <2>2 DEF Queued, Elements
    <2>4. \A i \in DOMAIN ready : ready[i] \in Queued'
      BY <2>1 DEF Queued, Elements
    <2>5. m \in Queued'
      BY <2>1 DEF Queued, Elements
    <2>6. Queued \subseteq Queued'
      BY <2>4 DEF Queued, Elements
    <2> QED
      BY <2>1, <2>3, <2>5, <2>6
  <1>5. /\ Handling' \subseteq Handling
        /\ \A v \in Handling' : message'[v] = message[v]
        /\ \A v \in Handling \ Handling' : message[v] = m
    BY <1>1, <1>2 DEF Handling
  <1>6. IsFiniteSet(Alive') /\ Cardinality(Alive') >= Cardinality(Alive) + 0
    <2>1. Alive \subseteq Alive'
      BY <1>4, <1>5 DEF Alive
    <2>2. Alive' \subseteq Alive \cup {m}
      BY <1>4, <1>5 DEF Alive
    <2>3. IsFiniteSet(Alive)
      BY DEF MailsArePaidFor
    <2>4. IsFiniteSet(Alive') /\ Cardinality(Alive') >= Cardinality(Alive)
      BY <2>1, <2>2, <2>3, NoneLess
    <2>5. Cardinality(Alive) \in Nat
      BY <2>3, FS_CardinalityType
    <2> QED
      BY <2>4, <2>5
  <1>7. PICK h \in {0, -1} :
          /\ IsFiniteSet(Handling')
          /\ Cardinality(Handling') = Cardinality(Handling) + h
    <2>1. IsFiniteSet(Handling) /\ Cardinality(Handling) \in Nat
      BY MailsAreNumbers DEF MailsArePaidFor, QueueTyped
    <2>2. CASE UNCHANGED <<task, message>>
      BY <2>1, <2>2 DEF Handling
    <2>3. CASE task' = [task EXCEPT ![w] = "down"]
      <3>1. /\ IsFiniteSet(Handling')
            /\ Cardinality(Handling') = Cardinality(Handling) + 0
                  - (IF task[w] = "handling" THEN 1 ELSE 0)
        BY <2>3, HandlingMoves DEF QueueTyped
      <3> QED
        BY <2>1, <3>1
    <2> QED
      BY <2>2, <2>3
  <1>8. outages' = outages + 1 /\ h + 1 <= 0 + 1 /\ h \in {0, -1, 1}
    BY <1>7 DEF CountOutage
  <1> QED
    BY <1>4, <1>6, <1>7, <1>8, NoMailSent DEF QueueTyped

LEMMA MailsStep ==
    ASSUME QueueTyped, Places, OnlyPublished, MailsArePaidFor,
           [QueueNext]_queueVars
    PROVE  MailsArePaidFor'
  <1>1. /\ task \in [Workers -> Tasks] /\ emailed \in [Events -> Nat]
        /\ ready \in Seq(Events) /\ IsFiniteSet(Alive) /\ IsFiniteSet(Handling)
        /\ IsFiniteSet(Mails) /\ QueueTypeOK
    BY DEF QueueTyped, QueueTypeOK, MailsArePaidFor
  <1>2. /\ Cardinality(Mails) \in Nat /\ Cardinality(Handling) \in Nat
        /\ Cardinality(Alive) \in Nat /\ Len(ready) \in Nat
        /\ outages \in Nat
    BY <1>1, MailsAreNumbers
  <1>3. ASSUME NEW e \in Events, Send(e) PROVE MailsArePaidFor'
    <2>1. e \notin Elements(ready)
      BY <1>3 DEF Send, Places, Queued
    <2>2. Queued' = Queued \cup {e} /\ Len(ready') = Len(ready) + 1
      BY <1>1, <1>3, <2>1, AppendedElements DEF Send, Enqueued, Queued, Places
    <2>3. UNCHANGED <<task, message, emailed, outages>>
      BY <1>3 DEF Send
    <2>4. Handling' = Handling
      BY <2>3 DEF Handling
    <2>5. Alive' = Alive \cup {e}
      BY <2>2, <2>3, <2>4 DEF Alive
    <2>6. e \notin Alive
      BY <1>3, <2>1, OrderQueueAssumption
         DEF Send, Alive, Queued, OnlyPublished, Handling
    <2>7. IsFiniteSet(Alive') /\ Cardinality(Alive') = Cardinality(Alive) + 1
      BY <1>1, <2>5, <2>6, FS_AddElement
    <2>8. /\ IsFiniteSet(Handling')
          /\ Cardinality(Handling') = Cardinality(Handling) + 0
          /\ Cardinality(Alive') >= Cardinality(Alive) + 1
          /\ outages' = outages + 0 /\ 0 + 1 <= 1 + 0
      BY <1>1, <1>2, <2>3, <2>4, <2>7
    <2> QED
      BY <1>1, <2>2, <2>3, <2>7, <2>8, NoMailSent
  <1>4. ASSUME NEW w \in Workers, Deliver(w) PROVE MailsArePaidFor'
    <2>1. PICK e \in Events : e = Head(ready)
      BY <1>1, <1>4 DEF Deliver
    <2>2. /\ e \in Queued /\ Queued' = Queued \ {e}
          /\ Len(ready') = Len(ready) - 1
      BY <1>1, <1>4, <2>1, HeadTaken DEF Deliver, Queued, Places
    <2>3. /\ task[w] = "waiting" /\ task' = [task EXCEPT ![w] = "handling"]
          /\ message' = [message EXCEPT ![w] = e]
          /\ UNCHANGED <<emailed, outages>>
      BY <1>4, <2>1 DEF Deliver
    <2>4. message \in [Workers -> Events \cup {NoEvent}]
      BY DEF QueueTyped, QueueTypeOK
    <2>5. /\ Handling' = Handling \cup {w} /\ w \notin Handling
          /\ message'[w] = e
          /\ \A v \in Handling : message'[v] = message[v]
      BY <1>1, <2>3, <2>4 DEF Handling
    <2>6. Alive' = Alive
      BY <2>2, <2>3, <2>5 DEF Alive
    <2>7. /\ IsFiniteSet(Handling')
          /\ Cardinality(Handling') = Cardinality(Handling) + 1
      BY <1>1, <2>5, FS_AddElement
    <2>8. /\ Len(ready') = Len(ready) + (-1)
          /\ Cardinality(Alive') >= Cardinality(Alive) + 0
          /\ outages' = outages + 0 /\ 1 + (-1) <= 0 + 0
      BY <1>2, <2>2, <2>3, <2>6
    <2>9. IsFiniteSet(Alive')
      BY <1>1, <2>6
    <2> QED
      BY <1>1, <2>3, <2>7, <2>8, <2>9, NoMailSent
  <1>5. ASSUME NEW w \in Workers, SendEmail(w) PROVE MailsArePaidFor'
    <2>1. PICK m \in Events : m = message[w]
      BY <1>5 DEF SendEmail, QueueTyped, QueueTypeOK, HandlersHaveMessages
    <2>2. /\ emailed' = [emailed EXCEPT ![m] = @ + 1]
          /\ task' = [task EXCEPT ![w] = "emailed"] /\ task[w] = "handling"
          /\ UNCHANGED <<ready, message, outages>>
      BY <1>5, <2>1 DEF SendEmail
    <2>3. /\ emailed'[m] = emailed[m] + 1 /\ emailed[m] \in Nat
          /\ \A e \in Events \ {m} : emailed'[e] = emailed[e]
      BY <1>1, <2>2, Incremented
    <2>4. Mails' = Mails \cup {<<m, emailed[m] + 1>>}
      <3>1. 1 .. emailed'[m] = (1 .. emailed[m]) \cup {emailed[m] + 1}
        BY <2>3
      <3> QED
        BY <2>3, <3>1 DEF Mails
    <2>5. <<m, emailed[m] + 1>> \notin Mails
      BY <2>3 DEF Mails
    <2>6. IsFiniteSet(Mails') /\ Cardinality(Mails') = Cardinality(Mails) + 1
      BY <1>1, <2>4, <2>5, FS_AddElement
    <2>7. Handling' = Handling \ {w} /\ w \in Handling
      BY <1>1, <2>2 DEF Handling
    <2>8. /\ IsFiniteSet(Handling')
          /\ Cardinality(Handling') = Cardinality(Handling) - 1
      BY <1>1, <2>7, FS_RemoveElement
    <2>9. Queued' = Queued
      BY <2>2 DEF Queued
    <2>10. \A e \in Events : emailed'[e] > 0 <=> e = m \/ emailed[e] > 0
      BY <2>3
    <2>11. Alive' = Alive
      BY <2>1, <2>2, <2>7, <2>9, <2>10 DEF Alive
    <2> QED
      BY <1>1, <1>2, <2>2, <2>6, <2>8, <2>11 DEF MailsArePaidFor
  <1>6. ASSUME NEW w \in Workers, NotifyWarehouse(w) PROVE MailsArePaidFor'
    BY <1>6, GivenUp DEF NotifyWarehouse, Tasks
  <1>7. ASSUME NEW w \in Workers, HandlerRaises(w) PROVE MailsArePaidFor'
    BY <1>7, GivenUp DEF HandlerRaises, Tasks
  <1>8. ASSUME NEW w \in Workers, Restart(w) PROVE MailsArePaidFor'
    BY <1>8, GivenUp DEF Restart, Tasks
  <1>9. ASSUME NEW w \in Workers, message' = [message EXCEPT ![w] = NoEvent]
        PROVE  \A v \in Workers \ {w} : message'[v] = message[v]
    BY <1>9 DEF QueueTyped, QueueTypeOK
  <1>10. ASSUME NEW w \in Workers, Ack(w) PROVE MailsArePaidFor'
    BY <1>9, <1>10, GivenUp DEF Ack, Tasks
  <1>11. ASSUME NEW w \in Workers, RejectMessage(w) PROVE MailsArePaidFor'
    <2>1. ready' = ready
      BY <1>1, <1>11, NothingRequeued
    <2> QED
      BY <1>9, <1>11, <2>1, GivenUp DEF RejectMessage, Tasks
  <1>12. ASSUME NEW w \in Workers, LoseConnection(w) PROVE MailsArePaidFor'
    BY <1>12, GivenBack DEF LoseConnection
  <1>13. ASSUME NEW w \in Workers, Crash(w) PROVE MailsArePaidFor'
    <2>1. CASE unacked[w] # NoEvent
      BY <1>13, <2>1, GivenBack DEF Crash
    <2>2. CASE unacked[w] = NoEvent
      <3>1. ready' = ready
        BY <1>1, <1>13, <2>2, TakenBack DEF Crash
      <3>2. /\ task' = [task EXCEPT ![w] = "down"]
            /\ message' = [message EXCEPT ![w] = NoEvent]
            /\ outages' = outages + 1 /\ UNCHANGED emailed
        BY <1>13 DEF Crash, CountOutage
      <3>3. \A v \in Workers \ {w} : message'[v] = message[v]
        BY <1>9, <3>2
      <3>4. /\ IsFiniteSet(Handling')
            /\ Cardinality(Handling') = Cardinality(Handling)
                    + (IF "down" = "handling" THEN 1 ELSE 0)
                    - (IF task[w] = "handling" THEN 1 ELSE 0)
        BY <1>1, <3>2, HandlingMoves
      <3>5. /\ Handling' = Handling \ {w} /\ Queued' = Queued
            /\ \A v \in Handling' : message'[v] = message[v]
        BY <1>1, <3>1, <3>2, <3>3 DEF Handling, Queued
      <3>6. Alive' \subseteq Alive /\ Alive \ {message[w]} \subseteq Alive'
        BY <3>2, <3>5 DEF Alive
      <3>7. /\ IsFiniteSet(Alive')
            /\ Cardinality(Alive') >= Cardinality(Alive) - 1
        BY <1>1, <3>6, AtMostOneLess
      <3>8. Mails' = Mails
        BY <3>2 DEF Mails
      <3>9. Cardinality(Alive') \in Nat
        BY <3>7, FS_CardinalityType
      <3>10. Cardinality(Mails) + Cardinality(Handling) + Len(ready)
                <= Cardinality(Alive) + outages
        BY DEF MailsArePaidFor
      <3>11. Cardinality(Mails) + Cardinality(Handling') + Len(ready)
                <= Cardinality(Alive') + outages'
        BY <1>2, <3>2, <3>4, <3>7, <3>9, <3>10
      <3> QED
        BY <1>1, <3>1, <3>4, <3>7, <3>8, <3>11 DEF MailsArePaidFor
    <2> QED
      BY <2>1, <2>2
  <1>14. CASE UNCHANGED queueVars
    <2>1. /\ Mails' = Mails /\ Handling' = Handling /\ Alive' = Alive
          /\ Len(ready') = Len(ready) /\ outages' = outages
      BY <1>14 DEF queueVars, Mails, Handling, Alive, Queued
    <2> QED
      BY <2>1 DEF MailsArePaidFor
  <1> QED
    BY <1>3, <1>4, <1>5, <1>6, <1>7, <1>8, <1>10, <1>11, <1>12, <1>13, <1>14
       DEF QueueNext, WorkerStep

LEMMA UnionIsNoLarger ==
    ASSUME NEW S, NEW T, IsFiniteSet(S), IsFiniteSet(T)
    PROVE  /\ IsFiniteSet(S \cup T) /\ Cardinality(S \cup T) \in Nat
           /\ Cardinality(S \cup T) <= Cardinality(S) + Cardinality(T)
  <1>1. /\ IsFiniteSet(S \cup T)
        /\ Cardinality(S \cup T) =
              Cardinality(S) + Cardinality(T) - Cardinality(S \cap T)
    BY FS_Union
  <1>2. IsFiniteSet(S \cap T)
    BY FS_Subset
  <1>3. /\ Cardinality(S \cap T) \in Nat /\ Cardinality(S \cup T) \in Nat
        /\ Cardinality(S) \in Nat /\ Cardinality(T) \in Nat
    BY <1>1, <1>2, FS_CardinalityType
  <1> QED
    BY <1>1, <1>3

\* Every event that is alive is so for its first e-mail, for a handler or for a
\* place in the queue: what is alive leaves room for the first e-mails only.
LEMMA RepeatsArePaidFor ==
    ASSUME QueueTypeOK, MailsArePaidFor
    PROVE  Cardinality(Repeats) <= outages
  <1> DEFINE told == {e \in Events : emailed[e] > 0}
             firsts == {<<e, 1>> : e \in told}
             worked == {message[w] : w \in Handling}
  <1>1. /\ IsFiniteSet(Mails) /\ IsFiniteSet(Handling) /\ IsFiniteSet(Alive)
        /\ ready \in Seq(Events) /\ emailed \in [Events -> Nat]
        /\ Cardinality(Mails) + Cardinality(Handling) + Len(ready)
              <= Cardinality(Alive) + outages
    BY DEF MailsArePaidFor, QueueTypeOK
  <1>2. /\ Cardinality(Mails) \in Nat /\ Cardinality(Handling) \in Nat
        /\ Cardinality(Alive) \in Nat /\ Len(ready) \in Nat
        /\ outages \in Nat
    BY MailsAreNumbers
  <1>3. Mails = Repeats \cup firsts /\ Repeats \cap firsts = {}
    <2>1. \A e \in Events : emailed[e] \in Nat
      BY <1>1
    <2>2. \A e \in Events :
             1 .. emailed[e] = (2 .. emailed[e])
                                   \cup (IF emailed[e] > 0 THEN {1} ELSE {})
      BY <2>1
    <2>3. \A x : x \in Mails <=>
             \E e \in Events : \E n \in 1 .. emailed[e] : x = <<e, n>>
      BY DEF Mails
    <2>4. \A x : x \in Repeats <=>
             \E e \in Events : \E n \in 2 .. emailed[e] : x = <<e, n>>
      BY DEF Repeats
    <2>5. \A x : x \in firsts <=>
             \E e \in Events : emailed[e] > 0 /\ x = <<e, 1>>
      OBVIOUS
    <2> HIDE DEF told, firsts
    <2>6. Mails \subseteq Repeats \cup firsts
      <3> SUFFICES ASSUME NEW x \in Mails PROVE x \in Repeats \cup firsts
        OBVIOUS
      <3>1. PICK e \in Events : \E n \in 1 .. emailed[e] : x = <<e, n>>
        BY <2>3
      <3>2. PICK n \in 1 .. emailed[e] : x = <<e, n>>
        BY <3>1
      <3>3. n \in 2 .. emailed[e] \/ (n = 1 /\ emailed[e] > 0)
        BY <2>1, <3>2
      <3> QED
        BY <2>4, <2>5, <3>2, <3>3
    <2>7. firsts \subseteq Mails
      <3>1. \A e \in Events : emailed[e] > 0 => 1 \in 1 .. emailed[e]
        BY <2>1
      <3> QED
        BY <2>3, <2>5, <3>1
    <2>8. Repeats \subseteq Mails
      BY <2>2, <2>3, <2>4
    <2>9. Repeats \cap firsts = {}
      <3>1. \A e \in Events : 1 \notin 2 .. emailed[e]
        BY <2>1
      <3> QED
        BY <2>4, <2>5, <3>1
    <2> QED
      BY <2>6, <2>7, <2>8, <2>9
  <1>4. /\ IsFiniteSet(Repeats) /\ IsFiniteSet(firsts)
        /\ Cardinality(Repeats) \in Nat /\ Cardinality(firsts) \in Nat
        /\ Cardinality(Mails) = Cardinality(Repeats) + Cardinality(firsts)
    <2>1. IsFiniteSet(Repeats) /\ IsFiniteSet(firsts)
      BY <1>1, <1>3, FS_Subset
    <2>2. Cardinality(Repeats) \in Nat /\ Cardinality(firsts) \in Nat
      BY <2>1, FS_CardinalityType
    <2>3. Cardinality(Repeats \cap firsts) = 0
      BY <1>3, FS_EmptySet
    <2> HIDE DEF firsts
    <2>4. Cardinality(Repeats \cup firsts)
             = Cardinality(Repeats) + Cardinality(firsts)
                  - Cardinality(Repeats \cap firsts)
      BY <2>1, FS_Union
    <2> QED
      BY <1>3, <2>1, <2>2, <2>3, <2>4
  <1>5. /\ IsFiniteSet(told) /\ Cardinality(told) <= Cardinality(firsts)
    <2> DEFINE f == [x \in firsts |-> x[1]]
    <2>1. \A e \in told : <<e, 1>> \in firsts /\ f[<<e, 1>>] = e
      OBVIOUS
    <2>2. f \in [firsts -> told]
      OBVIOUS
    <2>3. f \in Surjection(firsts, told)
      BY <2>1, <2>2 DEF Surjection
    <2> HIDE DEF f, firsts, told
    <2> QED
      BY <1>4, <2>3, FS_Surjection
  <1>6. /\ IsFiniteSet(worked) /\ Cardinality(worked) <= Cardinality(Handling)
    <2> DEFINE f == [w \in Handling |-> message[w]]
    <2>1. f \in Surjection(Handling, worked)
      BY DEF Surjection
    <2> HIDE DEF f, worked
    <2> QED
      BY <1>1, <2>1, FS_Surjection
  <1>7. /\ IsFiniteSet(Queued) /\ Cardinality(Queued) <= Len(ready)
    <2>1. DOMAIN ready = 1 .. Len(ready)
      BY <1>1
    <2>2. /\ IsFiniteSet(1 .. Len(ready))
          /\ Cardinality(1 .. Len(ready)) = Len(ready)
      <3>1. ASSUME NEW n \in Nat
            PROVE  IsFiniteSet(1 .. n) /\ Cardinality(1 .. n) = n
        <4>1. /\ IsFiniteSet(1 .. n)
              /\ Cardinality(1 .. n) = IF 1 > n THEN 0 ELSE n - 1 + 1
          BY FS_Interval
        <4> QED
          BY <4>1
      <3> QED
        BY <1>2, <3>1
    <2> DEFINE f == [i \in 1 .. Len(ready) |-> ready[i]]
    <2>3. f \in Surjection(1 .. Len(ready), Queued)
      BY <2>1 DEF Surjection, Queued, Elements
    <2> HIDE DEF f
    <2> QED
      BY <2>2, <2>3, FS_Surjection
  <1>8. Alive \subseteq told \cup (Queued \cup worked)
    BY DEF Alive
  <1> HIDE DEF told, firsts, worked
  <1>9. /\ Cardinality(told) \in Nat /\ Cardinality(worked) \in Nat
        /\ Cardinality(Queued) \in Nat
    BY <1>5, <1>6, <1>7, FS_CardinalityType
  <1>10. /\ IsFiniteSet(Queued \cup worked)
         /\ Cardinality(Queued \cup worked) \in Nat
         /\ Cardinality(Queued \cup worked)
               <= Cardinality(Queued) + Cardinality(worked)
    BY <1>6, <1>7, <1>9, UnionIsNoLarger
  <1>11. /\ IsFiniteSet(told \cup (Queued \cup worked))
         /\ Cardinality(told \cup (Queued \cup worked)) \in Nat
         /\ Cardinality(told \cup (Queued \cup worked))
               <= Cardinality(told) + Cardinality(Queued \cup worked)
    BY <1>5, <1>9, <1>10, UnionIsNoLarger
  <1>12. Cardinality(Alive) <= Cardinality(told \cup (Queued \cup worked))
    BY <1>8, <1>11, FS_Subset
  <1>13. Cardinality(Alive)
            <= Cardinality(firsts) + Len(ready) + Cardinality(Handling)
    BY <1>2, <1>4, <1>5, <1>6, <1>7, <1>9, <1>10, <1>11, <1>12
  <1>14. Cardinality(Repeats) + Cardinality(firsts) + Cardinality(Handling)
            + Len(ready) <= Cardinality(Alive) + outages
    BY <1>1, <1>4
  <1> QED
    BY <1>2, <1>4, <1>13, <1>14

-----------------------------------------------------------------------------
(* Theorems                                                                *)

\* Together these facts survive every step of publishers, workers and broker.
QueueInv ==
    QueueTyped /\ Places /\ WorkIsDone /\ OnlyPublished /\ DuplicatesInv

\* The invariant from which the theorems below follow.
THEOREM QueueInvariance == QueueSpec => []QueueInv
  <1>1. QueueInit => QueueInv
    BY QueueTypedInit, PlacesInit, WorkInit, OnlyPublishedInit, DuplicatesInit
       DEF QueueInv
  <1>2. QueueInv /\ [QueueNext]_queueVars => QueueInv'
    BY QueueTypedStep, PlacesStep, WorkStep, OnlyPublishedStep, NotifiedStep,
       MailsStep
       DEF QueueInv, DuplicatesInv
  <1> QED
    BY <1>1, <1>2, PTL DEF QueueSpec

\* The variables of the queue and of its workers keep their types, and a
\* handler works on the message that the broker gave to its worker.
THEOREM QueueTypeCorrect == QueueSpec => []QueueTypeOK
  <1>1. QueueInv => QueueTypeOK
    BY DEF QueueInv, QueueTyped
  <1> QED
    BY <1>1, QueueInvariance, PTL

\* A message that publish() has confirmed is once in the queue, or with one
\* worker, or removed for one reason, for any number of crashes and lost
\* connections: the broker neither loses nor copies it.
THEOREM EveryMessageHasOnePlace == QueueSpec => []OnePlacePerMessage
  <1>1. QueueInv => OnePlacePerMessage
    BY PlacesAreCounted DEF QueueInv
  <1> QED
    BY <1>1, QueueInvariance, PTL

\* process_message acknowledges after handle_order_created has returned: for
\* an acknowledged event the e-mail was sent and the warehouse was told.
THEOREM AcknowledgedWorkIsDone == QueueSpec => []AckedMeansHandled
  <1>1. QueueInv => AckedMeansHandled
    BY DEF QueueInv, WorkIsDone
  <1> QED
    BY <1>1, QueueInvariance, PTL

\* Every repeated e-mail has an outage of its own, and the warehouse is never
\* told more often than the customer.
THEOREM RepeatsNeedOutages == QueueSpec => []DuplicatesNeedOutages
  <1>1. ASSUME QueueInv PROVE DuplicatesNeedOutages
    <2>1. Cardinality(Repeats) <= outages
      BY <1>1, RepeatsArePaidFor DEF QueueInv, QueueTyped, DuplicatesInv
    <2>2. ASSUME NEW e \in Events PROVE notified[e] <= emailed[e]
      <3>1. /\ notified[e] + Cardinality(HalfWay(e)) <= emailed[e]
            /\ IsFiniteSet(HalfWay(e))
        BY <1>1 DEF QueueInv, DuplicatesInv, NotifiedAfterEmail
      <3>2. Cardinality(HalfWay(e)) \in Nat
        BY <3>1, FS_CardinalityType
      <3>3. notified[e] \in Nat /\ emailed[e] \in Nat
        BY <1>1 DEF QueueInv, QueueTyped, QueueTypeOK
      <3> QED
        BY <3>1, <3>2, <3>3
    <2> QED
      BY <2>1, <2>2 DEF DuplicatesNeedOutages
  <1> QED
    BY <1>1, QueueInvariance, PTL
==============================================================================
