---------------------------- MODULE NotifyQueue -----------------------------
(***************************************************************************)
(* Notifications and the quiet-hours queue (src/atlas/{notify,             *)
(* notify-queue}.ts): at night, Baku time, a message goes to a queue file; *)
(* a drain sends the whole queue as one digest and then clears it.         *)
(*                                                                         *)
(* An actor is a process, or one of the asynchronous activities of one: the *)
(* drain awaits the network between reading the queue and clearing it.     *)
(* Enqueueing reads the file and renames a new one over it.  A message is  *)
(* a model value, and is notified once; messages of kind 'chatter' and     *)
(* unconfigured chats, which leave no trace, are left out.                 *)
(***************************************************************************)
EXTENDS Naturals, SequencesExt

CONSTANTS
    Actor,
    Message,
    Panic,      \* the messages of kind 'panic'
    Room,       \* how many messages fit into the 4096 characters of a digest
    Hour,       \* the hours of the day, UTC, that are looked at
    Fault       \* "timeout": a delivered send is reported as failed;
                \* "crash": an actor dies between two steps

ASSUME NotifyAssumption ==
    /\ Panic \subseteq Message
    /\ Room \in Nat
    /\ Hour \subseteq 0 .. 23 /\ Hour # {}
    /\ Fault \subseteq {"timeout", "crash"}

VARIABLES
    hour,      \* the hour of the day, UTC
    queue,     \* the messages in the queue file
    actor,     \* per actor: where it is and what it read
    notified,  \* history: the messages notified so far
    dropped,   \* those whose caller was told FAILED, or died
    delivered  \* those that have reached the chat

notifyVars == <<hour, queue, actor, notified, dropped, delivered>>

Idle == [pc |-> "idle"]

ActorState ==
    {Idle}
    \cup [pc : {"enqueue"}, read : Seq(Message), message : Message]
    \cup [pc : {"send"}, message : Message]
    \cup [pc : {"drain", "clear"}, batch : Seq(Message)]

NotifyTypeOK ==
    /\ hour \in Hour
    /\ queue \in Seq(Message)
    /\ actor \in [Actor -> ActorState]
    /\ notified \subseteq Message
    /\ dropped \subseteq Message
    /\ delivered \subseteq Message

NotifyInit ==
    /\ hour \in Hour
    /\ queue = <<>>
    /\ actor = [a \in Actor |-> Idle]
    /\ notified = {}
    /\ dropped = {}
    /\ delivered = {}

\* 23:00 inclusive to 08:00 exclusive in Baku, UTC+4.
BakuHour == (hour + 4) % 24
IsQuietHours == BakuHour >= 23 \/ BakuHour < 8

Become(a, state) == actor' = [actor EXCEPT ![a] = state]

\* The chat has the messages, once more perhaps.
Deliver(messages) == delivered' = delivered \cup messages

-----------------------------------------------------------------------------
(* notifyCeoResult *)

Notify(a, m) ==
    /\ actor[a] = Idle
    /\ m \notin notified
    /\ notified' = notified \cup {m}
    /\ Become(a, IF IsQuietHours /\ m \notin Panic
                 THEN [pc |-> "enqueue", read |-> queue, message |-> m]
                 ELSE [pc |-> "send", message |-> m])
    /\ UNCHANGED <<hour, queue, dropped, delivered>>

\* Mutant: the queue is replaced by the message.
EnqueueOver(a) ==
    /\ actor[a].pc = "enqueue"
    /\ queue' = <<actor[a].message>>
    /\ Become(a, Idle)
    /\ UNCHANGED <<hour, notified, dropped, delivered>>

\* enqueue writes back what it read, with the message at its end.
Enqueue(a) ==
    /\ actor[a].pc = "enqueue"
    /\ queue' = Append(actor[a].read, actor[a].message)
    /\ Become(a, Idle)
    /\ UNCHANGED <<hour, notified, dropped, delivered>>

Send(a) ==
    LET m == actor[a].message IN
    /\ actor[a].pc = "send"
    /\ \/ Deliver({m}) /\ UNCHANGED dropped
       \/ UNCHANGED delivered /\ dropped' = dropped \cup {m}
       \/ "timeout" \in Fault /\ Deliver({m}) /\ dropped' = dropped \cup {m}
    /\ Become(a, Idle)
    /\ UNCHANGED <<hour, queue, notified>>

-----------------------------------------------------------------------------
(* drainQueue *)

DrainQueue(a) ==
    /\ actor[a] = Idle
    /\ ~IsQuietHours
    /\ queue # <<>>
    /\ Become(a, [pc |-> "drain", batch |-> queue])
    /\ UNCHANGED <<hour, queue, notified, dropped, delivered>>

\* What of a batch is within the digest's 4096 characters.
Digest(batch) == {batch[i] : i \in {j \in DOMAIN batch : j <= Room}}

SendDigest(a) ==
    /\ actor[a].pc = "drain"
    /\ Deliver(Digest(actor[a].batch))
    /\ Become(a, [actor[a] EXCEPT !.pc = "clear"])
    /\ UNCHANGED <<hour, queue, notified, dropped>>

\* Mutant: the queue is cleared when the send fails, too.
SendFailsAndClears(a) ==
    /\ actor[a].pc = "drain"
    /\ UNCHANGED delivered
    /\ Become(a, [actor[a] EXCEPT !.pc = "clear"])
    /\ UNCHANGED <<hour, queue, notified, dropped>>

\* The send is rejected, or its answer does not come in time: the queue stays.
SendFails(a) ==
    /\ actor[a].pc = "drain"
    /\ \/ UNCHANGED delivered
       \/ "timeout" \in Fault /\ Deliver(Digest(actor[a].batch))
    /\ Become(a, Idle)
    /\ UNCHANGED <<hour, queue, notified, dropped>>

ClearQueue(a) ==
    /\ actor[a].pc = "clear"
    /\ queue' = <<>>
    /\ Become(a, Idle)
    /\ UNCHANGED <<hour, notified, dropped, delivered>>

-----------------------------------------------------------------------------

\* The next of the hours, after the last one the first of the next day.
NextHour ==
    IF \A h \in Hour : h <= hour
    THEN CHOOSE h \in Hour : \A i \in Hour : h <= i
    ELSE CHOOSE h \in Hour : h > hour /\ \A i \in Hour : i > hour => h <= i

HourPasses == hour' = NextHour /\ UNCHANGED <<queue, actor, notified, dropped, delivered>>

\* The message of a caller that dies is not taken for a queued one.
ActorDies(a) ==
    /\ "crash" \in Fault
    /\ actor[a] # Idle
    /\ Become(a, Idle)
    /\ dropped' = dropped \cup (IF actor[a].pc \in {"enqueue", "send"}
                                THEN {actor[a].message} ELSE {})
    /\ UNCHANGED <<hour, queue, notified, delivered>>

NotifyNext ==
    \/ HourPasses
    \/ \E a \in Actor :
         \/ \E m \in Message : Notify(a, m)
         \/ Enqueue(a) \/ Send(a)
         \/ DrainQueue(a) \/ SendDigest(a) \/ SendFails(a) \/ ClearQueue(a)
         \/ ActorDies(a)

NotifySpec == NotifyInit /\ [][NotifyNext]_notifyVars

\* The hours pass, started work goes on, the drain is called now and then in
\* the daytime, and a send that is tried again and again succeeds.
NotifyFairSpec ==
    /\ NotifySpec
    /\ WF_notifyVars(HourPasses)
    /\ \A a \in Actor : /\ WF_notifyVars(Enqueue(a) \/ Send(a) \/ ClearQueue(a))
                        /\ SF_notifyVars(DrainQueue(a))
                        /\ SF_notifyVars(SendDigest(a))

-----------------------------------------------------------------------------

Pending(m) == \E a \in Actor : actor[a].pc \in {"enqueue", "send"} /\ actor[a].message = m

\* A message that was taken over is in the queue until it has been delivered.
NothingLost ==
    \A m \in notified \ dropped :
        m \in ToSet(queue) \/ Pending(m) \/ m \in delivered

\* A queued message is delivered in the end.
QueuedIsDelivered == \A m \in Message : m \in ToSet(queue) ~> m \in delivered
=============================================================================
