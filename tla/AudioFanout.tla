---------------------------- MODULE AudioFanout ----------------------------
(***************************************************************************)
(* Audio frames on their way from the agents to the browsers that listen:  *)
(* publishAudio, called by the handler of every agent socket under the     *)
(* read lock of the hub, so by several at once, and writeAudio, one        *)
(* goroutine per browser.  A browser has one queue for all devices it      *)
(* listens to.  Who listens is in PreviewHub.                              *)
(***************************************************************************)
EXTENDS Integers, Sequences, FiniteSets

CONSTANTS
    Publisher,   \* devices whose handlers publish
    Listener,    \* browsers
    Capacity,    \* size of audioFrames
    MaxFrames    \* bound: frames of one device

ASSUME FanoutAssumption == Capacity \in Nat \ {0} /\ MaxFrames \in Nat

VARIABLES
    listens,    \* audioSubscribers
    queue,      \* audioFrames: device and number of a frame
    pub,        \* publishAudio: at, left (subscribers to come), to (the current one)
    count,      \* frames a device has sent so far
    writer,     \* writeAudio: "idle", "writing", "ended"
    socket,     \* sockets: "open" or "closed"
    heard       \* history: the last frame of a device a browser was sent

audioVars == <<listens, queue, pub, count, writer, socket, heard>>

Frame == [device: Publisher, number: 1..MaxFrames]
Resting == [at |-> "idle", left |-> {}]

AudioInit ==
    /\ listens = [d \in Publisher |-> {}]
    /\ queue = [b \in Listener |-> <<>>]
    /\ pub = [d \in Publisher |-> Resting]
    /\ count = [d \in Publisher |-> 0]
    /\ writer = [b \in Listener |-> "idle"]
    /\ socket = [b \in Listener |-> "open"]
    /\ heard = [b \in Listener |-> [d \in Publisher |-> 0]]

\* The hub is locked for reading as long as somebody publishes.
Locked == \E d \in Publisher : pub[d].at # "idle"

Newest(d) == [device |-> d, number |-> count[d]]

Full(b) == Len(queue[b]) >= Capacity

-----------------------------------------------------------------------------
Subscribe(b, d) ==
    /\ ~Locked /\ socket[b] = "open"
    /\ listens' = [listens EXCEPT ![d] = @ \cup {b}]
    /\ UNCHANGED <<queue, pub, count, writer, socket, heard>>

Unsubscribe(b, d) ==
    /\ ~Locked /\ b \in listens[d]
    /\ listens' = [listens EXCEPT ![d] = @ \ {b}]
    /\ UNCHANGED <<queue, pub, count, writer, socket, heard>>

\* A valid frame arrives: publishAudio takes the read lock.
Publish(d) ==
    /\ pub[d].at = "idle" /\ count[d] < MaxFrames
    /\ count' = [count EXCEPT ![d] = @ + 1]
    /\ pub' = [pub EXCEPT ![d] = [at |-> "offer", left |-> listens[d]]]
    /\ UNCHANGED <<listens, queue, writer, socket, heard>>

PublishEnds(d) ==
    /\ pub[d].at = "offer" /\ pub[d].left = {}
    /\ pub' = [pub EXCEPT ![d] = Resting]
    /\ UNCHANGED <<listens, queue, count, writer, socket, heard>>

Queued(b, d) == Append(queue[b], Newest(d))

\* Done with browser b: on to the next.
Done(d, b) == [pub EXCEPT ![d] = [at |-> "offer", left |-> @.left \ {b}]]

Offer(d, b) ==
    /\ pub[d].at = "offer" /\ b \in pub[d].left
    /\ IF Full(b)
         THEN /\ pub' = [pub EXCEPT ![d] = [at |-> "drop", left |-> @.left, to |-> b]]
              /\ UNCHANGED queue
         ELSE /\ queue' = [queue EXCEPT ![b] = Queued(b, d)]
              /\ pub' = Done(d, b)
    /\ UNCHANGED <<listens, count, writer, socket, heard>>

\* Mutant: nothing makes room for the frame.
MutantWithoutOldest(b) == queue[b]

WithoutOldest(b) == IF queue[b] = <<>> THEN <<>> ELSE Tail(queue[b])

Drop(d) ==
    /\ pub[d].at = "drop"
    /\ queue' = [queue EXCEPT ![pub[d].to] = WithoutOldest(pub[d].to)]
    /\ pub' = [pub EXCEPT ![d].at = "again"]
    /\ UNCHANGED <<listens, count, writer, socket, heard>>

\* Mutant: the second send waits for room.
MutantAgain(d) ==
    LET b == pub[d].to IN
    /\ pub[d].at = "again" /\ ~Full(b)
    /\ queue' = [queue EXCEPT ![b] = Queued(b, d)]
    /\ pub' = Done(d, b)
    /\ UNCHANGED <<listens, count, writer, socket, heard>>

\* The second send: when others have filled the queue meanwhile, the frame is lost.
Again(d) ==
    LET b == pub[d].to IN
    /\ pub[d].at = "again"
    /\ queue' = IF Full(b) THEN queue ELSE [queue EXCEPT ![b] = Queued(b, d)]
    /\ pub' = Done(d, b)
    /\ UNCHANGED <<listens, count, writer, socket, heard>>

-----------------------------------------------------------------------------
(* writeAudio *)

Take(b) ==
    /\ writer[b] = "idle" /\ queue[b] # <<>>
    /\ writer' = [writer EXCEPT ![b] = "writing"]
    /\ queue' = [queue EXCEPT ![b] = Tail(@)]
    /\ heard' = [heard EXCEPT ![b][Head(queue[b]).device] = Head(queue[b]).number]
    /\ UNCHANGED <<listens, pub, count, socket>>

Written(b) ==
    /\ writer[b] = "writing" /\ socket[b] = "open"
    /\ writer' = [writer EXCEPT ![b] = "idle"]
    /\ UNCHANGED <<listens, queue, pub, count, socket, heard>>

\* 250 ms are over, or the socket is closed: the goroutine ends.
WriteFails(b) ==
    /\ writer[b] = "writing"
    /\ writer' = [writer EXCEPT ![b] = "ended"]
    /\ socket' = [socket EXCEPT ![b] = "closed"]
    /\ UNCHANGED <<listens, queue, pub, count, heard>>

\* The browser goes.
Close(b) ==
    /\ socket[b] = "open"
    /\ socket' = [socket EXCEPT ![b] = "closed"]
    /\ UNCHANGED <<listens, queue, pub, count, writer, heard>>

\* connectClient returns: removeAudioBrowser, and audioDone ends the goroutine.
Cleanup(b) ==
    /\ socket[b] = "closed" /\ ~Locked
    /\ listens' = [d \in Publisher |-> listens[d] \ {b}]
    /\ writer' = [writer EXCEPT ![b] = IF @ = "idle" THEN "ended" ELSE @]
    /\ UNCHANGED <<queue, pub, count, socket, heard>>

Publishing(d) == PublishEnds(d) \/ (\E b \in Listener : Offer(d, b)) \/ Drop(d) \/ Again(d)

AudioNext ==
    \/ \E d \in Publisher : Publish(d) \/ Publishing(d)
    \/ \E b \in Listener, d \in Publisher : Subscribe(b, d) \/ Unsubscribe(b, d)
    \/ \E b \in Listener : Take(b) \/ Written(b) \/ WriteFails(b) \/ Close(b) \/ Cleanup(b)

AudioSpec == AudioInit /\ [][AudioNext]_audioVars

-----------------------------------------------------------------------------
AudioTypeOK ==
    /\ \A d \in Publisher : listens[d] \subseteq Listener /\ pub[d].left \subseteq Listener
    /\ \A d \in Publisher : pub[d].at \in {"idle", "offer", "drop", "again"}
    /\ \A b \in Listener : queue[b] \in Seq(Frame) /\ Len(queue[b]) <= Capacity
    /\ count \in [Publisher -> 0..MaxFrames]
    /\ writer \in [Listener -> {"idle", "writing", "ended"}]
    /\ socket \in [Listener -> {"open", "closed"}]

\* However frames are dropped, and whoever publishes at the same time, a browser
\* hears the frames of a device in the order they were made, and
\* "Discard the oldest packet instead of accumulating audio delay": when a
\* publication is done with a listener, its frame is in the queue, behind the
\* others; what was dropped on the way was older.  Only a browser that listens to
\* two devices can lose a new frame: the other publication may fill the queue
\* between the drop and the second send.
NewestIsKeptInOrder ==
    [][\A d \in Publisher :
         /\ \A b \in Listener : heard'[b][d] >= heard[b][d]
         /\ \A b \in pub[d].left :
              b \notin pub'[d].left /\ (\A e \in Publisher \ {d} : b \notin listens[e]) =>
                queue'[b] # <<>> /\ queue'[b][Len(queue'[b])] = Newest(d)]_audioVars

\* "A slow listener must not block the Agent or other viewers": whatever the
\* queues hold and the browsers do, a publication can go on by itself, and it
\* has at most three more steps for a listener to take.
SlowListenerBlocksNobody ==
    \A d \in Publisher : pub[d].at # "idle" => ENABLED Publishing(d)

\* The queues keep their bound, and a full one stops nobody.
FanoutInv == AudioTypeOK /\ SlowListenerBlocksNobody
=============================================================================
