----------------------------- MODULE NostrSync -----------------------------
(***************************************************************************)
(* Synchronisation over Nostr relays: NostrTransport.ts with the Peer on   *)
(* either side, in one direction (the other is the same and apart).  The   *)
(* receiver publishes a CURSOR event that names a stream and says how far  *)
(* it is; the sender answers with CHANGES events of that stream, each      *)
(* naming the one before.  Relays keep the last CURSOR, and CHANGES until  *)
(* they expire.                                                            *)
(*                                                                         *)
(* The changes are those of the sender's own site, numbered by version, so *)
(* a cursor is a number.  PeerSync has the steps inside a Peer's callback. *)
(***************************************************************************)
EXTENDS Integers, SequencesExt, FiniteSetsExt

CONSTANTS
    MaxWrites,    \* versions the sender comes to have
    Rows,         \* rows syncPeer reads at a time (10000 in the code)
    EventSize,    \* changes that fit one event (200 kB in the code)
    MaxSend,      \* MAX_SEND_BUFFER_SIZE (10000 in the code)
    MaxStreams,   \* CURSOR events the receiver publishes
    MaxStops,     \* restarts of either side and reconnects, together
    MaxLosses     \* CHANGES events that relays drop

ASSUME NostrConstants ==
    /\ MaxWrites \in Nat /\ MaxStreams \in Nat /\ MaxStops \in Nat /\ MaxLosses \in Nat
    /\ Rows \in Nat \ {0} /\ EventSize \in Nat \ {0} /\ MaxSend \in Nat \ {0}

VARIABLES
    \* the sender
    written,    \* versions 1 .. written are in its history (durable)
    saved,      \* the stored send cursor (durable)
    send,       \* PeerSend.sendCursor
    peer,       \* Peer's PeerInfo of the receiver
    calls,      \* Peer's queue: what it has to run, the head running
    resync,     \* PeerSend.onSync waits for the publishing loop
    queue,      \* PeerSend.pending
    count,      \* PeerSend.pendingCount
    blocked,    \* waitCanSendPromise is set
    batches,    \* what publishPending has split off and not published
    signed,     \* the event it is publishing
    \* the relays
    cursorEvent, events, lost, lastId,
    \* the receiver
    have,       \* versions in its tables (durable)
    known,      \* its Peer's cursor (durable, PeerSync)
    stored,     \* the stored recv cursor (durable)
    recv,       \* PeerRecv.recvCursor
    buffer,     \* PeerRecv.buffer
    applied,    \* the event its Peer has applied and PeerRecv not noted
    phase,      \* of PeerRecv: "off", "subscribing", "live"
    stops,
    \* history
    overtaken,  \* a broadcast went out beside a syncPeer of the same stream
    cutShort,   \* the sender stopped before it had noted a publication
    abandoned,  \* changes were dropped without being taken off pendingCount
    suspect,    \* the receiver's stream has lost an event or its chain forked
    covered     \* covered[n]: how far event n and those before it reach

senderVars == <<written, saved, send, peer, calls, resync, queue, count, blocked, batches, signed>>
relayVars == <<cursorEvent, events, lost, lastId>>
receiverVars == <<have, known, stored, recv, buffer, applied, phase>>
ghostVars == <<overtaken, cutShort, abandoned, suspect, covered>>
vars == <<senderVars, relayVars, receiverVars, stops, ghostVars>>

NoStream == [stream |-> 0, cur |-> 0, last |-> 0]
NoEvent == [id |-> 0, stream |-> 0, prev |-> 0, data |-> <<>>]

NoSync == [step |-> "off", cancel |-> FALSE, from |-> 0, offset |-> 0, rows |-> <<>>]
NewPeer == [stream |-> 0, cur |-> 0, active |-> FALSE, pending |-> <<>>, sync |-> NoSync]

Upto(cur, data) == Max({cur} \cup Range(data))
IsIdle == calls = <<>>
Publishing == batches # <<>> \/ signed # NoEvent

Init ==
    /\ written = 0 /\ saved = NoStream /\ send = NoStream /\ peer = NewPeer
    /\ calls = <<>> /\ resync = FALSE /\ queue = <<>> /\ count = 0 /\ blocked = FALSE
    /\ batches = <<>> /\ signed = NoEvent
    /\ cursorEvent = NoStream /\ events = {} /\ lost = 0 /\ lastId = 0
    /\ have = {} /\ known = 0 /\ stored = NoStream /\ recv = NoStream
    /\ buffer = {} /\ applied = NoEvent /\ phase = "off"
    /\ stops = 0
    /\ overtaken = FALSE /\ cutShort = FALSE /\ abandoned = FALSE /\ suspect = FALSE
    /\ covered = <<>>

-----------------------------------------------------------------------------
\* The cursor Peer keeps for the receiver is the very object PeerSend stores:
\* onSync passes send_cursor and Peer assigns it (Peer.ts 209).
Aliased == peer.stream = send.stream

\* PeerSend.send and schedule (1037-1087): a send for another stream is
\* ignored.
Scheduled(data) ==
    IF peer.stream = send.stream
    THEN /\ queue' = queue \o data
         /\ count' = count + Len(data)
         /\ blocked' = (blocked \/ count + Len(data) >= MaxSend)
    ELSE UNCHANGED <<queue, count, blocked>>

\* updatePeerCursor: through the alias it is PeerSend's cursor that moves.
Told(data, p) ==
    IF Aliased
    THEN /\ send' = [send EXCEPT !.cur = Upto(@, data)]
         /\ peer' = p
    ELSE /\ peer' = [p EXCEPT !.cur = Upto(@, data)]
         /\ UNCHANGED send

\* A local transaction is logged and broadcast: with the pending changes while
\* the receiver is not active, else as a call that waits for waitCanSend.
Write ==
    /\ IsIdle
    /\ written < MaxWrites
    /\ written' = written + 1
    /\ IF peer.active
       THEN /\ calls' = <<[type |-> "send", stream |-> 0, cur |-> written + 1]>>
            /\ UNCHANGED peer
       ELSE /\ peer' = [peer EXCEPT !.pending = Append(@, written + 1)]
            /\ UNCHANGED calls
    /\ UNCHANGED <<saved, send, resync, queue, count, blocked, batches, signed,
                   relayVars, receiverVars, stops, ghostVars>>

\* The end of broadcastChanges (Peer.ts 763-764).
BroadcastSend ==
    LET data == IF Head(calls).cur >= (IF Aliased THEN send.cur ELSE peer.cur)
                THEN <<Head(calls).cur>> ELSE <<>>
    IN
    /\ ~IsIdle /\ Head(calls).type = "send"
    /\ ~blocked
    /\ Scheduled(data)
    /\ calls' = Tail(calls)
    /\ overtaken' = (overtaken \/ (Aliased /\ peer.sync.step # "off"))
    /\ UNCHANGED <<written, saved, send, peer, resync, batches, signed,
                   relayVars, receiverVars, stops, cutShort, abandoned, suspect, covered>>

\* Peer.onSync (185-221): cancel a syncPeer that runs, wait for it, start over.
CancelSync ==
    /\ ~IsIdle /\ Head(calls).type = "sync"
    /\ peer.sync.step # "off" /\ ~peer.sync.cancel
    /\ peer' = [peer EXCEPT !.sync.cancel = TRUE]
    /\ UNCHANGED <<written, saved, send, calls, resync, queue, count, blocked, batches, signed,
                   relayVars, receiverVars, stops, ghostVars>>

OnSync ==
    LET c == Head(calls) IN
    /\ ~IsIdle /\ c.type = "sync"
    /\ peer.sync.step = "off"
    /\ calls' = Tail(calls)
    /\ peer' = [peer EXCEPT !.stream = c.stream, !.cur = c.cur,
                            !.sync = [NoSync EXCEPT !.step = "read", !.from = c.cur]]
    /\ UNCHANGED <<written, saved, send, resync, queue, count, blocked, batches, signed,
                   relayVars, receiverVars, stops, ghostVars>>

\* syncPeer (819-891): read some rows, wait for waitCanSend, send them; at
\* the end, or when cancelled, send what is pending and make the peer active.
SyncRead ==
    LET s == peer.sync
        n == Min({Rows, written - (s.from + s.offset)})
    IN
    /\ s.step = "read"
    /\ peer' = IF s.cancel \/ n <= 0
               THEN [peer EXCEPT !.sync.step = "drain"]
               ELSE [peer EXCEPT !.sync.step = "send",
                                 !.sync.rows = [i \in 1 .. n |-> s.from + s.offset + i]]
    /\ UNCHANGED <<written, saved, send, calls, resync, queue, count, blocked, batches, signed,
                   relayVars, receiverVars, stops, ghostVars>>

SyncSend ==
    LET s == peer.sync IN
    /\ s.step = "send"
    /\ ~blocked
    /\ Scheduled(s.rows)
    /\ Told(s.rows, [peer EXCEPT !.sync.rows = <<>>, !.sync.offset = @ + Rows,
                                 !.sync.step = IF Len(s.rows) < Rows THEN "drain" ELSE "read"])
    /\ UNCHANGED <<written, saved, calls, resync, batches, signed,
                   relayVars, receiverVars, stops, ghostVars>>

\* Fault: what is pending when the rows have all been sent is dropped.
SyncDrain_DropsPending ==
    /\ peer.sync.step = "drain"
    /\ Scheduled(<<>>)
    /\ Told(<<>>, [peer EXCEPT !.pending = <<>>, !.active = TRUE, !.sync = NoSync])
    /\ UNCHANGED <<written, saved, calls, resync, batches, signed,
                   relayVars, receiverVars, stops, ghostVars>>

SyncDrain ==
    /\ peer.sync.step = "drain"
    /\ peer.pending # <<>> => ~blocked
    /\ Scheduled(peer.pending)
    /\ Told(peer.pending, [peer EXCEPT !.pending = <<>>, !.active = TRUE, !.sync = NoSync])
    /\ UNCHANGED <<written, saved, calls, resync, batches, signed,
                   relayVars, receiverVars, stops, ghostVars>>

-----------------------------------------------------------------------------
\* A CURSOR event reaches the sender (handleCursorEvent, 927-940, 967-1035):
\* a stream it does not serve yet replaces the one it serves.
OnCursor ==
    /\ cursorEvent.stream # 0
    /\ cursorEvent.stream # send.stream
    /\ send' = cursorEvent
    /\ peer' = IF Aliased THEN [peer EXCEPT !.cur = send.cur] ELSE peer
    /\ resync' = TRUE
    /\ UNCHANGED <<written, saved, calls, queue, count, blocked, batches, signed,
                   relayVars, receiverVars, stops, ghostVars>>

\* PeerSend.onSync (950-965): when the publishing loop has ended, forget what
\* is queued and have Peer start over.
CallSync ==
    /\ resync
    /\ ~Publishing
    /\ resync' = FALSE
    /\ queue' = <<>>
    /\ abandoned' = (abandoned \/ queue # <<>>)
    /\ calls' = Append(calls, [type |-> "sync", stream |-> send.stream, cur |-> send.cur])
    /\ UNCHANGED <<written, saved, send, peer, count, blocked, batches, signed,
                   relayVars, receiverVars, stops, overtaken, cutShort, suspect, covered>>

\* splitPendingToBatches (1089-1138): in the order of their versions, the i-th
\* being the least that i of them do not exceed.
Sorted(data) ==
    [i \in DOMAIN data |->
        Min({v \in Range(data) : Cardinality({j \in DOMAIN data : data[j] <= v}) >= i})]

Split(data) ==
    [i \in 1 .. (Len(data) + EventSize - 1) \div EventSize |->
        SubSeq(Sorted(data), (i - 1) * EventSize + 1, Min({i * EventSize, Len(data)}))]

\* publishPending (1140-1149), when its timer fires.
PublishPending ==
    /\ queue # <<>> /\ ~Publishing /\ send # NoStream
    /\ batches' = Split(queue)
    /\ queue' = <<>>
    /\ UNCHANGED <<written, saved, send, peer, calls, resync, count, blocked, signed,
                   relayVars, receiverVars, stops, ghostVars>>

\* How far the current stream reaches with its event `last' (0: without any).
Reached(last) == IF last = 0 THEN cursorEvent.cur ELSE covered[last]

\* publish (1191-1267): sign an event that names the one before, and hand the
\* same signed event to the relays until one takes it.
Publish ==
    LET e == [id |-> lastId + 1, stream |-> send.stream, prev |-> send.last,
              data |-> Head(batches)]
    IN
    /\ batches # <<>> /\ signed = NoEvent /\ ~resync
    /\ lastId' = lastId + 1
    /\ signed' = e
    /\ batches' = Tail(batches)
    /\ events' = events \cup {e}
    /\ suspect' = (suspect \/ (/\ e.stream = cursorEvent.stream
                               /\ \E f \in events : f.stream = e.stream /\ f.prev = e.prev))
    /\ covered' = Append(covered, Upto(Reached(e.prev), e.data))
    /\ UNCHANGED <<written, saved, send, peer, calls, resync, queue, count, blocked,
                   cursorEvent, lost, receiverVars, stops, overtaken, cutShort, abandoned>>

\* Fault: senders that wait are let go on when the count is at its limit anew.
Published_NotifiesAtLimit ==
    LET left == count - Len(signed.data)
        now == [send EXCEPT !.cur = Upto(@, signed.data), !.last = signed.id]
    IN
    /\ signed # NoEvent
    /\ IF signed.stream = send.stream THEN send' = now /\ saved' = now
       ELSE UNCHANGED <<send, saved>>
    /\ count' = left
    /\ blocked' = (blocked /\ left # MaxSend)
    /\ signed' = NoEvent
    /\ UNCHANGED <<written, peer, calls, resync, queue, batches,
                   relayVars, receiverVars, stops, ghostVars>>

\* Fault: the id of the published event is not kept for the next one.
Published_KeepsLast ==
    LET left == count - Len(signed.data)
        now == [send EXCEPT !.cur = Upto(@, signed.data)]
    IN
    /\ signed # NoEvent
    /\ IF signed.stream = send.stream THEN send' = now /\ saved' = now
       ELSE UNCHANGED <<send, saved>>
    /\ count' = left
    /\ blocked' = (blocked /\ left >= MaxSend)
    /\ signed' = NoEvent
    /\ UNCHANGED <<written, peer, calls, resync, queue, batches,
                   relayVars, receiverVars, stops, ghostVars>>

\* publish (1282-1291) and publishPending (1161-1176): advance and store the
\* cursor of the stream, and let waiting senders go on.
Published ==
    LET left == count - Len(signed.data)
        now == [send EXCEPT !.cur = Upto(@, signed.data), !.last = signed.id]
    IN
    /\ signed # NoEvent
    /\ IF signed.stream = send.stream
       THEN send' = now /\ saved' = now
       ELSE UNCHANGED <<send, saved>>
    /\ count' = left
    /\ blocked' = (blocked /\ left >= MaxSend)
    /\ signed' = NoEvent
    /\ UNCHANGED <<written, peer, calls, resync, queue, batches,
                   relayVars, receiverVars, stops, ghostVars>>

\* publishPending (1152): the loop ends when the stream was replaced.
Abandon ==
    /\ resync /\ signed = NoEvent /\ batches # <<>>
    /\ batches' = <<>>
    /\ abandoned' = TRUE
    /\ UNCHANGED <<written, saved, send, peer, calls, resync, queue, count, blocked, signed,
                   relayVars, receiverVars, stops, overtaken, cutShort, suspect, covered>>

\* The sender stops and starts again: updatePeers and PeerSend.start (144-188,
\* 866-872), which resumes the stored stream.
RestartSender ==
    /\ stops < MaxStops
    /\ stops' = stops + 1
    /\ send' = saved
    /\ peer' = NewPeer
    /\ calls' = <<>>
    /\ resync' = (saved # NoStream)
    /\ queue' = <<>> /\ count' = 0 /\ blocked' = FALSE /\ batches' = <<>> /\ signed' = NoEvent
    /\ cutShort' = (cutShort \/ (saved.stream = send.stream /\ (queue # <<>> \/ Publishing)))
    /\ UNCHANGED <<written, saved, relayVars, receiverVars, overtaken, abandoned, suspect, covered>>

-----------------------------------------------------------------------------
\* A relay drops a CHANGES event, before its expiration or after.
Lose ==
    /\ lost < MaxLosses
    /\ lost' = lost + 1
    /\ \E e \in events :
        /\ events' = events \ {e}
        /\ suspect' = (suspect \/ e.stream = cursorEvent.stream)
    /\ UNCHANGED <<senderVars, cursorEvent, lastId, receiverVars, stops, overtaken, cutShort, abandoned, covered>>

\* resync (696-773): a new stream from where the receiver is.
Resync ==
    LET c == [stream |-> cursorEvent.stream + 1, cur |-> known, last |-> 0] IN
    /\ cursorEvent.stream < MaxStreams
    /\ cursorEvent' = c
    /\ recv' = c
    /\ stored' = c
    /\ phase' = "subscribing"
    /\ buffer' = {}
    /\ suspect' = FALSE
    /\ UNCHANGED <<events, lost, lastId>>

\* sync (289-325): resume the stored stream, or ask for a new one.  The CURSOR
\* event is replaceable, so once published it stays on the relays.
Start ==
    /\ phase = "off"
    /\ IF stored = NoStream \/ known < stored.cur
       THEN Resync
       ELSE /\ recv' = stored /\ phase' = "subscribing"
            /\ UNCHANGED <<stored, buffer, relayVars, suspect>>
    /\ UNCHANGED <<senderVars, have, known, applied, stops, overtaken, cutShort, abandoned, covered>>

\* Fault: an event is taken without regard to the one before it.
Follows_AnyOfStream(e) == e.stream = recv.stream /\ e.id > recv.last

\* fetch (348-414): the stored events from the one that follows the last
\* event received, or all when none was received yet.
Follows(e) == e.stream = recv.stream /\ e.prev = recv.last
Stored ==
    LET first == {e \in events : Follows(e)} IN
    IF recv.last = 0 THEN {e \in events : e.stream = recv.stream}
    ELSE {e \in events : e.stream = recv.stream /\ \E f \in first : f.id <= e.id}

\* The buffer has one event for every predecessor, the last one put in.
Buffered(set) == {e \in set : \A f \in set : f.prev = e.prev => f.id <= e.id}

\* subscribe (416-483): without the event that follows the last one the
\* stream is taken for broken.
Subscribe ==
    /\ phase = "subscribing" /\ applied = NoEvent
    /\ IF recv.last # 0 /\ Stored = {}
       THEN Resync
       ELSE /\ buffer' = Buffered(Stored)
            /\ phase' = "live"
            /\ UNCHANGED <<stored, recv, relayVars, suspect>>
    /\ UNCHANGED <<senderVars, have, known, applied, stops, overtaken, cutShort, abandoned, covered>>

\* handleChangesEvent (541-610): an event of the stream arrives, in any order.
OnChanges ==
    /\ phase = "live"
    /\ \E e \in events :
        /\ e.stream = recv.stream /\ e.id > recv.last /\ e \notin buffer
        /\ \A f \in buffer : f.prev = e.prev => f.id < e.id
        /\ buffer' = {f \in buffer : f.prev # e.prev} \cup {e}
    /\ UNCHANGED <<senderVars, relayVars, have, known, stored, recv, applied, phase, stops, ghostVars>>

\* processBuffer and processMessage (500-514, 612-631): Peer applies what its
\* cursor does not filter away.
Apply ==
    \E e \in buffer :
        /\ phase = "live" /\ applied = NoEvent
        /\ Follows(e)
        /\ have' = have \cup {v \in Range(e.data) : v >= known}
        /\ known' = Upto(known, e.data)
        /\ buffer' = buffer \ {e}
        /\ applied' = e
        /\ UNCHANGED <<senderVars, relayVars, stored, recv, phase, stops, ghostVars>>

\* processMessage (634-641): advance and store the recv cursor.
Note ==
    LET c == [recv EXCEPT !.cur = Upto(@, applied.data), !.last = applied.id] IN
    /\ applied # NoEvent
    /\ recv' = c /\ stored' = c
    /\ applied' = NoEvent
    /\ UNCHANGED <<senderVars, relayVars, have, known, buffer, phase, stops, ghostVars>>

\* reconnect (271-287): when a relay closed the subscription or the page was
\* resumed.
Reconnect ==
    /\ phase = "live" /\ applied = NoEvent
    /\ stops < MaxStops
    /\ stops' = stops + 1
    /\ phase' = "subscribing"
    /\ UNCHANGED <<senderVars, relayVars, have, known, stored, recv, buffer, applied, ghostVars>>

RestartReceiver ==
    /\ stops < MaxStops
    /\ stops' = stops + 1
    /\ phase' = "off" /\ buffer' = {} /\ applied' = NoEvent /\ recv' = NoStream
    /\ UNCHANGED <<senderVars, relayVars, have, known, stored, ghostVars>>

-----------------------------------------------------------------------------
Next ==
    \/ Write \/ BroadcastSend \/ CancelSync \/ OnSync \/ SyncRead \/ SyncSend \/ SyncDrain
    \/ OnCursor \/ CallSync \/ PublishPending \/ Publish \/ Published \/ Abandon
    \/ Start \/ Subscribe \/ OnChanges \/ Apply \/ Note \/ Reconnect
    \/ Lose \/ RestartSender \/ RestartReceiver

Spec == Init /\ [][Next]_vars

-----------------------------------------------------------------------------
Versions == 1 .. MaxWrites
Streams == [stream : Nat, cur : 0 .. MaxWrites, last : Nat]
Events == [id : Nat \ {0}, stream : Nat, prev : Nat, data : Seq(Versions)]
Calls == [type : {"send", "sync"}, stream : Nat, cur : 0 .. MaxWrites]
Syncs == [step : {"off", "read", "send", "drain"}, cancel : BOOLEAN,
          from : 0 .. MaxWrites, offset : Nat, rows : Seq(Versions)]
PeerInfos == [stream : Nat, cur : 0 .. MaxWrites, active : BOOLEAN,
              pending : Seq(Versions), sync : Syncs]
InHand == {signed, applied} \ {NoEvent}
AnyEvent == events \cup buffer \cup InHand

InFlight == Range(queue) \cup UNION {Range(b) : b \in Range(batches)}

SenderTypeOK ==
    /\ written \in 0 .. MaxWrites /\ peer \in PeerInfos
    /\ calls \in Seq(Calls) /\ \A i \in DOMAIN calls : calls[i].cur <= written
    /\ queue \in Seq(Versions) /\ batches \in Seq(Seq(Versions))
    /\ \A v \in InFlight : v <= written
    /\ count \in Nat /\ blocked \in BOOLEAN /\ resync \in BOOLEAN

ReceiverTypeOK ==
    /\ known \in 0 .. written /\ have \subseteq 1 .. written
    /\ {send, saved, cursorEvent, stored, recv} \subseteq Streams
    /\ \A c \in {send, saved, cursorEvent, stored, recv} : c.cur <= written /\ c.last <= lastId
    /\ phase \in {"off", "subscribing", "live"}

EventTypeOK ==
    /\ AnyEvent \subseteq Events /\ \A e \in AnyEvent : \A v \in Range(e.data) : v <= written
    /\ lost \in Nat /\ stops \in Nat /\ lastId \in Nat
    /\ covered \in [1 .. lastId -> 0 .. MaxWrites]
    /\ {overtaken, cutShort, abandoned, suspect} \subseteq BOOLEAN

\* The state stays within its types, and whatever is on its way was written.
NostrTypeOK == SenderTypeOK /\ ReceiverTypeOK /\ EventTypeOK

\* The receiver lacks nothing its cursor covers, whatever is lost, restarted or
\* resumed on the way, but for two races of the sender: a local change that is
\* broadcast while a second syncPeer of the same stream runs, since onSync
\* leaves the peer active (Peer.ts 185-221, 752-764), and a stop between
\* handing changes over, which moves the stored cursor object, and noting
\* their publication (NostrTransport.ts 1282-1291).
NoHole == ~overtaken /\ ~cutShort => 1 .. known \subseteq have

\* Back-pressure ends: whoever waits for waitCanSend waits for something that
\* is queued or being published.  Changes that are dropped for a new stream
\* stay counted (957, 1152), after which this no longer holds.
BlockedHasWork == blocked /\ ~abandoned => queue # <<>> \/ Publishing

\* Two events of a stream name the same predecessor only after the sender
\* stopped between publishing one and storing its id.
ChainForksOnlyByRestart ==
    \A e, f \in events : e.stream = f.stream /\ e.prev = f.prev /\ e # f => stops > 0

\* The stored recv cursor is never ahead of what Peer has applied, so that a
\* restart resumes behind, not after, what was lost in memory (634-641).
StoredIsApplied == stored.cur <= known

\* When nothing is left to do the receiver has caught up with the sender, also
\* after restarts and after losses that made it ask for a new stream.  A loss
\* it has not noticed (fetch, 342-414, and only when it reconnects) stays.
AtRest ==
    /\ IsIdle /\ peer.sync.step = "off" /\ ~resync /\ queue = <<>> /\ ~Publishing
    /\ send.stream = cursorEvent.stream /\ cursorEvent.stream # 0
    /\ recv.stream = cursorEvent.stream
    /\ phase = "live" /\ applied = NoEvent /\ ~suspect
    /\ \A e \in events : ~Follows(e)
RestIsCaughtUp ==
    AtRest /\ ~cutShort => known = written

-----------------------------------------------------------------------------
(* What the steps rely on.                                                 *)

\* Streams are served in the order the receiver asked for them, and what Peer
\* has still to do is for later streams than what it does.
StreamsAreInOrder ==
    /\ saved.stream <= send.stream /\ send.stream <= cursorEvent.stream
    /\ saved.stream = send.stream => saved.last = send.last /\ saved.cur <= send.cur
    /\ \A c \in {send, saved, cursorEvent} : c.stream = 0 => c = NoStream
    /\ cursorEvent.last = 0 /\ cursorEvent.cur <= known /\ cursorEvent.stream <= MaxStreams
    /\ Publishing => send.stream # 0
    /\ peer.stream <= send.stream /\ (resync => peer.stream < send.stream)
    /\ \A e \in AnyEvent : e.stream <= cursorEvent.stream /\ e.id <= lastId /\ e.prev < e.id
    /\ signed # NoEvent =>
        /\ signed.stream <= send.stream /\ (resync => signed.stream < send.stream)
        /\ signed.stream = send.stream => signed.prev = send.last
    /\ send.stream # 0 =>
        \/ resync \/ peer.stream = send.stream
        \/ \E i \in DOMAIN calls : calls[i].type = "sync" /\ calls[i].stream = send.stream

\* What the receiver holds in memory is of the stream it has stored.
ReceiverFollowsOneStream ==
    /\ stored.stream = cursorEvent.stream /\ (stored.stream = 0 => stored = NoStream)
    /\ phase # "off" => recv = stored /\ stored.stream # 0
    /\ phase = "off" => buffer = {}
    /\ applied # NoEvent => phase = "live" /\ Follows(applied)
    /\ \A e \in buffer : e.stream = recv.stream

\* Peer's queue has one broadcast at most, before any other call, and its calls
\* of onSync are in the order of their streams.
CallsAreInOrder ==
    /\ \A i \in DOMAIN calls :
        \/ /\ calls[i].type = "send" /\ i = 1 /\ peer.active
           /\ calls[i].cur = written /\ 0 < written
        \/ /\ calls[i].type = "sync" /\ peer.stream < calls[i].stream
           /\ calls[i].stream <= send.stream
           /\ resync => calls[i].stream < send.stream
           /\ \A j \in 1 .. i - 1 : calls[j].type = "sync" => calls[j].stream < calls[i].stream

\* Pending are the last changes written, and none when the receiver is sent
\* them directly; a syncPeer that is cancelled is one for an earlier stream.
PeerIsConsistent ==
    LET s == peer.sync IN
    /\ peer.active => peer.pending = <<>>
    /\ \A i \in DOMAIN peer.pending : peer.pending[i] = written - Len(peer.pending) + i
    /\ Len(peer.pending) <= written
    /\ s.step = "send" =>
        /\ Len(s.rows) \in 1 .. Rows /\ s.from + s.offset + Len(s.rows) <= written
        /\ \A i \in DOMAIN s.rows : s.rows[i] = s.from + s.offset + i
    /\ s.step # "off" /\ s.cancel => peer.stream < send.stream
    /\ peer.stream # 0 => peer.active \/ s.step # "off"
    /\ peer.stream = 0 => ~peer.active /\ s.step = "off"

\* pendingCount is the number of changes that wait or are being published,
\* or more once some were abandoned.
InBatches ==
    IF batches = <<>> THEN 0
    ELSE (Len(batches) - 1) * EventSize + Len(batches[Len(batches)])
Waiting == Len(queue) + Len(signed.data) + InBatches
CountIsRight ==
    /\ \A i \in 1 .. Len(batches) - 1 : Len(batches[i]) = EventSize
    /\ count >= Waiting /\ (~abandoned => count = Waiting)
    /\ blocked => count >= MaxSend

\* How far the stream reaches that is served, with what is on its way.
Sent == IF signed # NoEvent /\ signed.stream = send.stream THEN covered[signed.id]
        ELSE Reached(send.last)
OnItsWay == {Sent} \cup (IF resync THEN {} ELSE InFlight)
Reaches(n) == \E v \in OnItsWay : n <= v
Serving == send.stream = cursorEvent.stream /\ cursorEvent.stream # 0 /\ ~cutShort
Unsent == IF peer.active THEN Len(calls) ELSE Len(peer.pending)

\* Peer hands over all that was written, but for what is pending or called.
AllIsHandedOver ==
    LET s == peer.sync IN
    Serving =>
        /\ Reaches(send.cur)
        /\ \A i \in DOMAIN calls :
            calls[i].type = "sync" /\ calls[i].stream = send.stream => Reaches(calls[i].cur)
        /\ peer.stream = send.stream =>
            /\ s.step \in {"read", "send"} => Reaches(s.from + s.offset)
            /\ s.step = "send" /\ Len(s.rows) < Rows =>
                s.from + s.offset + Len(s.rows) >= written - Unsent \/ Reaches(written - Unsent)
            /\ s.step \in {"off", "drain"} => Reaches(written - Unsent)

\* What is on its way skips no version, nor does an event of the stream.
NothingIsSkipped ==
    /\ Serving /\ ~resync /\ ~overtaken =>
        /\ \A i \in DOMAIN batches : \A v \in Range(batches[i]) :
            \A u \in Sent + 1 .. v : \E j \in 1 .. i : u \in Range(batches[j])
        /\ \A v \in Range(queue) : Sent + 1 .. v \subseteq InFlight
    /\ \A e \in AnyEvent : e.stream = cursorEvent.stream =>
        /\ covered[e.id] = Upto(Reached(e.prev), e.data)
        /\ ~overtaken /\ ~cutShort =>
            \A v \in Range(e.data) : Reached(e.prev) + 1 .. v \subseteq Range(e.data)
    /\ Reached(stored.last) <= stored.cur
    /\ \A v \in Range(applied.data) : v <= known

\* As long as no event is lost and the chain does not fork, every event of the
\* stream but its last is followed by another.
Current == {e \in events : e.stream = cursorEvent.stream}
LastOf == IF signed # NoEvent /\ signed.stream = send.stream THEN signed.id ELSE send.last
ChainIsWhole ==
    ~suspect =>
        /\ stored.last = 0 \/ \E e \in Current : e.id = stored.last
        /\ buffer \subseteq events /\ (applied # NoEvent => applied \in events)
        /\ Current # {} \/ (send.stream = cursorEvent.stream /\ LastOf # 0) =>
            \E e \in Current : e.prev = 0
        /\ Serving /\ LastOf # 0 =>
            \A n \in {0} \cup {e.id : e \in Current} :
                n # LastOf => \E f \in Current : f.prev = n

\* Before anything stopped: an event is the last of its stream or followed.
FirstLife ==
    stops = 0 => \A e \in events :
        /\ e.stream <= send.stream
        /\ e.stream = send.stream /\ e # signed => e.id <= send.last

\* The state stays within its types, the stored recv cursor is behind, the
\* events of a stream are a chain, and what the steps rely on holds.
NostrInv ==
    /\ NostrTypeOK /\ StoredIsApplied /\ ChainForksOnlyByRestart
    /\ StreamsAreInOrder /\ ReceiverFollowsOneStream /\ CallsAreInOrder /\ PeerIsConsistent
    /\ CountIsRight /\ AllIsHandedOver /\ NothingIsSkipped /\ ChainIsWhole /\ FirstLife
=============================================================================
