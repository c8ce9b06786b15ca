------------------------------ MODULE PeerSync ------------------------------
(***************************************************************************)
(* Database synchronisation: Peer.ts of packages/sync, run by a server and *)
(* its clients over HTTP (TransportServerFastify, TransportClientHttp).    *)
(* Every peer holds a replica.  A change is a transaction of one site; the *)
(* cursor of a peer says how far it knows every site.  The callbacks of a  *)
(* Peer run one at a time (queued); syncPeer runs beside them.             *)
(*                                                                         *)
(* A message from client to server is a POST, from server to client an    *)
(* event of the client's stream.  Messages of a connection arrive in order *)
(* or, when the connection breaks, a tail of them never does.  The changes *)
(* of a message are a set: they are applied in one transaction.            *)
(***************************************************************************)
EXTENDS Integers, SequencesExt, FiniteSetsExt

CONSTANTS
    Clients,     \* the clients' site ids, numbers above 0
    Initial,     \* Initial[p]: own transactions p has published before
    Writes,      \* Writes[p]: own transactions p comes to have
    BatchLimit,  \* rows syncPeer reads at a time (10000 in the code)
    Fragile,     \* the peers that may stop and whose connection may break
    MaxBreaks    \* connections that break and peers that stop, together

Server == 0
Peers == Clients \cup {Server}

ASSUME PeerConstants ==
    /\ Clients \subseteq Nat \ {0} /\ IsFiniteSet(Clients)
    /\ Initial \in [Peers -> Nat]
    /\ Writes \in [Peers -> Nat]
    /\ \A p \in Peers : Initial[p] <= Writes[p]
    /\ BatchLimit \in Nat \ {0}
    /\ Fragile \subseteq Peers
    /\ MaxBreaks \in Nat

VARIABLES
    data,        \* data[p]: the changes in p's tables (durable)
    hist,        \* hist[p]: p's crsql_change_history (durable)
    saved,       \* saved[p]: p's all_peers table (durable)
    cursor,      \* cursor[p]: the cursor p's Peer works with
    job,         \* job[p]: what the callback that p's queue runs has left to do
    info,        \* info[p][q]: p's PeerInfo of q
    strays,      \* strays[p][q]: the PeerInfos a running syncPeer has, since replaced
    inbox,       \* inbox[p][q]: what q sent to p and p has not handled
    open,        \* open[p][q]: p's transport knows a way to q
    epoch,       \* epoch[c]: connections c has made
    breaks,      \* connections broken and peers stopped so far
    \* history
    strayed,     \* some data went out on a connection younger than the
                 \* exchange it belongs to
    overlooked,  \* the history grew where a running syncPeer had passed by
    guessed      \* a peer started with a cursor that lacks sites of its history

durable == <<data, hist, saved>>
memory == <<cursor, job, info, strays>>
net == <<inbox, open, epoch, breaks>>
ghosts == <<strayed, overlooked, guessed>>
vars == <<durable, memory, net, ghosts>>

Neighbours(p) == IF p = Server THEN Clients ELSE {Server}
Link(p, q) == IF p = Server THEN q ELSE p

Changes == UNION {{[site |-> p, version |-> v] : v \in 1 .. Writes[p]} : p \in Peers}
Cursors == [Peers -> Nat]
NoCursor == [p \in Peers |-> 0]

-----------------------------------------------------------------------------
\* Cursors and changes (Peer.ts 939-953).

Advance(cur, changes) ==
    [s \in Peers |-> Max({cur[s]} \cup {c.version : c \in {d \in changes : d.site = s}})]

\* Fault: the first transaction after the cursor is taken for known.
Fresh_SkipsOne(changes, cur) == {c \in changes : c.version > cur[c.site] + 1}

Fresh(changes, cur) == {c \in changes : c.version >= cur[c.site]}

\* The rows of the history a cursor lacks, of the sites in question; the place
\* of a row among them in the order of the query.
RowsOf(changes, sites, from) == {c \in changes : c.site \in sites /\ c.version > from[c.site]}
Rows(p, sites, from) == RowsOf(hist[p], sites, from)

UpTo(c, rows) ==
    {d \in rows : d.site < c.site \/ (d.site = c.site /\ d.version <= c.version)}
Place(c, rows) == Cardinality(UpTo(c, rows))

\* readCursor (520-564): all_peers, or, when it is empty, the one row that the
\* query on the history yields, the newest transaction with its site.
ReadCursor(p) ==
    IF saved[p] # NoCursor \/ hist[p] = {} THEN saved[p]
    ELSE LET c == CHOOSE c \in hist[p] : \A d \in hist[p] : d.version <= c.version
         IN [NoCursor EXCEPT ![c.site] = c.version]

\* The query groups nothing: of a history of several sites that one row names
\* one, and changes of the others the peer has are beyond its cursor.
Guesses(p) ==
    saved[p] = NoCursor /\ \E c \in hist[p] : c.version > ReadCursor(p)[c.site]

\* Own changes of the tables the cursor does not cover yet.
LocalChanges(p) ==
    {c \in data[p] : c.site = p /\ c.version > cursor[p][p]}

NoSync == [on |-> FALSE, cancel |-> FALSE, sites |-> {}, from |-> NoCursor, offset |-> 0]
NoInfo == [known |-> FALSE, epoch |-> 0, cursor |-> NoCursor, active |-> FALSE,
           pending |-> {}, sync |-> NoSync]

NewInfo(e) == [NoInfo EXCEPT !.known = TRUE, !.epoch = e]

Idle == [step |-> "idle", changes |-> {}, peer |-> Server]
Data(changes) == [type |-> "data", changes |-> changes, cursor |-> NoCursor, epoch |-> 0]
SyncFrom(cur) == [type |-> "sync", changes |-> {}, cursor |-> cur, epoch |-> 0]
Connect(e) == [type |-> "connect", changes |-> {}, cursor |-> NoCursor, epoch |-> e]
Close == [type |-> "close", changes |-> {}, cursor |-> NoCursor, epoch |-> 0]

NonEmpty(changes) == IF changes = {} THEN <<>> ELSE <<Data(changes)>>

-----------------------------------------------------------------------------
Init ==
    /\ data = [p \in Peers |-> {[site |-> p, version |-> v] : v \in 1 .. Initial[p]}]
    /\ hist = data
    /\ saved = [p \in Peers |-> [NoCursor EXCEPT ![p] = Initial[p]]]
    /\ cursor = saved
    /\ job = [p \in Peers |-> Idle]
    /\ info = [p \in Peers |-> [q \in Neighbours(p) |-> NoInfo]]
    /\ strays = [p \in Peers |-> [q \in Neighbours(p) |-> {}]]
    /\ inbox = [p \in Peers |-> [q \in Neighbours(p) |-> <<>>]]
    /\ open = [p \in Peers |-> [q \in Neighbours(p) |-> FALSE]]
    /\ epoch = [c \in Clients |-> 0]
    /\ breaks = 0 /\ strayed = FALSE /\ overlooked = FALSE /\ guessed = FALSE

IsIdle(p) == job[p].step = "idle"

\* p's queue is free, or its callback was waiting for a syncPeer of q to end.
MayHandle(p, q) ==
    /\ IsIdle(p) \/ (job[p].step = "waiting" /\ job[p].peer = q)
    /\ ~info[p][q].sync.on

\* p's next message from q is of this type.
Next1(p, q, type) ==
    /\ inbox[p][q] # <<>>
    /\ Head(inbox[p][q]).type = type

Consumed(p, q) == [inbox EXCEPT ![p][q] = Tail(@)]

BothEnds(c, atServer, atClient) ==
    [inbox EXCEPT ![Server][c] = atServer, ![c][Server] = atClient]

\* p's transport has a way to q, and the server the client's stream: it
\* refuses what a client posts without one.
Reaches(p, q) == open[p][q] /\ open[Server][Link(p, q)]

\* What the neighbours of p find in their inboxes after p sent msgs[q] to each q.
Sent(boxes, p, msgs) ==
    [q \in Peers |-> [r \in Neighbours(q) |->
        IF r = p /\ Reaches(p, q) THEN boxes[q][p] \o msgs[q] ELSE boxes[q][r]]]
Quiet(p) == [q \in Neighbours(p) |-> <<>>]

-----------------------------------------------------------------------------
\* broadcastChanges (747-766): a peer that is not active yet gets the changes
\* with the pending ones; an active one at once, without what it knows.
Waiting(p, q, except) == info[p][q].known /\ q # except /\ ~info[p][q].active
Listening(p, q, except) == info[p][q].known /\ q # except /\ info[p][q].active

Broadcast(p, changes, except) ==
    [q \in Neighbours(p) |->
        IF Listening(p, q, except)
        THEN NonEmpty(info[p][q].pending) \o NonEmpty(Fresh(changes, info[p][q].cursor))
        ELSE <<>>]

AfterBroadcast(p, changes, except) ==
    [q \in Neighbours(p) |->
        IF Waiting(p, q, except) THEN [info[p][q] EXCEPT !.pending = @ \cup changes]
        ELSE IF Listening(p, q, except) THEN [info[p][q] EXCEPT !.pending = {}]
        ELSE info[p][q]]

BroadcastStrays(p, changes, except) ==
    \E q \in Neighbours(p) :
        /\ Broadcast(p, changes, except)[q] # <<>>
        /\ Reaches(p, q)
        /\ info[p][q].epoch # epoch[Link(p, q)]

-----------------------------------------------------------------------------
\* The application commits a transaction of its own.
Write(p) ==
    LET own == {c \in data[p] : c.site = p} IN
    /\ Cardinality(own) < Writes[p]
    /\ data' = [data EXCEPT ![p] = @ \cup {[site |-> p, version |-> Cardinality(own) + 1]}]
    /\ UNCHANGED <<hist, saved, memory, net, ghosts>>

\* Fault: the cursor is written before the history.
CheckLocal_SavesCursor(p) ==
    /\ IsIdle(p)
    /\ LocalChanges(p) # {}
    /\ cursor' = [cursor EXCEPT ![p] = Advance(@, LocalChanges(p))]
    /\ saved' = [saved EXCEPT ![p] = cursor'[p]]
    /\ job' = [job EXCEPT ![p] = [step |-> "read", changes |-> LocalChanges(p), peer |-> p]]
    /\ UNCHANGED <<data, hist, info, strays, net, ghosts>>

\* broadcastLocalChanges (667-687): read what is new, advance the cursor.
CheckLocal(p) ==
    /\ IsIdle(p)
    /\ LocalChanges(p) # {}
    /\ cursor' = [cursor EXCEPT ![p] = Advance(@, LocalChanges(p))]
    /\ job' = [job EXCEPT ![p] = [step |-> "read", changes |-> LocalChanges(p), peer |-> p]]
    /\ UNCHANGED <<durable, info, strays, net, ghosts>>

\* Rows come in where a syncPeer of p that runs has passed by: it finds them
\* no more, nor, as the offset then falls behind, does it find what it read.
Overlooks(p, changes) ==
    \E q \in Neighbours(p) : \E i \in {info[p][q]} \cup strays[p][q] :
        LET rows == RowsOf(hist[p] \cup changes, i.sync.sites, i.sync.from)
        IN i.sync.on /\ \E c \in rows \ hist[p] : Place(c, rows) <= i.sync.offset

\* broadcastLocalChanges (693): writeChangesToHistory.
LogLocal(p) ==
    /\ job[p].step = "read"
    /\ hist' = [hist EXCEPT ![p] = @ \cup job[p].changes]
    /\ overlooked' = (overlooked \/ Overlooks(p, job[p].changes))
    /\ job' = [job EXCEPT ![p].step = "known"]
    /\ UNCHANGED <<data, saved, cursor, info, strays, net, strayed, guessed>>

\* The end of broadcastLocalChanges (696-702) and of onReceiveChanges
\* (261-274): write the cursor, then tell the other peers.
Publish(p) ==
    LET changes == job[p].changes
        from == job[p].peer
        cur == Advance(cursor[p], changes)
    IN
    /\ job[p].step = "known"
    /\ cursor' = [cursor EXCEPT ![p] = cur]
    /\ saved' = [saved EXCEPT ![p] = cur]
    /\ info' = [info EXCEPT ![p] = AfterBroadcast(p, changes, from)]
    /\ inbox' = Sent(inbox, p, Broadcast(p, changes, from))
    /\ strayed' = (strayed \/ BroadcastStrays(p, changes, from))
    /\ job' = [job EXCEPT ![p] = Idle]
    /\ UNCHANGED <<data, hist, strays, open, epoch, breaks, overlooked, guessed>>

-----------------------------------------------------------------------------
\* applyChanges (406-479): the tables and the history, in one transaction.
Apply(p, changes) ==
    /\ data' = [data EXCEPT ![p] = @ \cup changes]
    /\ hist' = [hist EXCEPT ![p] = @ \cup changes]
    /\ overlooked' = (overlooked \/ Overlooks(p, changes))

\* onReceive and onReceiveChanges (223-258, 287-318): a peer that is not
\* known fails the call.
Receive(p, q) ==
    LET fresh == Fresh(Head(inbox[p][q]).changes, cursor[p]) IN
    /\ IsIdle(p) /\ Next1(p, q, "data")
    /\ inbox' = Consumed(p, q)
    /\ IF info[p][q].known
       THEN info' = [info EXCEPT ![p][q].cursor = Advance(@, fresh)]
       ELSE UNCHANGED info
    /\ IF info[p][q].known /\ fresh # {}
       THEN /\ Apply(p, fresh)
            /\ job' = [job EXCEPT ![p] = [step |-> "known", changes |-> fresh, peer |-> q]]
       ELSE UNCHANGED <<data, hist, overlooked, job>>
    /\ UNCHANGED <<saved, cursor, strays, open, epoch, breaks, strayed, guessed>>

\* onConnect (156-183): a new PeerInfo replaces the old one, whose syncPeer
\* keeps running; the other side is asked for what the cursor lacks.
OnConnect(p, q) ==
    LET old == info[p][q]
        e == Head(inbox[p][q]).epoch
    IN
    /\ IsIdle(p) /\ Next1(p, q, "connect")
    /\ open' = [open EXCEPT ![p][q] = @ \/ p # Server]
    /\ strays' = IF old.sync.on THEN [strays EXCEPT ![p][q] = @ \cup {old}] ELSE strays
    /\ info' = [info EXCEPT ![p][q] = NewInfo(e)]
    /\ inbox' = IF open[Server][Link(p, q)]
                THEN [Consumed(p, q) EXCEPT ![q][p] = Append(@, SyncFrom(cursor[p]))]
                ELSE Consumed(p, q)
    /\ strayed' = (strayed \/ (open[Server][Link(p, q)] /\ e # epoch[Link(p, q)]))
    /\ UNCHANGED <<durable, cursor, job, epoch, breaks, overlooked, guessed>>

\* onSync and onDisconnect (203-206, 325-332) cancel a running syncPeer and
\* wait for it.
Cancel(p, q) ==
    /\ IsIdle(p)
    /\ Next1(p, q, "sync") \/ Next1(p, q, "close")
    /\ info[p][q].sync.on
    /\ info' = [info EXCEPT ![p][q].sync.cancel = TRUE]
    /\ job' = [job EXCEPT ![p] = [Idle EXCEPT !.step = "waiting", !.peer = q]]
    /\ UNCHANGED <<durable, cursor, strays, net, ghosts>>

\* onSync (185-221) and the start of syncPeer (774-793).
OnSync(p, q) ==
    LET theirs == Head(inbox[p][q]).cursor
        sites == {s \in Peers : cursor[p][s] > 0 \/ theirs[s] > 0}
    IN
    /\ MayHandle(p, q) /\ Next1(p, q, "sync")
    /\ inbox' = Consumed(p, q)
    /\ job' = [job EXCEPT ![p] = Idle]
    /\ info' = IF info[p][q].known
               THEN [info EXCEPT ![p][q].cursor = theirs,
                                 ![p][q].sync = [NoSync EXCEPT !.on = TRUE, !.sites = sites,
                                                               !.from = theirs]]
               ELSE info
    /\ UNCHANGED <<durable, cursor, strays, open, epoch, breaks, ghosts>>

-----------------------------------------------------------------------------
\* One turn of syncPeer (819-891).  The last turn, at the end of the history
\* or when cancelled, also hands over what is pending and makes the peer
\* active.
Batch(p, s) ==
    LET rows == Rows(p, s.sites, s.from)
    IN {c \in rows : ~s.cancel /\ Place(c, rows) \in s.offset + 1 .. s.offset + BatchLimit}

IsLast(p, s) == s.cancel \/ Cardinality(Rows(p, s.sites, s.from)) < s.offset + BatchLimit

\* Fault: what is pending waits for the next broadcast.
Turn_KeepsPending(p, i) == NonEmpty(Batch(p, i.sync))

Turn(p, i) ==
    NonEmpty(Batch(p, i.sync))
        \o (IF IsLast(p, i.sync) THEN NonEmpty(i.pending) ELSE <<>>)

Told(p, i) == Batch(p, i.sync) \cup (IF IsLast(p, i.sync) THEN i.pending ELSE {})

AfterTurn(p, i, cur) ==
    IF IsLast(p, i.sync)
    THEN [i EXCEPT !.cursor = cur, !.pending = {}, !.sync = NoSync, !.active = TRUE]
    ELSE [i EXCEPT !.cursor = cur, !.sync.offset = @ + BatchLimit]

TurnStrays(p, q, i) == Turn(p, i) # <<>> /\ Reaches(p, q) /\ i.epoch # epoch[Link(p, q)]

SyncTurn(p, q) ==
    LET i == info[p][q] IN
    /\ i.sync.on
    /\ inbox' = Sent(inbox, p, [Quiet(p) EXCEPT ![q] = Turn(p, i)])
    /\ info' = [info EXCEPT ![p][q] = AfterTurn(p, i, Advance(i.cursor, Told(p, i)))]
    /\ strayed' = (strayed \/ TurnStrays(p, q, i))
    /\ UNCHANGED <<durable, cursor, job, strays, open, epoch, breaks, overlooked, guessed>>

\* The same of a run whose PeerInfo was replaced: it still sends to the peer
\* of that name, and updatePeerCursor (709-721) finds the new PeerInfo.
StrayTurn(p, q) == \E i \in strays[p][q] :
    /\ inbox' = Sent(inbox, p, [Quiet(p) EXCEPT ![q] = Turn(p, i)])
    /\ info' = IF info[p][q].known
               THEN [info EXCEPT ![p][q].cursor = Advance(@, Told(p, i))]
               ELSE info
    /\ strays' = [strays EXCEPT ![p][q] =
           (@ \ {i}) \cup (IF IsLast(p, i.sync) THEN {} ELSE {AfterTurn(p, i, i.cursor)})]
    /\ strayed' = (strayed \/ TurnStrays(p, q, i))
    /\ UNCHANGED <<durable, cursor, job, open, epoch, breaks, overlooked, guessed>>

-----------------------------------------------------------------------------
\* The stream of a client opens (/stream of TransportServerFastify 64-137):
\* the server answers with its own connect and queues onConnect.
Open(c) ==
    /\ ~open[Server][c]
    /\ \A m \in Range(inbox[c][Server]) : m.type # "connect"
    /\ epoch' = [epoch EXCEPT ![c] = @ + 1]
    /\ open' = [open EXCEPT ![Server][c] = TRUE]
    /\ inbox' = BothEnds(c, Append(inbox[Server][c], Connect(epoch'[c])),
                            Append(inbox[c][Server], Connect(epoch'[c])))
    /\ UNCHANGED <<durable, memory, breaks, ghosts>>

\* handleSSEMessage (238-243): while its Peer's queue is busy, the client can
\* post as soon as it hears the connect, before onConnect.
Hear(c) ==
    /\ ~open[c][Server]
    /\ ~IsIdle(c)
    /\ inbox[c][Server] # <<>> /\ Head(inbox[c][Server]).type = "connect"
    /\ open' = [open EXCEPT ![c][Server] = TRUE]
    /\ UNCHANGED <<durable, memory, inbox, epoch, breaks, ghosts>>

\* What may be left in the inbox of one end when the connection of c breaks: a
\* tail has not arrived.  At the server this is a tail of what was posted; the
\* server queues connects and closes itself, when the stream opens and ends.
\* A client that has not heard the connect keeps what came before it.
Control(m) == m.type \in {"connect", "close"}

LeftAtServer(c) ==
    LET box == inbox[Server][c]
    IN {Append(SubSeq(box, 1, k), Close) : k \in {k \in 0 .. Len(box) :
            \A j \in k + 1 .. Len(box) : ~Control(box[j])}}

LeftAtClient(c) ==
    LET box == inbox[c][Server]
    IN {SubSeq(box, 1, k) : k \in {k \in 0 .. Len(box) :
            open[c][Server] \/ \A j \in 1 .. k : ~Control(box[j])}}

Left(p, c) ==
    IF ~open[Server][c] THEN {inbox[p][IF p = Server THEN c ELSE Server]}
    ELSE IF p = Server THEN LeftAtServer(c) ELSE LeftAtClient(c)

\* The connection breaks: handleClientDisconnect (251-272) at the server, and
\* handleConnectionError (289-304) at the client, whose onDisconnect names a
\* peer its Peer does not have.
Drop(c) ==
    /\ breaks < MaxBreaks
    /\ open[Server][c]
    /\ breaks' = breaks + 1
    /\ open' = [open EXCEPT ![Server][c] = FALSE, ![c][Server] = FALSE]
    /\ \E s \in LeftAtServer(c) : \E k \in LeftAtClient(c) :
        inbox' = BothEnds(c, s, k)
    /\ UNCHANGED <<durable, memory, epoch, ghosts>>

\* onDisconnect at the server (320-335): forget the peer.
OnClose(c) ==
    /\ MayHandle(Server, c) /\ Next1(Server, c, "close")
    /\ info' = [info EXCEPT ![Server][c] = NoInfo]
    /\ inbox' = Consumed(Server, c)
    /\ job' = [job EXCEPT ![Server] = Idle]
    /\ UNCHANGED <<durable, cursor, strays, open, epoch, breaks, ghosts>>

\* A peer stops and starts again (initialize, 486-514): only the database is
\* left, and the connections break.
Restart(p) ==
    /\ breaks < MaxBreaks
    /\ breaks' = breaks + 1
    /\ cursor' = [cursor EXCEPT ![p] = ReadCursor(p)]
    /\ job' = [job EXCEPT ![p] = Idle]
    /\ info' = [info EXCEPT ![p] = [q \in Neighbours(p) |-> NoInfo]]
    /\ strays' = [strays EXCEPT ![p] = [q \in Neighbours(p) |-> {}]]
    /\ open' = [r \in Peers |-> [q \in Neighbours(r) |-> open[r][q] /\ p \notin {r, q}]]
    /\ \E box \in [Neighbours(p) -> UNION {Left(q, Link(p, q)) : q \in Neighbours(p)}] :
        /\ \A q \in Neighbours(p) : box[q] \in Left(q, Link(p, q))
        /\ inbox' = [r \in Peers |-> [q \in Neighbours(r) |->
               IF r = p THEN <<>> ELSE IF q = p THEN box[r] ELSE inbox[r][q]]]
    /\ guessed' = (guessed \/ Guesses(p))
    /\ UNCHANGED <<durable, epoch, strayed, overlooked>>

-----------------------------------------------------------------------------
\* What the Peers and their transports do by themselves.
System ==
    \/ \E p \in Peers : CheckLocal(p) \/ LogLocal(p) \/ Publish(p)
    \/ \E p \in Peers : \E q \in Neighbours(p) :
        \/ Receive(p, q) \/ OnConnect(p, q) \/ Cancel(p, q) \/ OnSync(p, q)
        \/ SyncTurn(p, q) \/ StrayTurn(p, q)
    \/ \E c \in Clients : Open(c) \/ Hear(c) \/ OnClose(c)

\* Nothing is under way and every client is connected.
AtRest ==
    /\ \A p \in Peers : IsIdle(p) /\ LocalChanges(p) = {}
    /\ \A p \in Peers : \A q \in Neighbours(p) :
        inbox[p][q] = <<>> /\ ~info[p][q].sync.on /\ strays[p][q] = {} /\ open[p][q]

Next ==
    \/ System
    \/ \E p \in Peers : Write(p)
    \/ \E p \in Fragile : Restart(p)
    \/ \E c \in Clients \cap Fragile : Drop(c)
    \/ AtRest /\ UNCHANGED vars

Spec == Init /\ [][Next]_vars

-----------------------------------------------------------------------------
Jobs == [step : {"idle", "waiting", "read", "known"}, changes : SUBSET Changes, peer : Peers]
Syncs == [on : BOOLEAN, cancel : BOOLEAN, sites : SUBSET Peers, from : Cursors, offset : Nat]
Infos == [known : BOOLEAN, epoch : Nat, cursor : Cursors, active : BOOLEAN,
          pending : SUBSET Changes, sync : Syncs]
Messages == [type : {"connect", "sync", "data", "close"}, changes : SUBSET Changes,
             cursor : Cursors, epoch : Nat]

\* One of these for each two peers that talk to each other.
Table(f, S) ==
    /\ f = [p \in Peers |-> [q \in Neighbours(p) |-> f[p][q]]]
    /\ \A p \in Peers : \A q \in Neighbours(p) : f[p][q] \in S

\* The state stays within its types.
PeerTypeOK ==
    /\ data \in [Peers -> SUBSET Changes] /\ hist \in [Peers -> SUBSET Changes]
    /\ saved \in [Peers -> Cursors] /\ cursor \in [Peers -> Cursors]
    /\ job \in [Peers -> Jobs]
    /\ Table(info, Infos) /\ Table(strays, SUBSET Infos)
    /\ Table(inbox, Seq(Messages)) /\ Table(open, BOOLEAN)
    /\ epoch \in [Clients -> Nat] /\ breaks \in Nat
    /\ strayed \in BOOLEAN /\ overlooked \in BOOLEAN /\ guessed \in BOOLEAN

\* A cursor never covers a change its peer does not have, so nothing a peer
\* lacks is filtered away when it arrives (filterChanges), unless an
\* exchange outlived its connection and spoke on the next one, or a syncPeer
\* looked for its rows where others had come in (SyncIsRaceFree).
Holds(p, s, v) == [site |-> s, version |-> v] \in data[p]
NoGap ==
    ~strayed /\ ~overlooked /\ ~guessed => \A p, s \in Peers : \A v \in 1 .. cursor[p][s] : Holds(p, s, v)

\* What the comment on syncPeer says of it (768-772): it may run between other
\* callbacks, and races with none.  It does not hold: a page of rows is found
\* by its offset (835, 863), and what is logged meanwhile for a site before the
\* offset moves the rows.  Of two such changes the first is skipped and the
\* second sent, after which the receiver filters the first away for good.
SyncIsRaceFree ==
    breaks = 0 => \A p, s \in Peers : \A v \in 1 .. cursor[p][s] : Holds(p, s, v)

\* The cursor on disk is never ahead of the tables and the history on disk: a
\* peer that stops between the two transactions asks for too much, never for
\* too little.
SavedCursorIsApplied ==
    \A p, s \in Peers : saved[p][s] > 0 =>
        /\ Holds(p, s, saved[p][s])
        /\ [site |-> s, version |-> saved[p][s]] \in hist[p]

\* A peer that is sent changes directly has none pending: the branch of
\* broadcastChanges that sends them first, from an array it empties before
\* the transport has read it, is never taken.
ActiveHasNothingPending ==
    \A p \in Peers : \A q \in Neighbours(p) : info[p][q].active => info[p][q].pending = {}

\* When nothing is under way any more, all replicas hold every change.  (No
\* state but these has no next step, so the system always comes to one of them
\* when applications stop writing and connections stop breaking.)
RestIsSettled ==
    AtRest /\ ~strayed /\ ~overlooked /\ ~guessed => \A p, q \in Peers : data[p] = data[q]

\* The state stays within its types, and cursors and pending changes of every
\* peer fit what it has and whom it talks to.
PeerInv == PeerTypeOK /\ SavedCursorIsApplied /\ ActiveHasNothingPending
=============================================================================
