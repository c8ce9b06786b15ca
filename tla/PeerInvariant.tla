--------------------------- MODULE PeerInvariant ---------------------------
(***************************************************************************)
(* Why no peer misses a change its cursor covers: the invariant of the     *)
(* synchronisation of PeerSync.  Where a change comes from, how far the    *)
(* two ends of a connection are, and what a peer has or will have when it  *)
(* has handled its inbox.                                                  *)
(***************************************************************************)
EXTENDS PeerSync

Below(cur) == {d \in Changes : d.version <= cur[d.site]}
Covered(p) == Below(cursor[p])

\* No change without the earlier ones of its site.
Closed(changes) ==
    \A c \in changes : \A d \in Changes : d.site = c.site /\ d.version <= c.version => d \in changes

\* The newest changes a cursor names are among these.
TopsIn(cur, changes) ==
    \A s \in Peers : cur[s] > 0 => [site |-> s, version |-> cur[s]] \in changes

-----------------------------------------------------------------------------
\* What is in the tables and the history; own changes are numbered from 1 and
\* logged first by who made them, and clients learn from the server.
HistoryInv ==
    \A p \in Peers :
        /\ hist[p] \subseteq data[p]
        /\ \A d \in data[p] : d \in hist[p] \/ d.site = p
        /\ \E n \in 0 .. Writes[p] :
            {d \in data[p] : d.site = p} = {[site |-> p, version |-> v] : v \in 1 .. n}
        /\ \A d \in hist[p] :
            /\ d \in hist[d.site]
            /\ p # Server => d.site = p \/ d \in hist[Server]
            /\ d.site = p => \A e \in Changes : e.site = p /\ e.version <= d.version => e \in hist[p]

\* A callback under way: the changes it handles, and what the cursor covers.
Unlogged(p) == IF job[p].step = "read" THEN job[p].changes ELSE {}
JobOk(p) ==
    /\ job[p].step \in {"idle", "waiting"} => job[p].changes = {}
    /\ job[p].step = "read" => job[p].peer = p /\ job[p].changes \subseteq data[p]
    /\ job[p].step = "known" =>
        /\ job[p].changes \subseteq hist[p]
        /\ job[p].peer # p => job[p].peer \in Neighbours(p) /\ job[p].changes \subseteq hist[job[p].peer]
    /\ job[p].peer = p => \A c \in job[p].changes :
        /\ c.site = p /\ c \in Covered(p)
        /\ \A d \in Covered(p) : d.site = p /\ c.version <= d.version => d \in job[p].changes
    /\ \A d \in Covered(p) : d.site = p => d \in hist[p] \cup Unlogged(p)
    /\ TopsIn(cursor[p], hist[p] \cup Unlogged(p))
    /\ TopsIn(saved[p], hist[p])

JobInv == \A p \in Peers : JobOk(p)

Runs(p, q) == {info[p][q]} \cup strays[p][q]

\* Whatever is sent or kept for sending is in the history of who sends it.
MessagesOk(p, q) ==
    \A k \in DOMAIN inbox[p][q] :
        LET m == inbox[p][q][k]
        IN /\ m.changes \subseteq hist[q]
           /\ TopsIn(m.cursor, hist[q])
           /\ m.type # "data" => m.changes = {}

RunsOk(p, q) ==
    /\ \A i \in Runs(p, q) : i.pending \subseteq hist[p]
    /\ \A i \in strays[p][q] : i.sync.on
    /\ info[p][q].active => info[p][q].pending = {}
    /\ ~info[p][q].known => ~info[p][q].sync.on /\ ~info[p][q].active

MessageInv == \A p \in Peers : \A q \in Neighbours(p) : MessagesOk(p, q) /\ RunsOk(p, q)

-----------------------------------------------------------------------------
\* What is in an inbox: the controls, the connect of connection e as the last
\* of them, data only before them, and syncs that belong to what comes last.
Controls(box) == {k \in DOMAIN box : Control(box[k])}

Announced(box, e) ==
    \E k \in Controls(box) :
        /\ box[k] = Connect(e)
        /\ \A j \in Controls(box) \ {k} : j < k /\ box[j].epoch < e

DataFirst(box) ==
    \A k \in DOMAIN box : box[k].type = "data" => \A j \in 1 .. k : ~Control(box[j])

HasData(box) == \E k \in DOMAIN box : box[k].type = "data"
HasSync(box) == \E k \in DOMAIN box : box[k].type = "sync"
EndsInControl(box) == box = <<>> \/ Control(box[Len(box)])

CurrentSyncs(box) ==
    {k \in DOMAIN box : box[k].type = "sync" /\ \A j \in k .. Len(box) : ~Control(box[j])}

OneSync(box) == \A j, k \in CurrentSyncs(box) : j = k

-----------------------------------------------------------------------------
\* The two ends of a connection.
Up(p, q) == open[Server][Link(p, q)]

Joined(p, q) ==
    /\ info[p][q].known
    /\ info[p][q].epoch = epoch[Link(p, q)]
    /\ Controls(inbox[p][q]) = {}

Joining(p, q) ==
    /\ info[p][q].epoch < epoch[Link(p, q)]
    /\ Announced(inbox[p][q], epoch[Link(p, q)])

\* While the stream of a client is open, each end has taken it up or will,
\* and no syncPeer of an older connection is taken for one of this.
LinkOk(p, q) ==
    LET e == epoch[Link(p, q)]
    IN /\ \A i \in Runs(p, q) : i.epoch <= e
       /\ \A k \in DOMAIN inbox[p][q] : inbox[p][q][k].epoch <= e
       /\ Up(p, q) =>
            /\ e > 0
            /\ Joined(p, q) \/ Joining(p, q)
            /\ \A i \in strays[p][q] : i.epoch < e
            /\ Joined(p, q) => Reaches(p, q)

LinkInv == \A p \in Peers : \A q \in Neighbours(p) : LinkOk(p, q)

\* The protocol of a connection: each end asks the other once, and answers
\* after it was asked; data come only when both have joined.
Answers(p, q) == Joined(p, q) /\ (info[p][q].sync.on \/ info[p][q].active)

PhaseOk(p, q) ==
    LET box == inbox[p][q]
        i == info[p][q]
    IN /\ DataFirst(box)
       /\ HasData(box) => i.known
       /\ Up(p, q) =>
            /\ Joined(q, p) \/ EndsInControl(box)
            /\ Answers(p, q) =>
                Joined(q, p) /\ ~HasSync(box) /\ ~i.sync.cancel /\ ~(i.sync.on /\ i.active)
            /\ OneSync(box)
            /\ Joined(q, p) => Answers(p, q) \/ CurrentSyncs(box) # {}

PhaseInv == \A p \in Peers : \A q \in Neighbours(p) : PhaseOk(p, q)

-----------------------------------------------------------------------------
\* A client whose own changes are, or may be, on their way to the server names
\* itself in its cursor, also after it stopped and started again.
Marked(c) == cursor[c][c] > 0 /\ (saved[c][c] > 0 \/ saved[c] = NoCursor)

MarkOk(c) ==
    /\ cursor[c][c] > 0 /\ (job[c].peer = c => job[c].changes = {}) =>
        saved[c][c] > 0 \/ saved[c] = NoCursor
    /\ (\E d \in hist[Server] : d.site = c) => Marked(c)
    /\ (\E m \in Range(inbox[Server][c]) : \E d \in m.changes : d.site = c) => Marked(c)
    /\ \A i \in Runs(c, Server) :
        (\E d \in i.pending : d.site = c) \/ (i.sync.on /\ c \in i.sync.sites) => Marked(c)

MarkInv == \A c \in Clients : MarkOk(c)

-----------------------------------------------------------------------------
\* What a peer has, as its neighbours may count on it: a server that stopped
\* before it published a change asks for it again and publishes it then.
Base(p) == IF p = Server THEN Covered(p) \cup job[p].changes ELSE hist[p]

\* What the messages up to the k-th carry, and what p has when they are handled.
Carried(box, k) == UNION {box[j].changes : j \in 1 .. k}
Will(p, q) == Base(p) \cup Carried(inbox[p][q], Len(inbox[p][q]))

\* What p has to tell q: all it has published if it is the server, otherwise
\* what it has published of its own.
Share(p) ==
    {d \in Covered(p) : (job[p].peer = p => d \notin job[p].changes) /\ (p = Server \/ d.site = p)}

\* What arrives leaves no gap, in the order it arrives.
OrderOk(p, q) ==
    /\ \A k \in 0 .. Len(inbox[p][q]) : Closed(Base(p) \cup Carried(inbox[p][q], k))
    /\ Up(p, q) => \A k \in CurrentSyncs(inbox[p][q]) :
        Below(inbox[p][q][k].cursor) \subseteq Base(q)

OrderInv ==
    \A p \in Peers : Closed(hist[p]) /\ \A q \in Neighbours(p) : OrderOk(p, q)

\* What p has told q, still keeps for q or will come to in its syncPeer.
TellOk(p, q) ==
    LET i == info[p][q]
        will == Will(q, p)
    IN Up(p, q) /\ Joined(p, q) =>
        /\ \A d \in Below(i.cursor) : p = Server => d \in will
        /\ \A d \in Below(i.cursor) : d.site = p => d \in hist[q] \cup will
        /\ i.pending \subseteq Share(p)
        /\ i.sync.on =>
            /\ Below(i.sync.from) \subseteq will
            /\ LET rows == Rows(p, i.sync.sites, i.sync.from)
               IN \A d \in rows : Place(d, rows) <= i.sync.offset => d \in will
            /\ \A d \in Share(p) : d \in will \cup i.pending \/ d.site \in i.sync.sites
        /\ i.active => Share(p) \subseteq will
        /\ i.sync.on \/ i.active => \A d \in hist[q] :
            d.site = p => d \in will \/ (i.sync.on /\ p \in i.sync.sites)

TellInv == \A p \in Peers : \A q \in Neighbours(p) : TellOk(p, q)

OK == ~strayed /\ ~overlooked /\ ~guessed
SyncInv ==
    /\ HistoryInv /\ JobInv /\ MessageInv /\ LinkInv
    /\ ~strayed => PhaseInv
    /\ ~guessed => MarkInv
    /\ OK => OrderInv /\ TellInv
=============================================================================
