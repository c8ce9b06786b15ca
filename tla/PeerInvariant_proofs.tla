------------------------ MODULE PeerInvariant_proofs ------------------------
(***************************************************************************)
(* The rest of the invariant of PeerInvariant, that every step preserves   *)
(* all of it, and what follows: no peer misses a change its cursor covers, *)
(* whatever connections break and whichever peers stop, and when all is at *)
(* rest all peers hold the same.                                           *)
(***************************************************************************)
EXTENDS PeerSync_proofs

USE PeerConstants

\* The protocol goes on while neither end turns.
LEMMA PhaseCalm ==
    ASSUME Local, LinkInv, [Next]_vars, ~strayed', NEW r \in Peers, NEW t \in Neighbours(r),
           PhaseNow(r, t), PhaseNow(t, r), ~Turning(r, t), ~Turning(t, r)
    PROVE  PhaseNow(r, t)'
<1> DEFINE box == inbox[r][t]
           known == info[r][t].known
           on == info[r][t].sync.on
           cancel == info[r][t].sync.cancel
           active == info[r][t].active
           up == Up(r, t)
           me == Joined(r, t)
           other == Joined(t, r)
<1>0. PeerTypeOK
  BY DEF Local
<1>1. t \in Peers /\ r \in Neighbours(t) /\ t # r /\ Link(t, r) = Link(r, t)
  BY NeighbourFacts
<1>2. /\ box \in Seq(Messages)
      /\ known \in BOOLEAN /\ on \in BOOLEAN /\ cancel \in BOOLEAN /\ active \in BOOLEAN
      /\ up \in BOOLEAN /\ me \in BOOLEAN /\ other \in BOOLEAN
  BY <1>0, <1>1, PhaseTypes
<1>3. /\ Joined(r, t)' <=> me
      /\ Joined(t, r)' <=> other
      /\ Up(r, t)' <=> up
  BY <1>1, CalmStep, CalmJoined
<1>4. Phase(box, known, on, cancel, active, up, me, other)
  BY DEF PhaseNow
<1>5. me => known /\ Controls(box) = {}
  BY DEF Joined
<1>6. Up(t, r) = up /\ (me /\ (on \/ active) /\ up => other /\ ~HasSync(box))
  BY <1>1, <1>4 DEF Up, Phase
<1>7. up /\ other /\ (info[t][r].sync.on \/ info[t][r].active) => me
  BY <1>6 DEF PhaseNow, Phase
<1>8. info[r][t] \in Infos /\ RunsOk(r, t) /\ RunsOk(t, r)
  BY <1>0, <1>1, StateTypes DEF Local, MessageInv
<1> HIDE DEF up, me, other
<1>9. ASSUME info'[r][t].known \in BOOLEAN, info'[r][t].sync.on \in BOOLEAN,
             info'[r][t].sync.cancel \in BOOLEAN, info'[r][t].active \in BOOLEAN,
             Phase(inbox'[r][t], info'[r][t].known, info'[r][t].sync.on,
                   info'[r][t].sync.cancel, info'[r][t].active, up, me, other)
      PROVE  PhaseNow(r, t)'
  BY <1>2, <1>3, <1>9, PhaseNext
<1>10. ASSUME inbox'[r][t] = box,
              info'[r][t].known = known, info'[r][t].sync.on = on,
              info'[r][t].sync.cancel = cancel, info'[r][t].active = active
       PROVE  PhaseNow(r, t)'
  BY <1>2, <1>4, <1>9, <1>10
<1>11. ASSUME Sends(t, r), info'[r][t] = info[r][t], up, inbox'[r][t] # box => me /\ other
       PROVE  PhaseNow(r, t)'
  <2>1. CASE inbox'[r][t] = box
    BY <1>10, <1>11, <2>1
  <2>2. CASE inbox'[r][t] # box
    <3> DEFINE new == inbox'[r][t]
    <3>1. /\ new \in Seq(Messages) /\ Extends(new, box)
          /\ \A k \in DOMAIN new : k > Len(box) => new[k].type = "data"
      BY <1>2, <1>11, SendsExtends
    <3>2. known /\ Controls(box) = {} /\ other
      BY <1>5, <1>11, <2>2
    <3> HIDE DEF box, known, on, cancel, active, new
    <3>3. Phase(new, known, on, cancel, active, up, me, other)
      BY <1>2, <1>4, <3>1, <3>2, PhaseByData
    <3>4. /\ inbox'[r][t] = new /\ info'[r][t].known = known /\ info'[r][t].sync.on = on
          /\ info'[r][t].sync.cancel = cancel /\ info'[r][t].active = active
      BY <1>11 DEF known, on, cancel, active, new
    <3> QED BY <1>2, <1>9, <3>3, <3>4
  <2> QED BY <2>1, <2>2
<1>12. CASE Receive(r, t) /\ inbox'[r][t] = Tail(inbox[r][t]) /\ info'[r][t] = AfterReceive(r, t)
  <2>1. box # <<>> /\ Head(box).type = "data"
    BY <1>0, <1>12, ReceivedType
  <2>2. LET j == AfterReceive(r, t)
        IN  j.known = known /\ j.active = active /\ j.sync = info[r][t].sync
    BY <1>0, <1>12, AfterReceiveFacts
  <2>3. inbox'[r][t] = Tail(box) /\ info'[r][t].known = known /\ info'[r][t].active = active
        /\ info'[r][t].sync.on = on /\ info'[r][t].sync.cancel = cancel
    BY <1>12, <2>2
  <2> HIDE DEF box, known, on, cancel, active
  <2>4. Phase(Tail(box), known, on, cancel, active, up, me, other)
    BY ONLY <1>2, <1>4, <2>1, PhaseTailData
  <2> QED BY <1>2, <1>9, <2>3, <2>4
<1>13. CASE OnSync(r, t) /\ inbox'[r][t] = Tail(inbox[r][t]) /\ info'[r][t] = AfterSync(r, t)
  <2>1. box # <<>> /\ Head(box).type = "sync" /\ ~on
    BY <1>13 DEF OnSync, Next1, MayHandle
  <2>2. LET j == AfterSync(r, t)
        IN  /\ j.known = known /\ j.active = active
            /\ known => j.sync.on = TRUE /\ j.sync.cancel = FALSE
            /\ ~known => j = info[r][t]
    BY ONLY <1>0, r \in Peers, t \in Neighbours(r), <2>1, AfterSyncFacts
  <2>3. up => (me <=> Controls(box) = {})
    <3>1. ASSUME up, Controls(box) = {} PROVE me
      <4>1. LinkOk(r, t)
        BY DEF LinkInv
      <4>2. ~Joining(r, t)
        BY <3>1, JoinedOrJoining
      <4> QED BY <3>1, <4>1, <4>2 DEF LinkOk, up, me
    <3> QED BY <1>5, <3>1
  <2>4. on = FALSE
    BY <1>2, <2>1
  <2> HIDE DEF box, known, on, cancel, active
  <2>5. /\ ~known => Phase(Tail(box), known, FALSE, cancel, active, up, me, other)
        /\ known => Phase(Tail(box), known, TRUE, FALSE, active, up, me, other)
    BY <1>2, <1>4, <1>5, <2>1, <2>3, <2>4, PhaseTailSync
  <2>6. CASE known
    <3>1. inbox'[r][t] = Tail(box) /\ info'[r][t].known = known /\ info'[r][t].active = active
          /\ info'[r][t].sync.on = TRUE /\ info'[r][t].sync.cancel = FALSE
      BY <1>13, <2>2, <2>6 DEF box
    <3> QED BY <1>2, <1>9, <2>5, <2>6, <3>1
  <2>7. CASE ~known
    <3>1. inbox'[r][t] = Tail(box) /\ info'[r][t].known = known /\ info'[r][t].active = active
          /\ info'[r][t].sync.on = FALSE /\ info'[r][t].sync.cancel = cancel
      BY <1>13, <2>2, <2>4, <2>7 DEF box, known, on, cancel, active
    <3> QED BY <1>2, <1>9, <2>5, <2>7, <3>1
  <2> QED BY <2>6, <2>7
<1>14. CASE Cancel(r, t) /\ inbox'[r][t] = inbox[r][t] /\ info'[r][t] = AfterCancel(r, t)
  <2>1. box # <<>> /\ (Head(box).type = "sync" \/ Head(box).type = "close") /\ on
    BY <1>14 DEF Cancel, Next1
  <2>2. LET j == AfterCancel(r, t)
        IN  j.known = known /\ j.active = active /\ j.sync.on = on /\ j.sync.cancel = TRUE
    BY ONLY <1>0, r \in Peers, t \in Neighbours(r), AfterCancelFacts
  <2>3. 1 \in DOMAIN box /\ box[1] = Head(box)
    BY <1>2, <2>1, TailIndex
  <2>4. ~(up /\ me)
    <3>1. Head(box).type = "sync" => HasSync(box)
      BY <2>3 DEF HasSync
    <3>2. Head(box).type = "close" => Controls(box) # {}
      BY <2>3 DEF Controls, Control
    <3> QED BY <1>5, <1>6, <2>1, <3>1, <3>2
  <2>5. Phase(box, known, on, TRUE, active, up, me, other)
    BY <1>4, <2>4 DEF Phase
  <2>6. info'[r][t].known = known /\ info'[r][t].active = active
        /\ info'[r][t].sync.on = on /\ info'[r][t].sync.cancel = TRUE
    BY <1>14, <2>2
  <2> QED BY <1>2, <1>9, <1>14, <2>5, <2>6
<1>15. CASE /\ Publish(r) /\ inbox'[r][t] = inbox[r][t]
            /\ info'[r][t] = AfterBroadcast(r, job[r].changes, job[r].peer)[t]
  <2>1. job[r].changes \in SUBSET Changes
    BY <1>0, StateTypes
  <2>2. LET j == AfterBroadcast(r, job[r].changes, job[r].peer)[t]
        IN  j.known = known /\ j.active = active /\ j.sync = info[r][t].sync
    BY <1>0, <2>1, AfterBroadcastSame
  <2> QED BY <1>10, <1>15, <2>2
<1>16. CASE /\ SyncTurn(r, t) /\ inbox'[r][t] = inbox[r][t]
            /\ info'[r][t] =
                  AfterTurn(r, info[r][t], Advance(info[r][t].cursor, Told(r, info[r][t])))
  <2> DEFINE i == info[r][t]
             cur == Advance(i.cursor, Told(r, i))
             j == AfterTurn(r, i, cur)
  <2>1. cur \in Cursors /\ on
    BY ONLY <1>0, r \in Peers, t \in Neighbours(r), <1>16, SyncTurnEffect
  <2>2. j.known = known
    BY <1>8, <2>1, AfterTurnSame
  <2>3. CASE IsLast(r, i.sync)
    <3>1. j.sync = NoSync /\ j.active = TRUE
      BY <1>8, <2>1, <2>3, AfterTurnLast
    <3>2. j.sync.on = FALSE /\ j.sync.cancel = FALSE
      BY <3>1 DEF NoSync
    <3>3. Phase(box, known, FALSE, FALSE, TRUE, up, me, other)
      BY <1>4, <2>1 DEF Phase
    <3> HIDE DEF j
    <3> QED BY <1>2, <1>9, <1>16, <2>2, <3>1, <3>2, <3>3 DEF j
  <2>4. CASE ~IsLast(r, i.sync)
    <3>1. j.active = active /\ j.sync.on = on /\ j.sync.cancel = cancel
      BY <1>8, <2>1, <2>4, AfterTurnMore
    <3> QED BY <1>10, <1>16, <2>2, <3>1
  <2> QED BY <2>3, <2>4
<1>17. CASE /\ StrayTurn(r, t) /\ inbox'[r][t] = inbox[r][t]
            /\ \E i \in strays[r][t] : info'[r][t] = AfterStray(r, t, i)
  <2>1. PICK i \in strays[r][t] : info'[r][t] = AfterStray(r, t, i)
    BY <1>17
  <2>2. LET j == AfterStray(r, t, i)
        IN  j.known = known /\ j.active = active /\ j.sync = info[r][t].sync
    BY ONLY <1>0, r \in Peers, t \in Neighbours(r), i \in strays[r][t], AfterStrayFacts
  <2> QED BY <1>10, <1>17, <2>1, <2>2
<1>18. CASE /\ Publish(t) /\ Reaches(t, r) /\ info'[r][t] = info[r][t]
            /\ inbox'[r][t] = inbox[r][t] \o Broadcast(t, job[t].changes, job[t].peer)[r]
  <2>1. Sends(t, r)
    BY <1>0, <1>1, <1>18, PublishSends
  <2>2. up
    BY <1>1, <1>18 DEF Reaches, Up, up
  <2>3. inbox'[r][t] # box => me /\ other
    <3>1. CASE Broadcast(t, job[t].changes, job[t].peer)[r] # <<>>
      <4>1. other /\ info[t][r].active
        BY <1>1, <1>18, <3>1, PublishJoined DEF other
      <4> QED BY <1>7, <2>2, <4>1
    <3>2. CASE Broadcast(t, job[t].changes, job[t].peer)[r] = <<>>
      BY <1>2, <1>18, <3>2
    <3> QED BY <3>1, <3>2
  <2> QED BY <1>11, <1>18, <2>1, <2>2, <2>3
<1>19. CASE /\ SyncTurn(t, r) /\ Reaches(t, r) /\ info'[r][t] = info[r][t]
            /\ inbox'[r][t] = inbox[r][t] \o Turn(t, info[t][r])
  <2>1. Sends(t, r)
    <3>1. info[t][r] \in Runs(t, r) /\ info[t][r].sync.on
      BY <1>19 DEF Runs, SyncTurn
    <3> QED BY <1>0, <1>1, <1>19, <3>1, TurnSends
  <2>2. up
    BY <1>1, <1>19 DEF Reaches, Up, up
  <2>3. inbox'[r][t] # box => me /\ other
    <3>1. CASE Turn(t, info[t][r]) # <<>>
      <4>1. other /\ info[t][r].sync.on
        BY <1>1, <1>19, <3>1, SyncTurnJoined DEF other
      <4> QED BY <1>7, <2>2, <4>1
    <3>2. CASE Turn(t, info[t][r]) = <<>>
      BY <1>2, <1>19, <3>2
    <3> QED BY <3>1, <3>2
  <2> QED BY <1>11, <1>19, <2>1, <2>2, <2>3
<1>20. CASE /\ StrayTurn(t, r) /\ Reaches(t, r) /\ info'[r][t] = info[r][t]
            /\ \E i \in strays[t][r] : inbox'[r][t] = inbox[r][t] \o Turn(t, i)
  <2>1. inbox'[r][t] = box
    BY <1>1, <1>20, StrayTurnSilent
  <2> QED BY <1>10, <1>20, <2>1
<1>21. CASE inbox'[r][t] = inbox[r][t] /\ info'[r][t] = info[r][t]
  BY <1>10, <1>21
<1>22. \/ inbox'[r][t] = inbox[r][t] /\ info'[r][t] = info[r][t]
       \/ Receive(r, t) /\ inbox'[r][t] = Tail(inbox[r][t]) /\ info'[r][t] = AfterReceive(r, t)
       \/ OnSync(r, t) /\ inbox'[r][t] = Tail(inbox[r][t]) /\ info'[r][t] = AfterSync(r, t)
       \/ Cancel(r, t) /\ inbox'[r][t] = inbox[r][t] /\ info'[r][t] = AfterCancel(r, t)
       \/ /\ Publish(r) /\ inbox'[r][t] = inbox[r][t]
          /\ info'[r][t] = AfterBroadcast(r, job[r].changes, job[r].peer)[t]
       \/ /\ SyncTurn(r, t) /\ inbox'[r][t] = inbox[r][t]
          /\ info'[r][t] =
                AfterTurn(r, info[r][t], Advance(info[r][t].cursor, Told(r, info[r][t])))
       \/ /\ StrayTurn(r, t) /\ inbox'[r][t] = inbox[r][t]
          /\ \E i \in strays[r][t] : info'[r][t] = AfterStray(r, t, i)
       \/ /\ Publish(t) /\ Reaches(t, r) /\ info'[r][t] = info[r][t]
          /\ inbox'[r][t] = inbox[r][t] \o Broadcast(t, job[t].changes, job[t].peer)[r]
       \/ /\ SyncTurn(t, r) /\ Reaches(t, r) /\ info'[r][t] = info[r][t]
          /\ inbox'[r][t] = inbox[r][t] \o Turn(t, info[t][r])
       \/ /\ StrayTurn(t, r) /\ Reaches(t, r) /\ info'[r][t] = info[r][t]
          /\ \E i \in strays[t][r] : inbox'[r][t] = inbox[r][t] \o Turn(t, i)
  BY PairStep
<1> QED BY ONLY <1>12, <1>13, <1>14, <1>15, <1>16, <1>17, <1>18, <1>19, <1>20, <1>21, <1>22

\* The connection is taken up.
LEMMA PhaseConnectMe ==
    ASSUME Local, LinkInv, [Next]_vars, NEW r \in Peers, NEW t \in Neighbours(r),
           PhaseNow(r, t), OnConnect(r, t)
    PROVE  PhaseNow(r, t)'
<1> DEFINE box == inbox[r][t]
           e == Head(box).epoch
           up == Up(r, t)
           me == Joined(r, t)
           other == Joined(t, r)
           me1 == Joined(r, t)'
<1>0. PeerTypeOK
  BY DEF Local
<1>1. t \in Peers /\ r \in Neighbours(t) /\ t # r /\ Link(t, r) = Link(r, t)
  BY NeighbourFacts
<1>2. box \in Seq(Messages) /\ up \in BOOLEAN /\ me \in BOOLEAN /\ other \in BOOLEAN
  BY <1>0, <1>1, PhaseTypes
<1>3. /\ box # <<>> /\ Head(box).type = "connect" /\ info'[r][t] = NewInfo(e)
      /\ inbox'[r][t] = Tail(box)
  BY ONLY <1>0, r \in Peers, t \in Neighbours(r), OnConnect(r, t), OnConnectEffect
<1>4. /\ info'[t][r] = info[t][r]
      /\ inbox'[t][r] = inbox[t][r] \/ inbox'[t][r] = Append(inbox[t][r], SyncFrom(cursor[r]))
  <2>1. /\ Up(r, t) => inbox'[t][r] = Append(inbox[t][r], SyncFrom(cursor[r]))
        /\ ~Up(r, t) => inbox'[t][r] = inbox[t][r]
        /\ \A x \in Peers : \A y \in Neighbours(x) :
              ~(x = r /\ y = t) => info'[x][y] = info[x][y] /\ strays'[x][y] = strays[x][y]
    BY ONLY <1>0, r \in Peers, t \in Neighbours(r), OnConnect(r, t), OnConnectEffect
  <2> QED BY <1>1, <2>1
<1>5. (Up(r, t)' <=> up) /\ epoch' = epoch /\ ~me
  <2>1. LinkOk(r, t)
    BY DEF LinkInv
  <2>2. EpochsOk(r, t) /\ UpOk(r, t)
    BY <1>2, <2>1, LinkParts
  <2> QED BY <2>2, UpOnConnect
<1>6. Joined(t, r)' <=> other
  <2>1. inbox[t][r] \in Seq(Messages) /\ cursor[r] \in Cursors
    BY <1>0, <1>1, StateTypes
  <2>2. Controls(Append(inbox[t][r], SyncFrom(cursor[r]))) = Controls(inbox[t][r])
    BY <2>1, AppendSync
  <2>3. Controls(inbox'[t][r]) = Controls(inbox[t][r])
    BY <1>4, <2>2
  <2> QED BY <1>4, <1>5, <2>3 DEF Joined
<1>7. me1 \in BOOLEAN
  BY DEF Joined
<1>8. /\ info'[r][t].known = TRUE /\ info'[r][t].sync.on = FALSE /\ info'[r][t].sync.cancel = FALSE
      /\ info'[r][t].active = FALSE
  <2>1. LET j == NewInfo(e)
        IN  j.known = TRUE /\ j.sync.on = FALSE /\ j.sync.cancel = FALSE /\ j.active = FALSE
    BY ONLY NewInfoFields, NoInfoFields
  <2> QED BY <1>3, <2>1
<1> HIDE DEF up, me, other, me1
<1> DEFINE known1 == info'[r][t].known
           on1 == info'[r][t].sync.on
           cancel1 == info'[r][t].sync.cancel
           active1 == info'[r][t].active
<1>80. ~on1 /\ ~active1 /\ known1 \in BOOLEAN /\ on1 \in BOOLEAN /\ cancel1 \in BOOLEAN /\ active1 \in BOOLEAN
  BY <1>8
<1>81. inbox'[r][t] = Tail(box) /\ info'[r][t].known = known1 /\ info'[r][t].sync.on = on1
       /\ info'[r][t].sync.cancel = cancel1 /\ info'[r][t].active = active1
  BY <1>3
<1> HIDE DEF known1, on1, cancel1, active1
<1>9. Phase(Tail(box), known1, on1, cancel1, active1, up, me1, other)
  <2> DEFINE known == info[r][t].known
             on == info[r][t].sync.on
             cancel == info[r][t].sync.cancel
             active == info[r][t].active
  <2>1. Phase(box, known, on, cancel, active, up, me, other)
    BY DEF PhaseNow, up, me, other
  <2>2. Control(Head(box))
    BY <1>3 DEF Control
  <2> HIDE DEF known, on, cancel, active, box
  <2> QED BY <1>2, <1>3, <1>5, <1>80, <2>1, <2>2, PhaseTailControl DEF box
<1> QED BY <1>2, <1>5, <1>6, <1>7, <1>80, <1>81, <1>9, PhaseNext DEF me1

\* PhaseOk when the other end takes up the connection: it asks.
LEMMA PhaseConnectOther ==
    ASSUME Local, LinkInv, [Next]_vars, ~strayed', NEW r \in Peers, NEW t \in Neighbours(r),
           PhaseNow(r, t), OnConnect(t, r)
    PROVE  PhaseNow(r, t)'
<1> DEFINE box == inbox[r][t]
           known == info[r][t].known
           on == info[r][t].sync.on
           cancel == info[r][t].sync.cancel
           active == info[r][t].active
           up == Up(r, t)
           me == Joined(r, t)
           other == Joined(t, r)
           other1 == Joined(t, r)'
           cur == cursor[t]
<1>0. PeerTypeOK
  BY DEF Local
<1>1. t \in Peers /\ r \in Neighbours(t) /\ t # r /\ Link(t, r) = Link(r, t)
  BY NeighbourFacts
<1>2. /\ box \in Seq(Messages)
      /\ known \in BOOLEAN /\ on \in BOOLEAN /\ cancel \in BOOLEAN /\ active \in BOOLEAN
      /\ up \in BOOLEAN /\ me \in BOOLEAN /\ other \in BOOLEAN /\ cur \in Cursors
  BY <1>0, <1>1, PhaseTypes, StateTypes
<1>3. info'[r][t] = info[r][t]
  <2>1. /\ \A x \in Peers : \A y \in Neighbours(x) :
              ~(x = t /\ y = r) => info'[x][y] = info[x][y] /\ strays'[x][y] = strays[x][y]
    BY ONLY <1>0, <1>1, OnConnect(t, r), OnConnectEffect
  <2> QED BY <1>1, <2>1
<1>4. /\ Up(t, r) => inbox'[r][t] = Append(box, SyncFrom(cur))
      /\ ~Up(t, r) => inbox'[r][t] = box
  BY ONLY <1>0, <1>1, OnConnect(t, r), OnConnectEffect
<1>5. Up(t, r) = up /\ (Up(r, t)' <=> Up(t, r)')
  BY <1>1 DEF Up
<1>6. /\ (Up(t, r)' <=> Up(t, r)) /\ epoch' = epoch /\ ~other
      /\ Up(t, r) /\ Head(inbox[t][r]).epoch = epoch[Link(t, r)] => other1
  <2>1. LinkOk(t, r) /\ inbox[t][r] \in Seq(Messages)
    BY <1>0, <1>1, StateTypes DEF LinkInv
  <2>2. EpochsOk(t, r) /\ UpOk(t, r)
    BY <1>1, <2>1, LinkParts
  <2> QED BY <1>1, <2>2, UpOnConnect
<1>7. Joined(r, t)' <=> me
  <2>2. Controls(Append(inbox[r][t], SyncFrom(cursor[t]))) = Controls(inbox[r][t])
    BY <1>2, AppendSync
  <2>3. Controls(inbox'[r][t]) = Controls(inbox[r][t])
    BY <1>4, <2>2
  <2> QED BY <1>3, <1>6, <2>3 DEF Joined
<1>8. other1 \in BOOLEAN
  BY DEF Joined
<1>9. up => other1
  <2>1. strayed' = (strayed \/ (open[Server][Link(t, r)] /\ Head(inbox[t][r]).epoch # epoch[Link(t, r)]))
    BY DEF OnConnect
  <2>2. Up(t, r) => Head(inbox[t][r]).epoch = epoch[Link(t, r)]
    BY <2>1 DEF Up
  <2> QED BY <1>5, <1>6, <2>2
<1>10. Phase(box, known, on, cancel, active, up, me, other)
  BY DEF PhaseNow
<1> HIDE DEF up, me, other, other1
<1>11. CASE up
  <2>1. inbox'[r][t] = Append(box, SyncFrom(cur)) /\ other1
    BY <1>4, <1>5, <1>9, <1>11
  <2>2. Phase(box, known, on, cancel, active, TRUE, me, FALSE)
    BY <1>2, <1>6, <1>10, <1>11 DEF Phase
  <2> DEFINE new == Append(box, SyncFrom(cur))
  <2>3. Phase(new, known, on, cancel, active, TRUE, me, TRUE)
    <3> HIDE DEF known, on, cancel, active, box, cur
    <3> QED BY <1>2, <2>2, PhaseAppendSync
  <2>4. Phase(new, known, on, cancel, active, up, me, other1)
    BY <1>11, <2>1, <2>3 DEF Phase
  <2> HIDE DEF new
  <2>5. inbox'[r][t] = new
    BY <2>1 DEF new
  <2> QED BY <1>2, <1>3, <1>5, <1>6, <1>7, <1>8, <2>4, <2>5, PhaseNext DEF other1
<1>12. CASE ~up
  <2>1. inbox'[r][t] = box
    BY <1>4, <1>5, <1>12
  <2>2. Phase(box, known, on, cancel, active, up, me, other1)
    BY <1>10, <1>12 DEF Phase
  <2> QED BY <1>2, <1>3, <1>5, <1>6, <1>7, <1>8, <2>1, <2>2, PhaseNext DEF other1
<1> QED BY <1>2, <1>11, <1>12

\* The server forgets the peer.
LEMMA PhaseClose ==
    ASSUME Local, NEW r \in Peers, NEW t \in Neighbours(r), PhaseNow(r, t),
           NEW c \in Clients, OnClose(c), Link(r, t) = c
    PROVE  PhaseNow(r, t)'
<1> DEFINE box == inbox[r][t]
           known == info[r][t].known
           on == info[r][t].sync.on
           cancel == info[r][t].sync.cancel
           active == info[r][t].active
           up == Up(r, t)
           me == Joined(r, t)
           other == Joined(t, r)
           me1 == Joined(r, t)'
           other1 == Joined(t, r)'
<1>0. PeerTypeOK
  BY DEF Local
<1>1. t \in Peers /\ r \in Neighbours(t) /\ t # r /\ Link(t, r) = Link(r, t)
      /\ Server \in Peers /\ c \in Neighbours(Server)
      /\ ((r = Server /\ t = c) \/ (r = c /\ t = Server))
  BY NeighbourFacts, ClientFacts, PeersAreNumbers
<1>2. /\ box \in Seq(Messages)
      /\ known \in BOOLEAN /\ on \in BOOLEAN /\ cancel \in BOOLEAN /\ active \in BOOLEAN
      /\ up \in BOOLEAN /\ me \in BOOLEAN /\ other \in BOOLEAN
  BY <1>0, <1>1, PhaseTypes
<1>3. /\ inbox[Server][c] # <<>> /\ Head(inbox[Server][c]).type = "close"
      /\ info'[Server][c] = NoInfo /\ inbox'[Server][c] = Tail(inbox[Server][c])
      /\ \A x \in Peers : \A y \in Neighbours(x) : ~(x = Server /\ y = c) =>
                info'[x][y] = info[x][y] /\ inbox'[x][y] = inbox[x][y]
  BY ONLY <1>0, c \in Clients, OnClose(c), OnCloseEffect
<1>4. open' = open /\ epoch' = epoch
  BY DEF OnClose
<1>5. Up(r, t)' <=> up
  BY <1>4 DEF Up
<1>6. ~Joined(Server, c) /\ ~Joined(Server, c)'
  <2>1. inbox[Server][c] \in Seq(Messages)
    BY <1>0, <1>1, StateTypes
  <2>2. 1 \in DOMAIN inbox[Server][c] /\ inbox[Server][c][1] = Head(inbox[Server][c])
    BY <1>3, <2>1, TailIndex
  <2>3. Controls(inbox[Server][c]) # {}
    BY <1>3, <2>2 DEF Controls, Control
  <2>4. info'[Server][c].known = FALSE
    BY <1>3, NoInfoFields
  <2> QED BY <2>3, <2>4 DEF Joined
<1>7. ASSUME r = c, t = Server PROVE Joined(r, t)' <=> me
  BY <1>1, <1>3, <1>4, <1>7 DEF Joined
<1>8. ASSUME r = Server, t = c PROVE Joined(t, r)' <=> other
  BY <1>1, <1>3, <1>4, <1>8 DEF Joined
<1>9. me1 \in BOOLEAN /\ other1 \in BOOLEAN
  BY DEF Joined
<1>10. Phase(box, known, on, cancel, active, up, me, other)
  BY DEF PhaseNow
<1>11. CASE r = Server /\ t = c
  <2>1. ~me /\ ~me1 /\ (other1 <=> other)
    BY <1>6, <1>8, <1>11
  <2>2. inbox'[r][t] = Tail(box) /\ info'[r][t] = NoInfo /\ box # <<>> /\ Control(Head(box))
    BY <1>3, <1>11 DEF Control
  <2>3. /\ info'[r][t].known = FALSE /\ info'[r][t].sync.on = FALSE /\ info'[r][t].sync.cancel = FALSE
        /\ info'[r][t].active = FALSE
    BY <2>2, NoInfoFields
  <2> DEFINE known1 == info'[r][t].known
             on1 == info'[r][t].sync.on
             cancel1 == info'[r][t].sync.cancel
             active1 == info'[r][t].active
  <2>30. ~on1 /\ ~active1 /\ known1 \in BOOLEAN /\ on1 \in BOOLEAN /\ cancel1 \in BOOLEAN
         /\ active1 \in BOOLEAN
    BY <2>3
  <2>31. inbox'[r][t] = Tail(box) /\ info'[r][t].known = known1 /\ info'[r][t].sync.on = on1
         /\ info'[r][t].sync.cancel = cancel1 /\ info'[r][t].active = active1
    BY <2>2
  <2> HIDE DEF up, me, other, me1, other1, known1, on1, cancel1, active1
  <2>4. Phase(Tail(box), known1, on1, cancel1, active1, up, me1, other)
    <3> HIDE DEF known, on, cancel, active, box
    <3> QED BY <1>2, <1>10, <2>1, <2>2, <2>30, PhaseTailControl DEF box
  <2>5. Phase(Tail(box), known1, on1, cancel1, active1, up, me1, other1)
    BY <2>1, <2>4 DEF Phase
  <2> QED BY <1>2, <1>5, <1>9, <2>30, <2>31, <2>5, PhaseNext DEF me1, other1
<1>12. CASE r = c /\ t = Server
  <2>1. ~other /\ ~other1 /\ (me1 <=> me)
    BY <1>6, <1>7, <1>12
  <2>2. inbox'[r][t] = box /\ info'[r][t] = info[r][t]
    BY <1>1, <1>3, <1>12
  <2> HIDE DEF up, me, other, me1, other1
  <2>3. Phase(box, known, on, cancel, active, up, me1, other1)
    BY <1>10, <2>1 DEF Phase
  <2> QED BY <1>2, <1>5, <1>9, <2>2, <2>3, PhaseNext DEF me1, other1
<1> QED BY <1>1, <1>11, <1>12

\* The stream of the client opens.
LEMMA PhaseOpen ==
    ASSUME Local, NEW r \in Peers, NEW t \in Neighbours(r), PhaseNow(r, t),
           NEW c \in Clients, Open(c), Link(r, t) = c
    PROVE  PhaseNow(r, t)'
<1> DEFINE box == inbox[r][t]
           known == info[r][t].known
           on == info[r][t].sync.on
           cancel == info[r][t].sync.cancel
           active == info[r][t].active
           up == Up(r, t)
           me == Joined(r, t)
           other == Joined(t, r)
           e == epoch[c] + 1
           new == Append(box, Connect(e))
<1>0. PeerTypeOK
  BY DEF Local
<1>1. t \in Peers /\ r \in Neighbours(t) /\ t # r /\ Link(t, r) = c
  BY NeighbourFacts
<1>2. /\ box \in Seq(Messages) /\ inbox[t][r] \in Seq(Messages)
      /\ known \in BOOLEAN /\ on \in BOOLEAN /\ cancel \in BOOLEAN /\ active \in BOOLEAN
      /\ up \in BOOLEAN /\ me \in BOOLEAN /\ other \in BOOLEAN
  BY <1>0, <1>1, PhaseTypes
<1>3. /\ e \in Nat /\ ~open[Server][c] /\ open'[Server][c] /\ info' = info
      /\ inbox'[r][t] = new /\ inbox'[t][r] = Append(inbox[t][r], Connect(e))
  <2>1. /\ e \in Nat /\ ~open[Server][c]
        /\ \A d \in Clients : open'[Server][d] = (d = c \/ open[Server][d])
        /\ \A x \in Peers : \A y \in Neighbours(x) :
              Link(x, y) = c => inbox'[x][y] = Append(inbox[x][y], Connect(e))
    BY ONLY <1>0, c \in Clients, Open(c), OpenEffect
  <2>2. info' = info
    BY DEF Open, memory
  <2> QED BY <1>1, <2>1, <2>2
<1>4. Controls(new) # {} /\ Controls(Append(inbox[t][r], Connect(e))) # {}
  BY <1>2, <1>3, AppendConnect
<1>5. ~Joined(r, t)' /\ ~Joined(t, r)' /\ Up(r, t)' /\ ~up
  BY <1>3, <1>4 DEF Joined, Up
<1>6. Phase(box, known, on, cancel, active, up, me, other)
  BY DEF PhaseNow
<1>7. Phase(new, known, on, cancel, active, TRUE, FALSE, FALSE)
  <2>1. Phase(box, known, on, cancel, active, FALSE, me, other)
    BY <1>5, <1>6 DEF Phase
  <2> HIDE DEF known, on, cancel, active, box, e, me, other
  <2> QED BY <1>2, <1>3, <2>1, PhaseAppendConnect DEF box, e
<1>8. inbox'[r][t] = new /\ info'[r][t] = info[r][t]
  BY <1>3
<1> HIDE DEF new
<1> QED BY <1>5, <1>7, <1>8 DEF PhaseNow, Phase

\* The connection breaks: no stream is open, and a tail has not arrived.
LEMMA PhaseDown ==
    ASSUME PeerTypeOK, NEW r \in Peers, NEW t \in Neighbours(r), PhaseNow(r, t), ~Up(r, t)',
           \/ inbox'[r][t] = <<>>
           \/ inbox'[r][t] \in Left(r, Link(r, t)) /\ info'[r][t] = info[r][t]
    PROVE  PhaseNow(r, t)'
<1>1. DataFirst(inbox[r][t]) /\ (HasData(inbox[r][t]) => info[r][t].known)
  BY DEF PhaseNow, Phase
<1>2. DataFirst(<<>>) /\ ~HasData(<<>>)
  BY DEF DataFirst, HasData
<1>3. DataFirst(inbox'[r][t]) /\ (HasData(inbox'[r][t]) => info'[r][t].known)
  <2>1. CASE inbox'[r][t] = <<>>
    BY <1>2, <2>1
  <2>2. CASE inbox'[r][t] \in Left(r, Link(r, t)) /\ info'[r][t] = info[r][t]
    <3> DEFINE box == inbox'[r][t]
    <3>1. box \in Left(r, Link(r, t))
      BY <2>2
    <3> HIDE DEF box
    <3>2. DataFirst(box) /\ (HasData(box) => HasData(inbox[r][t]))
      BY <1>1, <3>1, LeftData
    <3> QED BY <1>1, <2>2, <3>2 DEF box
  <2> QED BY <2>1, <2>2
<1> QED BY <1>3 DEF PhaseNow, Phase

\* PhaseOk when a connection opens, is taken up or ends.
LEMMA PhaseTurning ==
    ASSUME Local, LinkInv, [Next]_vars, ~strayed', NEW r \in Peers, NEW t \in Neighbours(r),
           PhaseNow(r, t), PhaseNow(t, r), Turning(r, t) \/ Turning(t, r)
    PROVE  PhaseNow(r, t)'
<1> DEFINE c == Link(r, t)
<1>0. PeerTypeOK
  BY DEF Local
<1>1. t \in Peers /\ r \in Neighbours(t) /\ t # r /\ Link(t, r) = c /\ c \in Clients
      /\ Server \in Peers /\ c \in Neighbours(Server)
      /\ ((r = Server /\ t = c) \/ (r = c /\ t = Server)) /\ Link(r, t) = c
  BY NeighbourFacts, ClientFacts, PeersAreNumbers
<1> HIDE DEF c
<1>2. ASSUME Drop(c) PROVE PhaseNow(r, t)'
  <2>1. /\ open[Server][c] /\ open'[Server][c] = FALSE
        /\ inbox'[Server][c] \in LeftAtServer(c) /\ inbox'[c][Server] \in LeftAtClient(c)
    BY <1>0, <1>1, <1>2, DropEffect
  <2>2. info' = info
    BY <1>2 DEF Drop, memory
  <2>3. inbox'[r][t] \in Left(r, c)
    BY <1>1, <2>1 DEF Left
  <2>4. ~Up(r, t)'
    BY <1>1, <2>1 DEF Up
  <2> QED BY <1>0, <1>1, <2>2, <2>3, <2>4, PhaseDown
<1>3. ASSUME NEW p \in Peers, Restart(p), p = r \/ p = t PROVE PhaseNow(r, t)'
  <2>1. TopsIn(saved[p], hist[p])
    BY DEF Local, JobInv, JobOk
  <2>2. \A x \in Peers : \A y \in Neighbours(x) :
          /\ x # p => info'[x][y] = info[x][y] /\ strays'[x][y] = strays[x][y]
          /\ open'[x][y] = (open[x][y] /\ x # p /\ y # p)
          /\ x = p => inbox'[x][y] = <<>>
          /\ y = p => inbox'[x][y] \in Left(x, Link(p, x))
    BY ONLY <1>0, p \in Peers, <1>3, <2>1, RestartEffect
  <2>3. ~Up(r, t)'
    <3>1. ~open'[Server][c]
      <4>1. open'[Server][c] = (open[Server][c] /\ Server # p /\ c # p)
        BY <1>1, <2>2
      <4> QED BY <1>1, <1>3, <4>1
    <3> QED BY <1>1, <3>1 DEF Up
  <2>4. CASE p = r
    <3>1. inbox'[r][t] = <<>>
      BY <2>2, <2>4
    <3> QED BY <1>0, <2>3, <3>1, PhaseDown
  <2>5. CASE p = t
    <3>1. inbox'[r][t] \in Left(r, Link(r, t)) /\ info'[r][t] = info[r][t]
      BY <1>1, <2>2, <2>5
    <3> QED BY <1>0, <2>3, <3>1, PhaseDown
  <2> QED BY <1>3, <2>4, <2>5
<1>4. ASSUME OnConnect(r, t) PROVE PhaseNow(r, t)'
  BY <1>4, PhaseConnectMe
<1>5. ASSUME OnConnect(t, r) PROVE PhaseNow(r, t)'
  BY <1>5, PhaseConnectOther
<1>6. ASSUME OnClose(c) PROVE PhaseNow(r, t)'
  BY <1>1, <1>6, PhaseClose
<1>7. ASSUME Open(c) PROVE PhaseNow(r, t)'
  BY <1>1, <1>7, PhaseOpen
<1>8. \/ OnConnect(r, t) \/ OnConnect(t, r) \/ OnClose(c) \/ Open(c) \/ Drop(c)
      \/ Restart(r) \/ Restart(t)
  BY <1>1 DEF Turning
<1> QED BY <1>1, <1>2, <1>3, <1>4, <1>5, <1>6, <1>7, <1>8

\* The history variables only become true.
LEMMA GhostsStep ==
    ASSUME PeerTypeOK, [Next]_vars
    PROVE  (strayed => strayed') /\ (overlooked => overlooked') /\ (guessed => guessed')
<1>1. strayed \in BOOLEAN /\ overlooked \in BOOLEAN /\ guessed \in BOOLEAN
  BY DEF PeerTypeOK
<1>2. ASSUME NEW p \in Peers,
             Write(p) \/ CheckLocal(p) \/ LogLocal(p) \/ Publish(p) \/ Restart(p)
      PROVE  (strayed => strayed') /\ (overlooked => overlooked') /\ (guessed => guessed')
  BY <1>1, <1>2 DEF Write, CheckLocal, LogLocal, Publish, Restart, ghosts
<1>3. ASSUME NEW p \in Peers, NEW q \in Neighbours(p),
             \/ Receive(p, q) \/ OnConnect(p, q) \/ Cancel(p, q) \/ OnSync(p, q)
             \/ SyncTurn(p, q) \/ StrayTurn(p, q)
      PROVE  (strayed => strayed') /\ (overlooked => overlooked') /\ (guessed => guessed')
  <2>1. CASE Receive(p, q)
    <3>1. UNCHANGED <<strayed, guessed>> /\ (overlooked => overlooked')
      BY <1>1, <2>1 DEF Receive, Apply
    <3> QED BY <3>1
  <2>2. CASE OnConnect(p, q) \/ SyncTurn(p, q) \/ StrayTurn(p, q)
    BY <1>1, <2>2 DEF OnConnect, SyncTurn, StrayTurn
  <2>3. CASE Cancel(p, q) \/ OnSync(p, q)
    BY <1>1, <2>3 DEF Cancel, OnSync, ghosts
  <2> QED BY <1>3, <2>1, <2>2, <2>3
<1>4. ASSUME NEW c \in Clients, Open(c) \/ Hear(c) \/ OnClose(c) \/ Drop(c)
      PROVE  (strayed => strayed') /\ (overlooked => overlooked') /\ (guessed => guessed')
  BY <1>1, <1>4 DEF Open, Hear, OnClose, Drop, ghosts
<1>5. CASE UNCHANGED vars
  BY <1>5 DEF vars, ghosts
<1> QED BY <1>2, <1>3, <1>4, <1>5, Steps

\* Every step keeps PhaseInv, unless an exchange speaks on a younger connection.
LEMMA PhaseStep ==
    ASSUME Local, LinkInv, ~strayed => PhaseInv, [Next]_vars
    PROVE  ~strayed' => PhaseInv'
<1> SUFFICES ASSUME ~strayed' PROVE PhaseInv'
  OBVIOUS
<1>1. PhaseInv
  BY GhostsStep DEF Local
<1>2. ASSUME NEW r \in Peers, NEW t \in Neighbours(r) PROVE PhaseOk(r, t)'
  <2>1. t \in Peers /\ r \in Neighbours(t)
    BY NeighbourFacts
  <2>2. PhaseNow(r, t) /\ PhaseNow(t, r)
    BY <1>1, <2>1, PhaseNowIsOk DEF PhaseInv
  <2>3. PhaseNow(r, t)'
    BY <2>2, PhaseCalm, PhaseTurning
  <2> QED BY <2>3 DEF PhaseNow, Phase, PhaseOk, Answers
<1> QED BY <1>2 DEF PhaseInv

---------------------------------------------------------------------------
(* A step, as one peer sees it.                                            *)

\* What a step does to a peer's cursor, its callback and its history.
LEMMA OwnStep ==
    ASSUME Local, [Next]_vars, NEW r \in Peers
    PROVE  \/ UNCHANGED <<cursor[r], saved[r], job[r], hist[r]>>
           \/ /\ CheckLocal(r) /\ cursor'[r] = Advance(cursor[r], LocalChanges(r))
              /\ job'[r] = [step |-> "read", changes |-> LocalChanges(r), peer |-> r]
              /\ job[r].step = "idle" /\ LocalChanges(r) # {}
              /\ UNCHANGED <<saved[r], hist[r]>>
           \/ /\ LogLocal(r) /\ job[r].step = "read" /\ hist'[r] = hist[r] \cup job[r].changes
              /\ job'[r].step = "known" /\ job'[r].changes = job[r].changes
              /\ job'[r].peer = job[r].peer
              /\ UNCHANGED <<cursor[r], saved[r]>>
           \/ /\ Publish(r) /\ job[r].step = "known"
              /\ cursor'[r] = Advance(cursor[r], job[r].changes) /\ saved'[r] = cursor'[r]
              /\ job'[r] = Idle /\ UNCHANGED hist[r]
           \/ \E q \in Neighbours(r) :
              /\ Receive(r, q) /\ job[r].step = "idle" /\ hist'[r] = hist[r] \cup Received(r, q)
              /\ Received(r, q) = {} => job'[r] = job[r]
              /\ Received(r, q) # {} => /\ job'[r].step = "known" /\ job'[r].peer = q
                                        /\ job'[r].changes = Received(r, q)
              /\ UNCHANGED <<cursor[r], saved[r]>>
           \/ /\ job[r].step \in {"idle", "waiting"} /\ job'[r].step \in {"idle", "waiting"}
              /\ job'[r].changes = {} /\ job[r].changes = {}
              /\ UNCHANGED <<cursor[r], saved[r], hist[r]>>
           \/ /\ Restart(r) /\ cursor'[r] = ReadCursor(r) /\ job'[r] = Idle
              /\ UNCHANGED <<saved[r], hist[r]>>
<1> DEFINE Goal ==
           \/ UNCHANGED <<cursor[r], saved[r], job[r], hist[r]>>
           \/ /\ CheckLocal(r) /\ cursor'[r] = Advance(cursor[r], LocalChanges(r))
              /\ job'[r] = [step |-> "read", changes |-> LocalChanges(r), peer |-> r]
              /\ job[r].step = "idle" /\ LocalChanges(r) # {}
              /\ UNCHANGED <<saved[r], hist[r]>>
           \/ /\ LogLocal(r) /\ job[r].step = "read" /\ hist'[r] = hist[r] \cup job[r].changes
              /\ job'[r].step = "known" /\ job'[r].changes = job[r].changes
              /\ job'[r].peer = job[r].peer
              /\ UNCHANGED <<cursor[r], saved[r]>>
           \/ /\ Publish(r) /\ job[r].step = "known"
              /\ cursor'[r] = Advance(cursor[r], job[r].changes) /\ saved'[r] = cursor'[r]
              /\ job'[r] = Idle /\ UNCHANGED hist[r]
           \/ \E q \in Neighbours(r) :
              /\ Receive(r, q) /\ job[r].step = "idle" /\ hist'[r] = hist[r] \cup Received(r, q)
              /\ Received(r, q) = {} => job'[r] = job[r]
              /\ Received(r, q) # {} => /\ job'[r].step = "known" /\ job'[r].peer = q
                                        /\ job'[r].changes = Received(r, q)
              /\ UNCHANGED <<cursor[r], saved[r]>>
           \/ /\ job[r].step \in {"idle", "waiting"} /\ job'[r].step \in {"idle", "waiting"}
              /\ job'[r].changes = {} /\ job[r].changes = {}
              /\ UNCHANGED <<cursor[r], saved[r], hist[r]>>
           \/ /\ Restart(r) /\ cursor'[r] = ReadCursor(r) /\ job'[r] = Idle
              /\ UNCHANGED <<saved[r], hist[r]>>
<1>0. PeerTypeOK
  BY DEF Local
<1>1. job[r].step \in {"idle", "waiting"} => job[r].changes = {}
  BY DEF Local, JobInv, JobOk
<1>2. ASSUME NEW p \in Peers,
             Write(p) \/ CheckLocal(p) \/ LogLocal(p) \/ Publish(p) \/ Restart(p)
      PROVE  Goal
  <2>1. CASE Write(p)
    BY <2>1 DEF Write, memory
  <2>2. CASE CheckLocal(p)
    <3>1. /\ cursor'[p] = Advance(cursor[p], LocalChanges(p))
          /\ job'[p] = [step |-> "read", changes |-> LocalChanges(p), peer |-> p]
          /\ \A x \in Peers : x # p => cursor'[x] = cursor[x] /\ job'[x] = job[x]
      BY ONLY <1>0, p \in Peers, <2>2, CheckLocalEffect
    <3>2. saved' = saved /\ hist' = hist /\ job[p].step = "idle" /\ LocalChanges(p) # {}
      BY <2>2 DEF CheckLocal, durable, IsIdle
    <3>3. CASE r = p BY <2>2, <3>1, <3>2, <3>3
    <3>4. CASE r # p BY <3>1, <3>2, <3>4
    <3> QED BY <3>3, <3>4
  <2>3. CASE LogLocal(p)
    <3>1. /\ hist'[p] = hist[p] \cup job[p].changes
          /\ job'[p].step = "known" /\ job'[p].changes = job[p].changes /\ job'[p].peer = job[p].peer
          /\ \A x \in Peers : x # p => hist'[x] = hist[x] /\ job'[x] = job[x]
      BY ONLY <1>0, p \in Peers, <2>3, LogLocalEffect
    <3>2. saved' = saved /\ cursor' = cursor /\ job[p].step = "read"
      BY <2>3 DEF LogLocal
    <3>3. CASE r = p BY <2>3, <3>1, <3>2, <3>3
    <3>4. CASE r # p BY <3>1, <3>2, <3>4
    <3> QED BY <3>3, <3>4
  <2>4. CASE Publish(p)
    <3>1. /\ cursor'[p] = Advance(cursor[p], job[p].changes)
          /\ saved'[p] = Advance(cursor[p], job[p].changes) /\ job'[p] = Idle
          /\ \A x \in Peers : x # p =>
                cursor'[x] = cursor[x] /\ saved'[x] = saved[x] /\ job'[x] = job[x]
      BY ONLY <1>0, p \in Peers, <2>4, PublishEffect
    <3>2. hist' = hist /\ job[p].step = "known"
      BY <2>4 DEF Publish
    <3>3. CASE r = p BY <2>4, <3>1, <3>2, <3>3
    <3>4. CASE r # p BY <3>1, <3>2, <3>4
    <3> QED BY <3>3, <3>4
  <2>5. CASE Restart(p)
    <3>1. TopsIn(saved[p], hist[p])
      BY DEF Local, JobInv, JobOk
    <3>2. /\ cursor'[p] = ReadCursor(p) /\ job'[p] = Idle
          /\ \A x \in Peers : x # p => cursor'[x] = cursor[x] /\ job'[x] = job[x]
      BY ONLY <1>0, p \in Peers, <2>5, <3>1, RestartEffect
    <3>3. hist' = hist /\ saved' = saved
      BY <2>5 DEF Restart, durable
    <3>4. CASE r = p BY <2>5, <3>2, <3>3, <3>4
    <3>5. CASE r # p BY <3>2, <3>3, <3>5
    <3> QED BY <3>4, <3>5
  <2> QED BY <1>2, <2>1, <2>2, <2>3, <2>4, <2>5
<1>3. ASSUME NEW p \in Peers, NEW q \in Neighbours(p),
             \/ Receive(p, q) \/ OnConnect(p, q) \/ Cancel(p, q) \/ OnSync(p, q)
             \/ SyncTurn(p, q) \/ StrayTurn(p, q)
      PROVE  Goal
  <2>1. CASE Receive(p, q)
    <3>1. /\ hist'[p] = hist[p] \cup Received(p, q)
          /\ \A x \in Peers : x # p => data'[x] = data[x] /\ hist'[x] = hist[x]
      BY ONLY <1>0, p \in Peers, q \in Neighbours(p), <2>1, ReceiveEffect
    <3>2. /\ job'[p].step = IF Received(p, q) = {} THEN "idle" ELSE "known"
          /\ Received(p, q) # {} => job'[p].peer = q /\ job'[p].changes = Received(p, q)
          /\ Received(p, q) = {} => job'[p] = job[p]
          /\ \A x \in Peers : x # p => job'[x] = job[x]
      BY ONLY <1>0, p \in Peers, q \in Neighbours(p), <2>1, ReceiveJob
    <3>3. cursor' = cursor /\ saved' = saved /\ job[p].step = "idle"
      BY <2>1 DEF Receive, IsIdle
    <3>4. CASE r = p BY <2>1, <3>1, <3>2, <3>3, <3>4
    <3>5. CASE r # p BY <3>1, <3>2, <3>3, <3>5
    <3> QED BY <3>4, <3>5
  <2>2. CASE OnConnect(p, q) \/ SyncTurn(p, q) \/ StrayTurn(p, q)
    <3>1. cursor' = cursor /\ saved' = saved /\ job' = job /\ hist' = hist
      BY <2>2 DEF OnConnect, SyncTurn, StrayTurn, durable
    <3> QED BY <3>1
  <2>3. CASE Cancel(p, q)
    <3>1. /\ job'[p] = [Idle EXCEPT !.step = "waiting", !.peer = q]
          /\ \A x \in Peers : x # p => job'[x] = job[x]
      BY ONLY <1>0, p \in Peers, q \in Neighbours(p), <2>3, CancelEffect
    <3>2. cursor' = cursor /\ saved' = saved /\ hist' = hist /\ job[p].step = "idle"
      BY <2>3 DEF Cancel, durable, IsIdle
    <3>3. job'[p].step = "waiting" /\ job'[p].changes = {}
      BY <3>1 DEF Idle
    <3>4. CASE r = p BY <1>1, <3>2, <3>3, <3>4
    <3>5. CASE r # p BY <3>1, <3>2, <3>5
    <3> QED BY <3>4, <3>5
  <2>4. CASE OnSync(p, q)
    <3>1. job'[p] = Idle /\ \A x \in Peers : x # p => job'[x] = job[x]
      BY ONLY <1>0, p \in Peers, q \in Neighbours(p), <2>4, OnSyncEffect
    <3>2. cursor' = cursor /\ saved' = saved /\ hist' = hist /\ job[p].step \in {"idle", "waiting"}
      BY <2>4 DEF OnSync, durable, MayHandle, IsIdle
    <3>3. job'[p].step = "idle" /\ job'[p].changes = {}
      BY <3>1 DEF Idle
    <3>4. CASE r = p BY <1>1, <3>2, <3>3, <3>4
    <3>5. CASE r # p BY <3>1, <3>2, <3>5
    <3> QED BY <3>4, <3>5
  <2> QED BY <1>3, <2>1, <2>2, <2>3, <2>4
<1>4. ASSUME NEW c \in Clients, Open(c) \/ Hear(c) \/ OnClose(c) \/ Drop(c)
      PROVE  Goal
  <2>1. CASE Open(c) \/ Hear(c) \/ Drop(c)
    <3>1. cursor' = cursor /\ saved' = saved /\ job' = job /\ hist' = hist
      BY <2>1 DEF Open, Hear, Drop, durable, memory
    <3> QED BY <3>1
  <2>2. CASE OnClose(c)
    <3>1. job'[Server] = Idle /\ \A x \in Peers : x # Server => job'[x] = job[x]
      BY ONLY <1>0, c \in Clients, <2>2, OnCloseEffect
    <3>2. cursor' = cursor /\ saved' = saved /\ hist' = hist /\ job[Server].step \in {"idle", "waiting"}
      BY <2>2 DEF OnClose, durable, MayHandle, IsIdle
    <3>3. job'[Server].step = "idle" /\ job'[Server].changes = {}
      BY <3>1 DEF Idle
    <3>4. CASE r = Server BY <1>1, <3>2, <3>3, <3>4
    <3>5. CASE r # Server BY <3>1, <3>2, <3>5
    <3> QED BY <3>4, <3>5
  <2> QED BY <1>4, <2>1, <2>2
<1>5. CASE UNCHANGED vars
  <2>1. cursor' = cursor /\ saved' = saved /\ job' = job /\ hist' = hist
    BY <1>5 DEF vars, durable, memory
  <2> QED BY <2>1
<1> QED BY <1>2, <1>3, <1>4, <1>5, Steps DEF Goal

\* When an end turns, no data come in.
LEMMA TurningBox ==
    ASSUME Local, [Next]_vars, NEW r \in Peers, NEW t \in Neighbours(r),
           Turning(r, t) \/ Turning(t, r)
    PROVE  \/ inbox'[r][t] = <<>> /\ ~Up(r, t)'
           \/ inbox'[r][t] = inbox[r][t]
           \/ /\ inbox[r][t] # <<>> /\ Control(Head(inbox[r][t])) /\ inbox'[r][t] = Tail(inbox[r][t])
              /\ OnConnect(r, t) \/ ~Joined(r, t)'
           \/ /\ inbox'[r][t] = Append(inbox[r][t], SyncFrom(cursor[t])) /\ OnConnect(t, r) /\ Up(t, r)
           \/ /\ Open(Link(r, t))
              /\ inbox'[r][t] = Append(inbox[r][t], Connect(epoch[Link(r, t)] + 1))
           \/ inbox'[r][t] \in Left(r, Link(r, t)) /\ ~Up(r, t)'
<1> DEFINE c == Link(r, t)
<1>0. PeerTypeOK
  BY DEF Local
<1>1. t \in Peers /\ r \in Neighbours(t) /\ t # r /\ Link(t, r) = c /\ c \in Clients
      /\ Server \in Peers /\ c \in Neighbours(Server)
      /\ ((r = Server /\ t = c) \/ (r = c /\ t = Server)) /\ Link(r, t) = c
  BY NeighbourFacts, ClientFacts, PeersAreNumbers
<1> HIDE DEF c
<1>2. ASSUME Drop(c) PROVE inbox'[r][t] \in Left(r, c) /\ ~Up(r, t)'
  <2>1. /\ open[Server][c] /\ open'[Server][c] = FALSE
        /\ inbox'[Server][c] \in LeftAtServer(c) /\ inbox'[c][Server] \in LeftAtClient(c)
    BY <1>0, <1>1, <1>2, DropEffect
  <2>3. inbox'[r][t] \in Left(r, c)
    BY <1>1, <2>1 DEF Left
  <2>4. ~Up(r, t)'
    BY <1>1, <2>1 DEF Up
  <2> QED BY <2>3, <2>4
<1>3. ASSUME NEW p \in Peers, Restart(p), p = r \/ p = t
      PROVE  ~Up(r, t)' /\ (inbox'[r][t] = <<>> \/ inbox'[r][t] \in Left(r, c))
  <2>1. TopsIn(saved[p], hist[p])
    BY DEF Local, JobInv, JobOk
  <2>2. \A x \in Peers : \A y \in Neighbours(x) :
          /\ open'[x][y] = (open[x][y] /\ x # p /\ y # p)
          /\ x = p => inbox'[x][y] = <<>>
          /\ y = p => inbox'[x][y] \in Left(x, Link(p, x))
    BY ONLY <1>0, p \in Peers, <1>3, <2>1, RestartEffect
  <2>3. ~Up(r, t)'
    <3>1. open'[Server][c] = (open[Server][c] /\ Server # p /\ c # p)
      BY <1>1, <2>2
    <3> QED BY <1>1, <1>3, <3>1 DEF Up
  <2> QED BY <1>1, <1>3, <2>2, <2>3
<1>4. ASSUME OnConnect(r, t)
      PROVE  inbox[r][t] # <<>> /\ Control(Head(inbox[r][t])) /\ inbox'[r][t] = Tail(inbox[r][t])
  <2>1. inbox[r][t] # <<>> /\ Head(inbox[r][t]).type = "connect" /\ inbox'[r][t] = Tail(inbox[r][t])
    BY ONLY <1>0, r \in Peers, t \in Neighbours(r), <1>4, OnConnectEffect
  <2> QED BY <2>1 DEF Control
<1>5. ASSUME OnConnect(t, r)
      PROVE  \/ inbox'[r][t] = inbox[r][t]
             \/ Up(t, r) /\ inbox'[r][t] = Append(inbox[r][t], SyncFrom(cursor[t]))
  BY ONLY <1>0, <1>1, <1>5, OnConnectEffect
<1>6. ASSUME OnClose(c)
      PROVE  \/ inbox'[r][t] = inbox[r][t]
             \/ /\ inbox[r][t] # <<>> /\ Control(Head(inbox[r][t])) /\ inbox'[r][t] = Tail(inbox[r][t])
                /\ ~Joined(r, t)'
  <2>1. /\ inbox[Server][c] # <<>> /\ Head(inbox[Server][c]).type = "close"
        /\ inbox'[Server][c] = Tail(inbox[Server][c]) /\ info'[Server][c] = NoInfo
        /\ \A x \in Peers : \A y \in Neighbours(x) : ~(x = Server /\ y = c) =>
                info'[x][y] = info[x][y] /\ inbox'[x][y] = inbox[x][y]
    BY ONLY <1>0, <1>1, <1>6, OnCloseEffect
  <2>2. CASE r = Server /\ t = c
    <3>1. ~info'[r][t].known
      BY <2>1, <2>2, NoInfoFields
    <3> QED BY <2>1, <2>2, <3>1 DEF Control, Joined
  <2>3. CASE ~(r = Server /\ t = c)
    BY <2>1, <2>3
  <2> QED BY <2>2, <2>3
<1>7. ASSUME Open(c) PROVE inbox'[r][t] = Append(inbox[r][t], Connect(epoch[c] + 1))
  BY <1>0, <1>1, <1>7, OpenEffect
<1>8. \/ OnConnect(r, t) \/ OnConnect(t, r) \/ OnClose(c) \/ Open(c) \/ Drop(c)
      \/ Restart(r) \/ Restart(t)
  BY <1>1 DEF Turning
<1> QED BY <1>1, <1>2, <1>3, <1>4, <1>5, <1>6, <1>7, <1>8

---------------------------------------------------------------------------
(* A client that may have told the server of its changes stays marked.     *)

\* A client that starts with a cursor that leaves no site out names itself again.
LEMMA MarkedAfterRestart ==
    ASSUME PeerTypeOK, NEW c \in Clients, Marked(c), ~Guesses(c),
           NEW d \in hist[c], d.site = c
    PROVE  ReadCursor(c)[c] > 0
<1>1. c \in Peers /\ saved[c] \in Cursors /\ hist[c] \in SUBSET Changes
  BY StateTypes, ClientFacts
<1>2. CASE saved[c] = NoCursor
  <2>1. d.version <= ReadCursor(c)[c]
    <3>1. ~(d.version > ReadCursor(c)[c])
      BY <1>2 DEF Guesses
    <3>2. d \in Changes
      BY <1>1
    <3>3. d.version \in Nat
      BY <3>2, ChangeFacts
    <3>4. ReadCursor(c)[c] \in Nat
      <4>1. TopsIn(saved[c], hist[c])
        BY <1>2, NoCursorFacts
      <4>2. ReadCursor(c) \in Cursors
        BY <1>1, <4>1, ReadCursorFacts
      <4> QED BY <1>1, <4>2 DEF Cursors
    <3> QED BY <3>1, <3>3, <3>4
  <2>2. d \in Changes
    BY <1>1
  <2>3. d.version >= 1 /\ d.version \in Nat
    BY <2>2, ChangeFacts
  <2>4. ReadCursor(c) \in Cursors
    BY <1>1, <1>2, NoCursorFacts, ReadCursorFacts
  <2>5. ReadCursor(c)[c] \in Nat
    BY <1>1, <2>4 DEF Cursors
  <2> QED BY <2>1, <2>3, <2>5
<1>3. CASE saved[c] # NoCursor
  BY <1>3 DEF ReadCursor, Marked
<1> QED BY <1>2, <1>3

\* A client stays marked, as long as it has something in its history to start from.
LEMMA MarkedStep ==
    ASSUME Local, [Next]_vars, ~guessed', NEW c \in Clients, Marked(c),
           Restart(c) => \E d \in hist[c] : d.site = c
    PROVE  Marked(c)'
<1>0. PeerTypeOK
  BY DEF Local
<1>1. /\ c \in Peers /\ saved[c] \in Cursors /\ cursor[c] \in Cursors
      /\ job[c].changes \in SUBSET Changes
  BY <1>0, StateTypes, ClientFacts
<1>2. cursor[c][c] \in Nat /\ saved[c][c] \in Nat /\ cursor[c][c] > 0
      /\ (saved[c][c] > 0 \/ saved[c] = NoCursor)
  BY <1>1 DEF Cursors, Marked
<1>3. CASE cursor'[c] = cursor[c] /\ saved'[c] = saved[c]
  BY <1>2, <1>3 DEF Marked
<1>4. ASSUME NEW changes \in SUBSET Changes, cursor'[c] = Advance(cursor[c], changes),
             saved'[c] = saved[c] \/ saved'[c] = cursor'[c]
      PROVE  Marked(c)'
  <2>1. Advance(cursor[c], changes)[c] >= cursor[c][c] /\ Advance(cursor[c], changes)[c] \in Nat
    BY <1>1, AdvanceFacts DEF Cursors
  <2>2. cursor'[c][c] > 0
    BY <1>2, <1>4, <2>1
  <2> QED BY <1>2, <1>4, <2>2 DEF Marked
<1>5. CASE CheckLocal(c) /\ cursor'[c] = Advance(cursor[c], LocalChanges(c)) /\ saved'[c] = saved[c]
  BY <1>0, <1>1, <1>4, <1>5, LocalChangesFacts
<1>6. CASE Publish(c) /\ cursor'[c] = Advance(cursor[c], job[c].changes) /\ saved'[c] = cursor'[c]
  BY <1>1, <1>4, <1>6
<1>7. CASE Restart(c) /\ cursor'[c] = ReadCursor(c) /\ saved'[c] = saved[c]
  <2>1. ~Guesses(c)
    BY <1>7 DEF Restart
  <2>2. PICK d \in hist[c] : d.site = c
    BY <1>7
  <2>3. ReadCursor(c)[c] > 0
    BY <1>0, <2>1, <2>2, MarkedAfterRestart
  <2> QED BY <1>2, <1>7, <2>3 DEF Marked
<1> QED BY <1>1, <1>3, <1>5, <1>6, <1>7, OwnStep

\* What a client reads, logs and publishes of its own marks it by the end.
LEMMA PublishMarks ==
    ASSUME Local, NEW c \in Clients, Publish(c), NEW d \in job[c].changes, d.site = c
    PROVE  Marked(c)'
<1>0. PeerTypeOK
  BY DEF Local
<1>1. c \in Peers /\ cursor[c] \in Cursors /\ job[c].changes \in SUBSET Changes
  BY <1>0, StateTypes, ClientFacts
<1>2. cursor'[c] = Advance(cursor[c], job[c].changes) /\ saved'[c] = Advance(cursor[c], job[c].changes)
  BY ONLY <1>0, <1>1, Publish(c), PublishEffect
<1>3. d \in Changes
  BY <1>1
<1>4. d.version \in Nat /\ d.version >= 1
  BY <1>3, ChangeFacts
<1>5. Advance(cursor[c], job[c].changes) \in Cursors
      /\ d.version <= Advance(cursor[c], job[c].changes)[d.site]
  BY <1>1, AdvanceFacts
<1>6. Advance(cursor[c], job[c].changes)[c] > 0
  BY <1>1, <1>4, <1>5 DEF Cursors
<1> QED BY <1>2, <1>6 DEF Marked

\* A client that has published something it reads next is marked, or has none saved.
LEMMA MarkCursor ==
    ASSUME Local, [Next]_vars, ~guessed', NEW c \in Clients, MarkOk(c),
           cursor'[c][c] > 0, job'[c].peer = c => job'[c].changes = {}
    PROVE  saved'[c][c] > 0 \/ saved'[c] = NoCursor
<1> DEFINE Goal == saved'[c][c] > 0 \/ saved'[c] = NoCursor
<1>0. PeerTypeOK
  BY DEF Local
<1>1. c \in Peers
  BY ClientFacts
<1>2. /\ job[c].step \in {"idle", "waiting"} => job[c].changes = {}
      /\ job[c].step = "read" => job[c].peer = c
  BY <1>1 DEF Local, JobInv, JobOk
<1>3. cursor[c][c] > 0 /\ (job[c].peer = c => job[c].changes = {}) => saved[c][c] > 0 \/ saved[c] = NoCursor
  BY DEF MarkOk
<1>4. CASE UNCHANGED <<cursor[c], saved[c], job[c]>>
  BY <1>3, <1>4
<1>5. CASE job'[c] = [step |-> "read", changes |-> LocalChanges(c), peer |-> c] /\ LocalChanges(c) # {}
  BY <1>5
<1>6. CASE /\ job'[c].changes = job[c].changes /\ job'[c].peer = job[c].peer
           /\ UNCHANGED <<cursor[c], saved[c]>>
  BY <1>3, <1>6
<1>7. CASE saved'[c] = cursor'[c]
  BY <1>7
<1>8. CASE job[c].step \in {"idle", "waiting"} /\ UNCHANGED <<cursor[c], saved[c]>>
  BY <1>2, <1>3, <1>8
<1>9. CASE Restart(c) /\ cursor'[c] = ReadCursor(c) /\ saved'[c] = saved[c]
  BY <1>9 DEF ReadCursor
<1> QED BY <1>1, <1>4, <1>5, <1>6, <1>7, <1>8, <1>9, OwnStep

\* There is nothing in an empty inbox.
LEMMA NothingInside == Range(<<>>) = {}
BY DEF Range

\* Where a change comes from that a message brings.
LEMMA ChangeArrives ==
    ASSUME Local, [Next]_vars, NEW r \in Peers, NEW t \in Neighbours(r),
           NEW m \in Range(inbox'[r][t]), NEW d \in m.changes
    PROVE  \/ m \in Range(inbox[r][t])
           \/ Publish(t) /\ d \in job[t].changes
           \/ \E i \in Runs(t, r) : d \in i.pending \/ (i.sync.on /\ d.site \in i.sync.sites)
<1> DEFINE Tells == \E i \in Runs(t, r) : d \in i.pending \/ (i.sync.on /\ d.site \in i.sync.sites)
           Goal == m \in Range(inbox[r][t]) \/ (Publish(t) /\ d \in job[t].changes) \/ Tells
<1>0. PeerTypeOK
  BY DEF Local
<1>1. /\ t \in Peers /\ r \in Neighbours(t) /\ inbox[r][t] \in Seq(Messages)
      /\ cursor[t] \in Cursors /\ Link(r, t) \in Clients /\ job[t].changes \in SUBSET Changes
      /\ info[t][r] \in Infos /\ strays[t][r] \in SUBSET Infos
  BY <1>0, NeighbourFacts, StateTypes
<1>2. CASE Turning(r, t) \/ Turning(t, r)
  <2>1. CASE inbox'[r][t] = <<>>
    <3>1. Range(inbox'[r][t]) = {}
      BY <2>1, NothingInside
    <3> QED BY <3>1
  <2>2. CASE inbox'[r][t] = inbox[r][t]
    BY <2>2
  <2>3. CASE inbox[r][t] # <<>> /\ inbox'[r][t] = Tail(inbox[r][t])
    BY <1>1, <2>3, RangeFacts
  <2>4. CASE inbox'[r][t] = Append(inbox[r][t], SyncFrom(cursor[t]))
    <3>1. m \in Range(inbox[r][t]) \/ m = SyncFrom(cursor[t])
      BY <1>1, <2>4, MessageTypes, RangeOfAppend
    <3> QED BY <3>1 DEF SyncFrom
  <2>5. CASE inbox'[r][t] = Append(inbox[r][t], Connect(epoch[Link(r, t)] + 1))
    <3>0. epoch[Link(r, t)] \in Nat
      BY <1>0, <1>1, EpochStep
    <3>1. epoch[Link(r, t)] + 1 \in Nat
      BY <3>0
    <3>2. m \in Range(inbox[r][t]) \/ m = Connect(epoch[Link(r, t)] + 1)
      BY <1>1, <2>5, <3>1, MessageTypes, RangeOfAppend
    <3> QED BY <3>2 DEF Connect
  <2>6. CASE inbox'[r][t] \in Left(r, Link(r, t))
    <3>1. m \in Range(inbox[r][t]) \/ m = Close
      BY <1>0, <2>6, LeftIsThere
    <3> QED BY <3>1 DEF Close
  <2> QED BY <1>2, <2>1, <2>2, <2>3, <2>4, <2>5, <2>6, TurningBox
<1>3. CASE ~Turning(r, t) /\ ~Turning(t, r)
  <2>1. CASE inbox'[r][t] = inbox[r][t]
    BY <2>1
  <2>2. CASE inbox'[r][t] = Tail(inbox[r][t]) /\ inbox[r][t] # <<>>
    BY <1>1, <2>2, RangeFacts
  <2>3. ASSUME NEW more \in Seq(Messages), inbox'[r][t] = inbox[r][t] \o more
        PROVE  m \in Range(inbox[r][t]) \/ m \in Range(more)
    BY <1>1, <2>3, RangeOfConcat
  <2>4. CASE /\ Publish(t)
             /\ inbox'[r][t] = inbox[r][t] \o Broadcast(t, job[t].changes, job[t].peer)[r]
    <3> DEFINE J == job[t].changes
               B == Broadcast(t, J, job[t].peer)[r]
               i == info[t][r]
    <3>1. /\ B \in Seq(Messages)
          /\ ~Listening(t, r, job[t].peer) => B = <<>>
          /\ Listening(t, r, job[t].peer) => B = NonEmpty(i.pending) \o NonEmpty(Fresh(J, i.cursor))
      <4>1. t \in Peers /\ r \in Neighbours(t) /\ J \in SUBSET Changes
        BY <1>1
      <4> HIDE DEF J
      <4> QED BY ONLY <1>0, <4>1, BroadcastFacts
    <3>2. i.pending \in SUBSET Changes /\ Fresh(J, i.cursor) \in SUBSET Changes /\ Fresh(J, i.cursor) \subseteq J
      BY <1>1, InfoFields, FreshFacts
    <3>3. CASE m \in Range(B)
      <4>1. Range(<<>>) = {}
        BY NothingInside
      <4>2. B = NonEmpty(i.pending) \o NonEmpty(Fresh(J, i.cursor))
        BY <3>1, <3>3, <4>1
      <4>3. m \in Range(NonEmpty(i.pending)) \/ m \in Range(NonEmpty(Fresh(J, i.cursor)))
        BY <3>2, <3>3, <4>2, NonEmptyFacts, RangeOfConcat
      <4>4. m = Data(i.pending) \/ m = Data(Fresh(J, i.cursor))
        BY <3>2, <4>3, RangeOfNonEmpty
      <4>5. d \in i.pending \/ d \in J
        BY <3>2, <4>4 DEF Data
      <4> QED BY <2>4, <4>5 DEF Runs
    <3>4. m \in Range(inbox[r][t]) \/ m \in Range(B)
      BY <2>3, <2>4, <3>1
    <3> QED BY <3>3, <3>4
  <2>5. ASSUME NEW i \in Runs(t, r), i.sync.on, inbox'[r][t] = inbox[r][t] \o Turn(t, i)
        PROVE  Goal
    <3>0. i \in Infos
      BY <1>1 DEF Runs
    <3>1. Turn(t, i) \in Seq(Messages)
      BY <1>0, <1>1, <3>0, TurnFacts
    <3>2. Turn(t, i) = NonEmpty(Batch(t, i.sync)) \o
                (IF IsLast(t, i.sync) THEN NonEmpty(i.pending) ELSE <<>>)
      BY <1>0, <1>1, <3>0, TurnFacts
    <3>3. i.pending \in SUBSET Changes /\ i.sync \in Syncs
      BY <3>0, InfoFields
    <3>4. Batch(t, i.sync) \in SUBSET Changes /\ Batch(t, i.sync) \subseteq Rows(t, i.sync.sites, i.sync.from)
      BY <1>0, <1>1, <3>3, RowsFacts
    <3>5. CASE m \in Range(Turn(t, i))
      <4> DEFINE last == IF IsLast(t, i.sync) THEN NonEmpty(i.pending) ELSE <<>>
      <4>1. NonEmpty(i.pending) \in Seq(Messages) /\ NonEmpty(Batch(t, i.sync)) \in Seq(Messages)
        BY <3>3, <3>4, NonEmptyFacts
      <4>2. last \in Seq(Messages)
        BY <4>1
      <4>3. m \in Range(NonEmpty(Batch(t, i.sync))) \/ m \in Range(last)
        <5>1. Turn(t, i) = NonEmpty(Batch(t, i.sync)) \o last
          BY <3>2
        <5> HIDE DEF last
        <5> QED BY <3>5, <4>1, <4>2, <5>1, RangeOfConcat
      <4>4. Range(<<>>) = {}
        BY NothingInside
      <4>5. m \in Range(NonEmpty(Batch(t, i.sync))) \/ m \in Range(NonEmpty(i.pending))
        BY <4>3, <4>4
      <4>6. m = Data(Batch(t, i.sync)) \/ m = Data(i.pending)
        BY <3>3, <3>4, <4>5, RangeOfNonEmpty
      <4>7. d \in Batch(t, i.sync) \/ d \in i.pending
        BY <4>6 DEF Data
      <4>8. d \in Batch(t, i.sync) => d.site \in i.sync.sites
        BY <3>4 DEF Rows, RowsOf
      <4> QED BY <2>5, <4>7, <4>8
    <3> QED BY <2>3, <2>5, <3>1, <3>5
  <2>6. \A i \in strays[t][r] : i \in Runs(t, r) /\ i.sync.on
    BY <1>1 DEF Local, MessageInv, RunsOk, Runs
  <2>7. CASE SyncTurn(t, r) /\ inbox'[r][t] = inbox[r][t] \o Turn(t, info[t][r])
    BY <2>5, <2>7 DEF SyncTurn, Runs
  <2>8. ASSUME NEW i \in strays[t][r], inbox'[r][t] = inbox[r][t] \o Turn(t, i)
        PROVE  Goal
    BY <2>5, <2>6, <2>8
  <2>9. Receive(r, t) \/ OnSync(r, t) => inbox[r][t] # <<>>
    BY DEF Receive, OnSync, Next1
  <2> HIDE DEF Goal
  <2> QED BY <1>3, <2>1, <2>2, <2>4, <2>7, <2>8, <2>9, PairStep DEF Goal
<1> QED BY <1>2, <1>3

\* What the server has of a client was sent by it, or by another that had it from the server.
LEMMA MarkHistory ==
    ASSUME Local, [Next]_vars, ~guessed', NEW c \in Clients, MarkOk(c),
           NEW d \in hist'[Server], d.site = c
    PROVE  Marked(c)'
<1>0. PeerTypeOK
  BY DEF Local
<1>1. c \in Peers /\ c # Server /\ Server \in Peers /\ c \in Neighbours(Server)
  BY ClientFacts, PeersAreNumbers
<1>2. ASSUME d \in hist[Server] PROVE Marked(c) /\ \E e \in hist[c] : e.site = c
  <2>1. Marked(c)
    BY <1>2 DEF MarkOk
  <2>2. d \in hist[d.site]
    BY <1>1, <1>2 DEF Local, HistoryInv
  <2> QED BY <2>1, <2>2
<1>3. CASE d \in hist[Server]
  BY <1>2, <1>3, MarkedStep
<1>4. CASE job[Server].step = "read" /\ hist'[Server] = hist[Server] \cup job[Server].changes
  <2>1. job[Server].peer = Server /\ (d \in job[Server].changes => d.site = Server)
    BY <1>1, <1>4 DEF Local, JobInv, JobOk
  <2> QED BY <1>1, <1>3, <1>4, <2>1
<1>5. ASSUME NEW q \in Neighbours(Server), Receive(Server, q), d \in Received(Server, q)
      PROVE  Marked(c)'
  <2>1. /\ q \in Peers /\ 1 \in DOMAIN inbox[Server][q] /\ Head(inbox[Server][q]) = inbox[Server][q][1]
        /\ Received(Server, q) \subseteq hist[q]
    BY <1>0, <1>1, <1>5, ReceivedFacts DEF Local
  <2>2. CASE q = c
    <3>1. Received(Server, q) \subseteq Head(inbox[Server][q]).changes /\ inbox[Server][q] # <<>>
      BY <1>0, <1>1, <1>5, ReceivedType
    <3>2. Head(inbox[Server][c]) \in Range(inbox[Server][c])
      BY <1>0, <1>1, <2>2, <3>1, StateTypes, RangeFacts
    <3>3. Marked(c)
      BY <1>5, <2>2, <3>1, <3>2 DEF MarkOk
    <3>4. d \in hist[c]
      BY <1>5, <2>1, <2>2
    <3> QED BY <3>3, <3>4, MarkedStep
  <2>3. CASE q # c
    <3>1. q # Server
      BY <1>1, NeighbourFacts
    <3>2. d \in hist[q]
      BY <1>5, <2>1
    <3>3. d \in hist[Server]
      BY <2>1, <2>3, <3>1, <3>2 DEF Local, HistoryInv
    <3> QED BY <1>3, <3>3
  <2> QED BY <2>2, <2>3
<1>6. CASE hist'[Server] = hist[Server]
  BY <1>3, <1>6
<1> QED BY <1>1, <1>3, <1>4, <1>5, <1>6, OwnStep

\* What a client has sent the server marks it.
LEMMA MarkMessages ==
    ASSUME Local, [Next]_vars, ~guessed', NEW c \in Clients, MarkOk(c),
           NEW m \in Range(inbox'[Server][c]), NEW d \in m.changes, d.site = c
    PROVE  Marked(c)'
<1>0. PeerTypeOK
  BY DEF Local
<1>1. /\ c \in Peers /\ c # Server /\ Server \in Peers /\ c \in Neighbours(Server)
      /\ Server \in Neighbours(c) /\ Link(Server, c) = c
  BY ClientFacts, PeersAreNumbers
<1>2. ASSUME m \in Range(inbox[Server][c]) PROVE Marked(c)'
  <2>1. Marked(c)
    BY <1>2 DEF MarkOk
  <2>2. PICK k \in DOMAIN inbox[Server][c] : m = inbox[Server][c][k]
    BY <1>0, <1>1, <1>2, StateTypes, RangeFacts
  <2>3. d \in hist[c]
    BY <1>1, <2>2 DEF Local, MessageInv, MessagesOk
  <2> QED BY <2>1, <2>3, MarkedStep
<1>3. CASE Restart(c)
  <2>1. TopsIn(saved[c], hist[c])
    BY <1>1 DEF Local, JobInv, JobOk
  <2>2. inbox'[Server][c] \in Left(Server, Link(c, Server))
    BY ONLY <1>0, <1>1, <1>3, <2>1, RestartEffect
  <2>3. Link(c, Server) = Link(Server, c)
    BY ClientFacts
  <2>4. m \in Range(inbox[Server][c]) \/ m = Close
    BY <1>0, <1>1, <2>2, <2>3, LeftIsThere
  <2> QED BY <1>2, <2>4 DEF Close
<1>4. CASE Publish(c) /\ d \in job[c].changes
  BY <1>4, PublishMarks
<1>5. ASSUME NEW i \in Runs(c, Server), d \in i.pending \/ (i.sync.on /\ d.site \in i.sync.sites),
             ~Restart(c)
      PROVE  Marked(c)'
  BY <1>5, MarkedStep DEF MarkOk
<1>6. \/ m \in Range(inbox[Server][c])
      \/ Publish(c) /\ d \in job[c].changes
      \/ \E i \in Runs(c, Server) : d \in i.pending \/ (i.sync.on /\ d.site \in i.sync.sites)
  BY <1>1, ChangeArrives
<1> QED BY <1>2, <1>3, <1>4, <1>5, <1>6

\* What a client that is asked for changes may name makes it marked.
LEMMA MarkAsked ==
    ASSUME Local, NEW c \in Clients, MarkOk(c), OnSync(c, Server), c \in Asked(c, Server)
    PROVE  Marked(c)
<1>0. PeerTypeOK
  BY DEF Local
<1>1. /\ c \in Peers /\ c # Server /\ Server \in Peers /\ Server \in Neighbours(c)
      /\ inbox[c][Server] \in Seq(Messages) /\ inbox[c][Server] # <<>>
  BY <1>0, ClientFacts, PeersAreNumbers, StateTypes DEF OnSync, Next1
<1>2. cursor[c][c] > 0 \/ Head(inbox[c][Server]).cursor[c] > 0
  BY DEF Asked
<1>3. CASE cursor[c][c] > 0
  <2>1. job[c].changes = {}
    BY <1>1 DEF OnSync, MayHandle, IsIdle, Local, JobInv, JobOk
  <2> QED BY <1>3, <2>1 DEF MarkOk, Marked
<1>4. CASE Head(inbox[c][Server]).cursor[c] > 0
  <2> DEFINE m == inbox[c][Server][1]
  <2>1. 1 \in DOMAIN inbox[c][Server] /\ Head(inbox[c][Server]) = m
    BY <1>1, TailIndex
  <2>2. TopsIn(m.cursor, hist[Server])
    BY <1>1, <2>1 DEF Local, MessageInv, MessagesOk
  <2>3. [site |-> c, version |-> m.cursor[c]] \in hist[Server]
    BY <1>1, <1>4, <2>1, <2>2 DEF TopsIn
  <2> QED BY <2>3 DEF MarkOk
<1> QED BY <1>2, <1>3, <1>4

\* When only the other end turns, this one keeps what it knows.
LEMMA TurnedByOther ==
    ASSUME Local, NEW r \in Peers, NEW t \in Neighbours(r), Turning(t, r), ~Turning(r, t)
    PROVE  info'[r][t] = info[r][t]
<1>0. PeerTypeOK
  BY DEF Local
<1>1. t \in Peers /\ r \in Neighbours(t) /\ t # r /\ Link(t, r) = Link(r, t)
      /\ (t = Server => r \in Clients)
  BY NeighbourFacts
<1>2. OnConnect(t, r) \/ (t = Server /\ OnClose(r))
  BY <1>1 DEF Turning
<1>3. CASE OnConnect(t, r)
  <2>1. \A x \in Peers : \A y \in Neighbours(x) : ~(x = t /\ y = r) => info'[x][y] = info[x][y]
    BY ONLY <1>0, <1>1, <1>3, OnConnectEffect
  <2> QED BY <1>1, <2>1
<1>4. CASE t = Server /\ OnClose(r)
  <2>1. \A x \in Peers : \A y \in Neighbours(x) : ~(x = Server /\ y = r) => info'[x][y] = info[x][y]
    BY ONLY <1>0, <1>1, <1>4, OnCloseEffect
  <2> QED BY <1>1, <1>4, <2>1
<1> QED BY <1>2, <1>3, <1>4

\* A client's PeerInfo of the server, and the replaced ones that still run.
LEMMA MarkInfo ==
    ASSUME Local, [Next]_vars, ~guessed', NEW c \in Clients, MarkOk(c),
           \/ \E d \in info'[c][Server].pending : d.site = c
           \/ info'[c][Server].sync.on /\ c \in info'[c][Server].sync.sites
    PROVE  Marked(c)'
<1> DEFINE i == info[c][Server]
           Names(j) == (\E d \in j.pending : d.site = c) \/ (j.sync.on /\ c \in j.sync.sites)
<1>0. PeerTypeOK
  BY DEF Local
<1>1. /\ c \in Peers /\ c # Server /\ Server \in Peers /\ Server \in Neighbours(c)
      /\ i \in Infos /\ strays[c][Server] \in SUBSET Infos /\ inbox[c][Server] \in Seq(Messages)
      /\ cursor[c] \in Cursors /\ job[c].changes \in SUBSET Changes
  BY <1>0, ClientFacts, PeersAreNumbers, StateTypes
<1>2. Names(i) => Marked(c)
  BY DEF MarkOk, Runs
<1>3. Names(info'[c][Server])
  OBVIOUS
<1>4. CASE Turning(c, Server)
  <2>1. ~Names(NoInfo) /\ \A e : ~Names(NewInfo(e))
    BY NoInfoFields, NewInfoFields
  <2>2. CASE info'[c][Server] = info[c][Server] /\ ~Restart(c)
    BY <1>2, <1>3, <2>2, MarkedStep
  <2>3. CASE Restart(c)
    <3>1. TopsIn(saved[c], hist[c])
      BY <1>1 DEF Local, JobInv, JobOk
    <3>2. info'[c][Server] = NoInfo
      BY ONLY <1>0, <1>1, <2>3, <3>1, RestartEffect
    <3> QED BY <1>3, <2>1, <3>2
  <2>4. \/ OnConnect(c, Server) /\ info'[c][Server] = NewInfo(Head(inbox[c][Server]).epoch)
        \/ info'[c][Server] = NoInfo
        \/ info'[c][Server] = info[c][Server]
    BY <1>1, <1>4, TurningInfo
  <2> HIDE DEF Names
  <2> QED BY <1>3, <2>1, <2>2, <2>3, <2>4
<1>5. ASSUME ~Restart(c), Marked(c) PROVE Marked(c)'
  BY <1>5, MarkedStep
<1>6. ASSUME ~Restart(c), info'[c][Server].pending = i.pending, info'[c][Server].sync = i.sync
      PROVE  Marked(c)'
  BY <1>2, <1>3, <1>5, <1>6
<1>7. CASE Turning(Server, c) /\ ~Turning(c, Server)
  <2>1. info'[c][Server] = info[c][Server] /\ ~Restart(c)
    BY <1>1, <1>7, TurnedByOther DEF Turning
  <2> QED BY <1>6, <2>1
<1>8. CASE ~Turning(c, Server) /\ ~Turning(Server, c)
  <2>0. ~Restart(c)
    BY <1>8 DEF Turning
  <2>1. CASE info'[c][Server] = i
    BY <1>6, <2>0, <2>1
  <2>2. CASE Receive(c, Server) /\ info'[c][Server] = AfterReceive(c, Server)
    <3>1. LET j == AfterReceive(c, Server) IN j.pending = i.pending /\ j.sync = i.sync
      BY ONLY <1>0, <1>1, <2>2, AfterReceiveFacts
    <3> QED BY <1>6, <2>0, <2>2, <3>1
  <2>3. CASE OnSync(c, Server) /\ info'[c][Server] = AfterSync(c, Server)
    <3>1. inbox[c][Server] # <<>>
      BY <2>3 DEF OnSync, Next1
    <3>2. LET j == AfterSync(c, Server)
          IN  j.pending = i.pending /\ (i.known => j.sync.sites = Asked(c, Server)) /\ (~i.known => j = i)
      BY ONLY <1>0, <1>1, <3>1, AfterSyncFacts
    <3>3. CASE ~i.known
      BY <1>6, <2>0, <2>3, <3>2, <3>3
    <3>4. CASE i.known /\ ~(\E d \in i.pending : d.site = c)
      <4>1. c \in Asked(c, Server)
        BY <1>3, <2>3, <3>2, <3>4
      <4> QED BY <1>5, <2>0, <2>3, <4>1, MarkAsked
    <3>5. CASE \E d \in i.pending : d.site = c
      BY <1>2, <1>5, <2>0, <3>5
    <3> QED BY <3>3, <3>4, <3>5
  <2>4. CASE Cancel(c, Server) /\ info'[c][Server] = AfterCancel(c, Server)
    <3>1. LET j == AfterCancel(c, Server)
          IN  j.pending = i.pending /\ j.sync.on = i.sync.on /\ j.sync.sites = i.sync.sites
      BY ONLY <1>0, <1>1, AfterCancelFacts
    <3> QED BY <1>2, <1>3, <1>5, <2>0, <2>4, <3>1
  <2>5. CASE /\ Publish(c)
             /\ info'[c][Server] = AfterBroadcast(c, job[c].changes, job[c].peer)[Server]
    <3> DEFINE j == AfterBroadcast(c, job[c].changes, job[c].peer)[Server]
               J == job[c].changes
               from == job[c].peer
    <3>1. j.sync = i.sync
      BY ONLY <1>0, <1>1, AfterBroadcastSame
    <3>2. Waiting(c, Server, from) => j.pending = i.pending \cup J
      BY ONLY <1>0, <1>1, AfterBroadcastWaiting
    <3>3. Listening(c, Server, from) => j.pending = {}
      BY ONLY <1>0, <1>1, AfterBroadcastListening
    <3>4. ~Waiting(c, Server, from) /\ ~Listening(c, Server, from) => j.pending = i.pending
      BY ONLY <1>0, <1>1, AfterBroadcastOthers
    <3>5. j.pending \subseteq i.pending \cup J
      BY <3>2, <3>3, <3>4
    <3>6. Names(j)
      BY <1>3, <2>5
    <3> HIDE DEF j
    <3>7. Names(i) \/ \E d \in J : d.site = c
      BY <3>1, <3>5, <3>6
    <3> QED BY <1>2, <1>5, <2>0, <2>5, <3>7, PublishMarks
  <2>6. CASE /\ SyncTurn(c, Server)
             /\ info'[c][Server] = AfterTurn(c, i, Advance(i.cursor, Told(c, i)))
    <3> DEFINE cur == Advance(i.cursor, Told(c, i))
               j == AfterTurn(c, i, cur)
    <3>1. Told(c, i) \in SUBSET Changes /\ i.cursor \in Cursors
      BY <1>0, <1>1, TurnFacts, InfoFields
    <3>2. cur \in Cursors
      BY <3>1, AdvanceFacts
    <3>3. CASE IsLast(c, i.sync)
      <4>1. j.pending = {} /\ j.sync = NoSync
        BY <1>1, <3>2, <3>3, AfterTurnLast
      <4> QED BY <1>3, <2>6, <4>1, NoInfoFields
    <3>4. CASE ~IsLast(c, i.sync)
      <4>1. j.pending = i.pending /\ j.sync.on = i.sync.on /\ j.sync.sites = i.sync.sites
        <5> HIDE DEF cur, i
        <5> QED BY ONLY <1>1, <3>2, <3>4, AfterTurnMore
      <4> QED BY <1>2, <1>3, <1>5, <2>0, <2>6, <4>1
    <3> QED BY <3>3, <3>4
  <2>7. ASSUME NEW k \in strays[c][Server], info'[c][Server] = AfterStray(c, Server, k)
        PROVE  Marked(c)'
    <3>1. LET j == AfterStray(c, Server, k) IN j.pending = i.pending /\ j.sync = i.sync
      BY ONLY <1>0, <1>1, k \in strays[c][Server], AfterStrayFacts
    <3> QED BY <1>6, <2>0, <2>7, <3>1
  <2>8. \/ info'[c][Server] = info[c][Server]
        \/ Receive(c, Server) /\ info'[c][Server] = AfterReceive(c, Server)
        \/ OnSync(c, Server) /\ info'[c][Server] = AfterSync(c, Server)
        \/ Cancel(c, Server) /\ info'[c][Server] = AfterCancel(c, Server)
        \/ /\ Publish(c)
           /\ info'[c][Server] = AfterBroadcast(c, job[c].changes, job[c].peer)[Server]
        \/ /\ SyncTurn(c, Server)
           /\ info'[c][Server] = AfterTurn(c, info[c][Server],
                    Advance(info[c][Server].cursor, Told(c, info[c][Server])))
        \/ \E k \in strays[c][Server] : info'[c][Server] = AfterStray(c, Server, k)
    BY <1>1, <1>8, PairStep
  <2> QED BY ONLY <2>1, <2>2, <2>3, <2>4, <2>5, <2>6, <2>7, <2>8
<1> QED BY <1>4, <1>7, <1>8

\* What a client that was told to start another run still keeps from the ones before.
LEMMA MarkStrays ==
    ASSUME Local, [Next]_vars, ~guessed', NEW c \in Clients, MarkOk(c),
           NEW i \in strays'[c][Server],
           (\E d \in i.pending : d.site = c) \/ c \in i.sync.sites
    PROVE  Marked(c)'
<1>0. PeerTypeOK
  BY DEF Local
<1>1. c \in Peers /\ Server \in Neighbours(c)
  BY ClientFacts
<1>2. CASE Restart(c)
  <2>1. TopsIn(saved[c], hist[c])
    BY <1>1 DEF Local, JobInv, JobOk
  <2>2. strays'[c][Server] = {}
    BY ONLY <1>0, <1>1, <1>2, <2>1, RestartEffect
  <2> QED BY <2>2
<1>3. ASSUME ~Restart(c), Marked(c) PROVE Marked(c)'
  BY <1>3, MarkedStep
<1>4. ASSUME NEW j \in strays[c][Server], i.pending = j.pending, i.sync.sites = j.sync.sites
      PROVE  Marked(c)
  <2>1. j.sync.on /\ j \in Runs(c, Server)
    BY <1>1 DEF Local, MessageInv, RunsOk, Runs
  <2> QED BY <1>4, <2>1 DEF MarkOk
<1>5. CASE i = info[c][Server] /\ i.sync.on
  BY <1>2, <1>3, <1>5 DEF MarkOk, Runs
<1>6. \/ \E j \in strays[c][Server] : i.pending = j.pending /\ i.sync.sites = j.sync.sites
      \/ i = info[c][Server] /\ i.sync.on
  BY <1>1, StraysStep
<1> QED BY <1>2, <1>3, <1>4, <1>5, <1>6

\* Every step keeps MarkInv, unless a peer starts with a guessed cursor.
LEMMA MarkStep ==
    ASSUME Local, ~guessed => MarkInv, [Next]_vars
    PROVE  ~guessed' => MarkInv'
<1> SUFFICES ASSUME ~guessed', NEW c \in Clients PROVE MarkOk(c)'
  BY DEF MarkInv
<1>0. PeerTypeOK
  BY DEF Local
<1>1. MarkOk(c)
  BY <1>0, GhostsStep DEF MarkInv
<1>2. cursor'[c][c] > 0 /\ (job'[c].peer = c => job'[c].changes = {}) =>
        saved'[c][c] > 0 \/ saved'[c] = NoCursor
  BY <1>1, MarkCursor
<1>3. (\E d \in hist'[Server] : d.site = c) => Marked(c)'
  BY <1>1, MarkHistory
<1>4. (\E m \in Range(inbox'[Server][c]) : \E d \in m.changes : d.site = c) => Marked(c)'
  BY <1>1, MarkMessages
<1>5. \A i \in Runs(c, Server)' :
        (\E d \in i.pending : d.site = c) \/ (i.sync.on /\ c \in i.sync.sites) => Marked(c)'
  <2>1. SUFFICES ASSUME NEW i \in Runs(c, Server)',
                        (\E d \in i.pending : d.site = c) \/ (i.sync.on /\ c \in i.sync.sites)
                 PROVE  Marked(c)'
    OBVIOUS
  <2>2. CASE i = info'[c][Server]
    BY <1>1, <2>1, <2>2, MarkInfo
  <2>3. CASE i \in strays'[c][Server]
    BY <1>1, <2>1, <2>3, MarkStrays
  <2> QED BY <2>2, <2>3 DEF Runs
<1> QED BY <1>2, <1>3, <1>4, <1>5 DEF MarkOk

---------------------------------------------------------------------------
(* What the messages of an inbox bring, in order.                          *)

\* What there is when the messages are handled, and that no step of it leaves a gap.
Brings(base, box) == base \cup Carried(box, Len(box))
Ordered(base, box) == \A k \in 0 .. Len(box) : Closed(base \cup Carried(box, k))

\* What the first messages carry, and the next.
LEMMA CarriedNone ==
    ASSUME NEW box
    PROVE  Carried(box, 0) = {}
BY DEF Carried

\* Messages of the same changes carry the same.
LEMMA CarriedSame ==
    ASSUME NEW box, NEW new, NEW n \in Nat, \A j \in 1 .. n : new[j].changes = box[j].changes
    PROVE  Carried(new, n) = Carried(box, n)
BY DEF Carried

\* What one message more carries.
LEMMA CarriedUpTo ==
    ASSUME NEW box, NEW n \in Nat
    PROVE  Carried(box, n + 1) = Carried(box, n) \cup box[n + 1].changes
<1>1. 1 .. n + 1 = (1 .. n) \cup {n + 1}
  OBVIOUS
<1>2. Carried(box, n + 1) \subseteq Carried(box, n) \cup box[n + 1].changes
  BY <1>1 DEF Carried
<1>3. Carried(box, n) \cup box[n + 1].changes \subseteq Carried(box, n + 1)
  BY <1>1 DEF Carried
<1> QED BY <1>2, <1>3

\* Without its first message.
LEMMA CarriedTail ==
    ASSUME NEW box \in Seq(Messages), box # <<>>, NEW k \in 0 .. Len(Tail(box))
    PROVE  /\ k + 1 \in 0 .. Len(box)
           /\ Carried(box, k + 1) = Head(box).changes \cup Carried(Tail(box), k)
<1>1. /\ Len(box) \in Nat \ {0} /\ Len(Tail(box)) = Len(box) - 1 /\ Head(box) = box[1]
      /\ DOMAIN Tail(box) = 1 .. Len(box) - 1 /\ k \in Nat
      /\ \A j \in DOMAIN Tail(box) : Tail(box)[j] = box[j + 1]
  BY TailIndex
<1>2. k + 1 \in 0 .. Len(box)
  BY <1>1
<1>3. ASSUME NEW d \in Carried(box, k + 1) PROVE d \in Head(box).changes \cup Carried(Tail(box), k)
  <2>1. PICK j \in 1 .. k + 1 : d \in box[j].changes
    BY <1>3 DEF Carried
  <2>2. CASE j = 1
    BY <1>1, <2>1, <2>2
  <2>3. CASE j # 1
    <3>1. j - 1 \in 1 .. k /\ j - 1 \in DOMAIN Tail(box) /\ (j - 1) + 1 = j
      BY <1>1, <2>3
    <3>2. Tail(box)[j - 1] = box[j]
      BY <1>1, <3>1
    <3> QED BY <2>1, <3>1, <3>2 DEF Carried
  <2> QED BY <2>2, <2>3
<1>4. ASSUME NEW d \in Head(box).changes \cup Carried(Tail(box), k) PROVE d \in Carried(box, k + 1)
  <2>1. CASE d \in Head(box).changes
    <3>1. 1 \in 1 .. k + 1
      BY <1>1
    <3> QED BY <1>1, <2>1, <3>1 DEF Carried
  <2>2. CASE d \in Carried(Tail(box), k)
    <3>1. PICK j \in 1 .. k : d \in Tail(box)[j].changes
      BY <2>2 DEF Carried
    <3>2. j + 1 \in 1 .. k + 1 /\ j \in DOMAIN Tail(box)
      BY <1>1
    <3>3. d \in box[j + 1].changes
      BY <1>1, <3>1, <3>2
    <3> QED BY <3>2, <3>3 DEF Carried
  <2> QED BY <1>4, <2>1, <2>2
<1> QED BY <1>2, <1>3, <1>4

\* With one more message that carries some changes, or none.
LEMMA OrderedAppend ==
    ASSUME NEW box \in Seq(Messages), NEW m \in Messages, NEW base,
           Ordered(base, box), Closed(Brings(base, box) \cup m.changes)
    PROVE  /\ Ordered(base, Append(box, m))
           /\ Brings(base, Append(box, m)) = Brings(base, box) \cup m.changes
<1> DEFINE n == Len(box)
           new == Append(box, m)
<1>1. /\ n \in Nat /\ Len(new) = n + 1 /\ new[n + 1] = m
      /\ \A k \in 1 .. n : new[k] = box[k]
  BY AppendFacts
<1> HIDE DEF n, new
<1>2. \A k \in 0 .. n : Carried(new, k) = Carried(box, k)
  <2>1. ASSUME NEW k \in 0 .. n PROVE Carried(new, k) = Carried(box, k)
    <3>1. k \in Nat /\ \A j \in 1 .. k : new[j].changes = box[j].changes
      BY <1>1
    <3> QED BY <3>1, CarriedSame
  <2> QED BY <2>1
<1>3. Carried(new, n + 1) = Carried(box, n) \cup m.changes
  <2>1. n \in 0 .. n
    BY <1>1
  <2>2. Carried(new, n + 1) = Carried(new, n) \cup new[n + 1].changes
    BY <1>1, CarriedUpTo
  <2> QED BY <1>1, <1>2, <2>1, <2>2
<1>4. base \cup Carried(new, Len(new)) = (base \cup Carried(box, n)) \cup m.changes
  BY <1>1, <1>3
<1>5. \A k \in 0 .. n + 1 : Closed(base \cup Carried(new, k))
  <2>1. ASSUME NEW k \in 0 .. n + 1 PROVE Closed(base \cup Carried(new, k))
    <3>1. CASE k = n + 1
      BY <1>1, <1>4, <3>1 DEF Brings, n
    <3>2. CASE k \in 0 .. n
      BY <1>2, <3>2 DEF Ordered, n
    <3> QED BY <1>1, <3>1, <3>2
  <2> QED BY <2>1
<1> QED BY <1>1, <1>4, <1>5 DEF Ordered, Brings, n, new

\* What is there now and what will be there have no gap.
LEMMA OrderedEnds ==
    ASSUME NEW box \in Seq(Messages), NEW base, Ordered(base, box)
    PROVE  Closed(base) /\ Closed(Brings(base, box))
<1>1. Len(box) \in Nat
  BY BoxFacts
<1>2. 0 \in 0 .. Len(box) /\ Len(box) \in 0 .. Len(box)
  BY <1>1
<1>3. base \cup Carried(box, 0) = base
  BY CarriedNone
<1> QED BY <1>2, <1>3 DEF Ordered, Brings

\* A message without changes at the end leaves the order.
LEMMA OrderedAppendNone ==
    ASSUME NEW box \in Seq(Messages), NEW m \in Messages, NEW base, Ordered(base, box), m.changes = {}
    PROVE  /\ Ordered(base, Append(box, m))
           /\ Brings(base, Append(box, m)) = Brings(base, box)
<1>1. Brings(base, box) \cup m.changes = Brings(base, box)
  OBVIOUS
<1>2. Closed(Brings(base, box) \cup m.changes)
  BY <1>1, OrderedEnds
<1> QED BY <1>1, <1>2, OrderedAppend

\* A head that brings nothing new may go.
LEMMA OrderedTail ==
    ASSUME NEW box \in Seq(Messages), box # <<>>, NEW base, Ordered(base, box),
           Head(box).changes \subseteq base
    PROVE  Ordered(base, Tail(box)) /\ Brings(base, Tail(box)) = Brings(base, box)
<1>1. Len(box) \in Nat \ {0} /\ Len(Tail(box)) = Len(box) - 1
  BY TailIndex
<1>2. \A k \in 0 .. Len(Tail(box)) :
        k + 1 \in 0 .. Len(box) /\ base \cup Carried(Tail(box), k) = base \cup Carried(box, k + 1)
  BY CarriedTail
<1>3. Len(Tail(box)) \in 0 .. Len(Tail(box)) /\ Len(Tail(box)) + 1 = Len(box)
  BY <1>1
<1>4. base \cup Carried(Tail(box), Len(Tail(box))) = base \cup Carried(box, Len(box))
  BY <1>2, <1>3
<1>5. ASSUME NEW k \in 0 .. Len(Tail(box)) PROVE Closed(base \cup Carried(Tail(box), k))
  BY <1>2 DEF Ordered
<1> QED BY <1>4, <1>5 DEF Ordered, Brings

\* What is left of an inbox in order is in order.
LEMMA OrderedPrefix ==
    ASSUME NEW box \in Seq(Messages), NEW n \in 0 .. Len(box), NEW base, Ordered(base, box)
    PROVE  Ordered(base, SubSeq(box, 1, n))
<1>1. /\ Len(box) \in Nat /\ n \in Nat /\ Len(SubSeq(box, 1, n)) = n
      /\ \A k \in 1 .. n : SubSeq(box, 1, n)[k] = box[k]
  BY PrefixFacts
<1>2. ASSUME NEW k \in 0 .. n PROVE Closed(base \cup Carried(SubSeq(box, 1, n), k))
  <2>1. k \in Nat /\ \A j \in 1 .. k : SubSeq(box, 1, n)[j].changes = box[j].changes
    BY <1>1
  <2>2. Carried(SubSeq(box, 1, n), k) = Carried(box, k)
    BY <2>1, CarriedSame
  <2>3. k \in 0 .. Len(box)
    BY <1>1
  <2> QED BY <2>2, <2>3 DEF Ordered
<1> QED BY <1>1, <1>2 DEF Ordered

\* More without gaps to start from leaves the order.
LEMMA OrderedMore ==
    ASSUME NEW box \in Seq(Messages), NEW base, NEW X, Closed(X), Ordered(base, box)
    PROVE  Ordered(base \cup X, box) /\ Brings(base, box) \subseteq Brings(base \cup X, box)
<1>1. ASSUME NEW k \in 0 .. Len(box) PROVE Closed((base \cup X) \cup Carried(box, k))
  <2>1. Closed((base \cup Carried(box, k)) \cup X)
    BY ClosedUnion DEF Ordered
  <2>2. (base \cup Carried(box, k)) \cup X = (base \cup X) \cup Carried(box, k)
    OBVIOUS
  <2> QED BY <2>1, <2>2
<1> QED BY <1>1 DEF Ordered, Brings

\* An empty inbox.
LEMMA OrderedNothing ==
    ASSUME NEW base, Closed(base)
    PROVE  Ordered(base, <<>>) /\ Brings(base, <<>>) = base
<1>1. Len(<<>>) = 0 /\ Carried(<<>>, 0) = {}
  BY CarriedNone
<1>2. base \cup Carried(<<>>, 0) = base
  BY <1>1
<1>3. \A k \in 0 .. Len(<<>>) : k = 0
  BY <1>1
<1>4. Ordered(base, <<>>)
  BY <1>1, <1>2, <1>3 DEF Ordered
<1>5. Brings(base, <<>>) = base
  BY <1>1, <1>2 DEF Brings
<1> QED BY <1>4, <1>5

\* Two messages of changes, each left out if there are none.
LEMMA OrderedOneMore ==
    ASSUME NEW box \in Seq(Messages), NEW A \in SUBSET Changes, NEW base,
           Ordered(base, box), Closed(Brings(base, box) \cup A)
    PROVE  /\ box \o NonEmpty(A) \in Seq(Messages)
           /\ Ordered(base, box \o NonEmpty(A))
           /\ Brings(base, box \o NonEmpty(A)) = Brings(base, box) \cup A
<1>1. CASE A = {}
  <2>1. box \o NonEmpty(A) = box
    BY <1>1 DEF NonEmpty
  <2> QED BY <1>1, <2>1
<1>2. CASE A # {}
  <2>1. box \o NonEmpty(A) = Append(box, Data(A))
    BY <1>2 DEF NonEmpty
  <2>2. Data(A) \in Messages
    BY MessageTypes
  <2>3. Data(A).changes = A
    BY DEF Data
  <2> HIDE DEF Data
  <2>4. /\ Ordered(base, Append(box, Data(A)))
        /\ Brings(base, Append(box, Data(A))) = Brings(base, box) \cup A
    BY <2>2, <2>3, OrderedAppend
  <2>5. Append(box, Data(A)) \in Seq(Messages)
    BY <2>2, AppendFacts
  <2> QED BY <2>1, <2>4, <2>5
<1> QED BY <1>1, <1>2

\* Two messages of a turn come in order.
LEMMA OrderedTwoMore ==
    ASSUME NEW box \in Seq(Messages), NEW A \in SUBSET Changes, NEW B \in SUBSET Changes, NEW base,
           Ordered(base, box), Closed(Brings(base, box) \cup A), Closed(Brings(base, box) \cup A \cup B)
    PROVE  /\ Ordered(base, box \o (NonEmpty(A) \o NonEmpty(B)))
           /\ Brings(base, box \o (NonEmpty(A) \o NonEmpty(B))) = Brings(base, box) \cup A \cup B
<1> DEFINE first == box \o NonEmpty(A)
<1>1. /\ first \in Seq(Messages) /\ Ordered(base, first)
      /\ Brings(base, first) = Brings(base, box) \cup A
  BY OrderedOneMore
<1>2. NonEmpty(A) \in Seq(Messages) /\ NonEmpty(B) \in Seq(Messages)
  BY NonEmptyFacts
<1>3. box \o (NonEmpty(A) \o NonEmpty(B)) = first \o NonEmpty(B)
  BY <1>2
<1> HIDE DEF first
<1>4. /\ Ordered(base, first \o NonEmpty(B))
      /\ Brings(base, first \o NonEmpty(B)) = Brings(base, first) \cup B
  BY <1>1, OrderedOneMore
<1> QED BY <1>1, <1>3, <1>4

---------------------------------------------------------------------------
(* What a peer has, and how that grows.                                    *)

\* What a cursor covers is in the history, or on its way there.
LEMMA CoveredIsLogged ==
    ASSUME Local, NEW p \in Peers, Closed(hist[p])
    PROVE  /\ Covered(p) \subseteq hist[p] \cup Unlogged(p)
           /\ job[p].step # "read" => Covered(p) \subseteq hist[p]
           /\ Share(p) \subseteq hist[p]
           /\ Covered(p) \subseteq Changes /\ Closed(Covered(p))
<1>0. PeerTypeOK
  BY DEF Local
<1>1. /\ cursor[p] \in Cursors /\ hist[p] \in SUBSET Changes /\ job[p].changes \in SUBSET Changes
  BY <1>0, StateTypes
<1>2. /\ job[p].step = "read" => job[p].peer = p
      /\ job[p].peer = p => \A c \in job[p].changes : c.site = p
      /\ \A d \in Covered(p) : d.site = p => d \in hist[p] \cup Unlogged(p)
      /\ TopsIn(cursor[p], hist[p] \cup Unlogged(p))
  BY DEF Local, JobInv, JobOk
<1>3. \A d \in Unlogged(p) : d.site = p /\ job[p].peer = p /\ d \in job[p].changes
  BY <1>2 DEF Unlogged
<1>4. ASSUME NEW d \in Covered(p) PROVE d \in hist[p] \cup Unlogged(p)
  <2>1. d \in Changes /\ d.version <= cursor[p][d.site]
    BY <1>4 DEF Covered, Below
  <2>2. d.site \in Peers /\ d.version \in Nat /\ d.version >= 1
    BY <2>1, ChangeFacts
  <2>3. CASE d.site = p
    BY <1>2, <1>4, <2>3
  <2>4. CASE d.site # p
    <3> DEFINE s == d.site
               e == [site |-> s, version |-> cursor[p][s]]
    <3>1. cursor[p][s] \in Nat /\ cursor[p][s] > 0
      BY <1>1, <2>1, <2>2 DEF Cursors
    <3>2. e \in hist[p] \cup Unlogged(p)
      BY <1>2, <2>2, <3>1 DEF TopsIn
    <3>3. e \in hist[p]
      BY <1>3, <2>4, <3>2
    <3>4. d.site = e.site /\ d.version <= e.version
      BY <2>1
    <3> HIDE DEF e
    <3> QED BY <2>1, <3>3, <3>4 DEF Closed
  <2> QED BY <2>3, <2>4
<1>5. Covered(p) \subseteq Changes /\ Closed(Covered(p))
  BY <1>1, BelowIsClosed DEF Covered
<1>6. job[p].step # "read" => Unlogged(p) = {}
  BY DEF Unlogged
<1>7. Share(p) \subseteq Covered(p) /\ \A d \in Share(p) : job[p].peer = p => d \notin job[p].changes
  BY DEF Share
<1>8. Share(p) \subseteq hist[p]
  BY <1>3, <1>4, <1>7
<1> QED BY <1>4, <1>5, <1>6, <1>8

\* What a peer can count on is in its history when it reads nothing of its own.
LEMMA BaseIsLogged ==
    ASSUME Local, NEW p \in Peers, Closed(hist[p])
    PROVE  /\ p # Server => Base(p) = hist[p]
           /\ job[p].step # "read" => Base(p) \subseteq hist[p]
<1>1. /\ job[p].step = "known" => job[p].changes \subseteq hist[p]
      /\ job[p].step \in {"idle", "waiting"} => job[p].changes = {}
  BY DEF Local, JobInv, JobOk
<1>2. job[p].step \in {"idle", "waiting", "read", "known"}
  BY StateTypes DEF Local
<1> QED BY <1>1, <1>2, CoveredIsLogged DEF Base

\* A peer that receives changes has all of them, also those it filters away.
LEMMA ReceiveBase ==
    ASSUME Local, NEW p \in Peers, NEW q \in Neighbours(p), Receive(p, q), info[p][q].known,
           Closed(hist[p])
    PROVE  /\ Base(p)' = Base(p) \cup Head(inbox[p][q]).changes
           /\ hist'[p] = hist[p] \cup Head(inbox[p][q]).changes
           /\ Base(p) \subseteq hist[p]
<1> DEFINE new == Head(inbox[p][q]).changes
           R == Received(p, q)
<1>0. PeerTypeOK
  BY DEF Local
<1>1. /\ inbox[p][q] # <<>> /\ inbox[p][q] \in Seq(Messages) /\ R \in SUBSET Changes /\ R \subseteq new
      /\ job[p].step = "idle" /\ new \in SUBSET Changes /\ cursor[p] \in Cursors
  BY <1>0, ReceivedType, StateTypes, HeadFacts, MessageFields
<1>2. hist'[p] = hist[p] \cup R
  BY ONLY <1>0, p \in Peers, q \in Neighbours(p), Receive(p, q), ReceiveEffect
<1>3. (R # {} => job'[p].changes = R) /\ (R = {} => job'[p] = job[p])
  BY ONLY <1>0, p \in Peers, q \in Neighbours(p), Receive(p, q), ReceiveJob
<1>4. cursor' = cursor
  BY DEF Receive
<1>5. job[p].changes = {} /\ Covered(p) \subseteq hist[p] /\ Base(p) \subseteq hist[p]
  BY <1>1, CoveredIsLogged, BaseIsLogged DEF Local, JobInv, JobOk
<1>6. new \ R \subseteq Covered(p)
  <2>1. ASSUME NEW d \in new, d \notin R PROVE d \in Covered(p)
    <3>1. d \in Changes
      BY <1>1
    <3>2. d.site \in Peers /\ d.version \in Nat /\ cursor[p][d.site] \in Nat
      BY <1>1, <3>1, ChangeFacts DEF Cursors
    <3>3. ~(d.version >= cursor[p][d.site])
      BY <2>1 DEF Received, Fresh
    <3>4. d.version <= cursor[p][d.site]
      BY <3>2, <3>3
    <3> QED BY <3>1, <3>4 DEF Covered, Below
  <2> QED BY <2>1
<1>7. job'[p].changes = R
  BY <1>3, <1>5
<1>8. Covered(p)' = Covered(p)
  BY <1>4 DEF Covered
<1> HIDE DEF new, R
<1>9. hist'[p] = hist[p] \cup new
  BY <1>1, <1>2, <1>5, <1>6
<1>10. Base(p)' = Base(p) \cup new
  <2>1. CASE p = Server
    BY <1>1, <1>5, <1>6, <1>7, <1>8, <2>1 DEF Base
  <2>2. CASE p # Server
    BY <1>9, <2>2 DEF Base
  <2> QED BY <2>1, <2>2
<1> QED BY <1>5, <1>9, <1>10 DEF new

\* Own changes are logged in their order.
LEMMA OwnIsClosed ==
    ASSUME NEW H \in SUBSET Changes, NEW p,
           \A d \in H : d.site = p =>
                \A e \in Changes : e.site = p /\ e.version <= d.version => e \in H
    PROVE  Closed({d \in H : d.site = p})
BY DEF Closed

\* The first message that brings changes leaves no gap, and its sender is known.
LEMMA ReceiveOrdered ==
    ASSUME Local, PhaseInv, OrderInv, NEW p \in Peers, NEW q \in Neighbours(p), Receive(p, q)
    PROVE  /\ info[p][q].known /\ inbox[p][q] # <<>>
           /\ Closed(Base(p) \cup Head(inbox[p][q]).changes)
           /\ Closed(Base(p)) /\ Closed(hist[p])
           /\ Closed(hist[p] \cup Head(inbox[p][q]).changes)
<1> DEFINE box == inbox[p][q]
<1>1. box \in Seq(Messages) /\ box # <<>> /\ Head(box).type = "data"
  BY StateTypes DEF Local, Receive, Next1
<1>2. Head(box) = box[1] /\ 1 \in DOMAIN box /\ Len(box) \in Nat \ {0}
  BY <1>1, TailIndex
<1>3. info[p][q].known
  BY <1>1, <1>2 DEF PhaseInv, PhaseOk, HasData
<1>4. Closed(hist[p]) /\ Ordered(Base(p), box)
  BY DEF OrderInv, OrderOk, Ordered
<1>5. Closed(Base(p))
  BY <1>1, <1>4, OrderedEnds
<1>6. Closed(Base(p) \cup Head(box).changes)
  <2>1. 1 \in 0 .. Len(box)
    BY <1>2
  <2>2. Carried(box, 0 + 1) = Carried(box, 0) \cup box[0 + 1].changes
    BY CarriedUpTo
  <2>3. Carried(box, 1) = Head(box).changes
    <3>1. 0 + 1 = 1 /\ Carried(box, 0) = {}
      BY CarriedNone
    <3> HIDE DEF box
    <3> QED BY <1>2, <2>2, <3>1
  <2> QED BY <1>4, <2>1, <2>3 DEF Ordered
<1>7. Base(p) \subseteq hist[p]
  BY <1>3, <1>4, ReceiveBase
<1>8. Closed((Base(p) \cup Head(box).changes) \cup hist[p])
  BY <1>4, <1>6, ClosedUnion
<1>9. (Base(p) \cup Head(box).changes) \cup hist[p] = hist[p] \cup Head(box).changes
  BY <1>7
<1> QED BY <1>1, <1>3, <1>4, <1>5, <1>6, <1>8, <1>9

\* No change comes into a history without the earlier ones.
LEMMA HistoriesClosed ==
    ASSUME Local, Local', PhaseInv, OrderInv, [Next]_vars, NEW p \in Peers
    PROVE  Closed(hist[p])'
<1>1. Closed(hist[p])
  BY DEF OrderInv
<1>2. CASE hist'[p] = hist[p]
  BY <1>1, <1>2
<1>3. CASE job[p].step = "read" /\ hist'[p] = hist[p] \cup job[p].changes
  <2>1. \A d \in job[p].changes : d.site = p
    BY <1>3 DEF Local, JobInv, JobOk
  <2>2. Closed({d \in hist[p] : d.site = p})'
    <3> DEFINE H == hist'[p]
    <3>1. H \in SUBSET Changes
      BY DEF Local, PeerTypeOK
    <3>2. \A d \in H : d.site = p => \A e \in Changes : e.site = p /\ e.version <= d.version => e \in H
      BY DEF Local, HistoryInv
    <3> HIDE DEF H
    <3>3. Closed({d \in H : d.site = p})
      BY <3>1, <3>2, OwnIsClosed
    <3> QED BY <3>3 DEF H
  <2>3. Closed(hist[p] \cup {d \in hist'[p] : d.site = p})
    BY <1>1, <2>2, ClosedUnion
  <2>4. hist[p] \cup {d \in hist'[p] : d.site = p} = hist'[p]
    BY <1>3, <2>1
  <2> QED BY <2>3, <2>4
<1>4. ASSUME NEW q \in Neighbours(p), Receive(p, q) PROVE Closed(hist[p])'
  <2>1. info[p][q].known /\ Closed(hist[p] \cup Head(inbox[p][q]).changes)
    BY <1>4, ReceiveOrdered
  <2>2. hist'[p] = hist[p] \cup Head(inbox[p][q]).changes
    BY <1>1, <1>4, <2>1, ReceiveBase
  <2> QED BY <2>1, <2>2
<1> QED BY <1>2, <1>3, <1>4, OwnStep

\* What a peer can count on grows by what leaves no gap, unless the server stops.
LEMMA BaseStep ==
    ASSUME Local, Local', PhaseInv, OrderInv, [Next]_vars, NEW p \in Peers, NEW q \in Neighbours(p)
    PROVE  \/ p = Server /\ Restart(p) /\ Closed(Base(p)')
           \/ \E X : Closed(X) /\ Base(p)' = Base(p) \cup X
<1> DEFINE Goal == \/ p = Server /\ Restart(p) /\ Closed(Base(p)')
                   \/ \E X : Closed(X) /\ Base(p)' = Base(p) \cup X
<1>0. PeerTypeOK
  BY DEF Local
<1>1. /\ cursor[p] \in Cursors /\ job[p].changes \in SUBSET Changes /\ inbox[p][q] \in Seq(Messages)
      /\ cursor'[p] \in Cursors
  BY <1>0, StateTypes DEF Local, PeerTypeOK
<1>2. Closed(hist[p]) /\ Closed(Base(p)) /\ Closed({})
  <2>1. Closed(hist[p]) /\ Ordered(Base(p), inbox[p][q])
    BY DEF OrderInv, OrderOk, Ordered
  <2>2. Closed({})
    BY DEF Closed
  <2> QED BY <1>1, <2>1, <2>2, OrderedEnds
<1>3. ASSUME Base(p)' = Base(p) PROVE Goal
  <2>1. Base(p)' = Base(p) \cup {}
    BY <1>3
  <2> QED BY <1>2, <2>1
<1>4. ASSUME Base(p) \subseteq Base(p)', Closed(Base(p)') PROVE Goal
  <2>1. Base(p)' = Base(p) \cup Base(p)'
    BY <1>4
  <2>2. \E X : Closed(X) /\ Base(p)' = Base(p) \cup X
    <3> DEFINE B == Base(p)'
    <3>1. Closed(B) /\ B = Base(p) \cup B
      BY <1>4, <2>1
    <3> HIDE DEF B
    <3>2. \E X : Closed(X) /\ B = Base(p) \cup X
      BY <3>1
    <3> QED BY <3>2 DEF B
  <2> QED BY <2>2
<1>5. CASE p # Server
  <2>1. Closed(hist[p])'
    BY HistoriesClosed
  <2>2. hist[p] \subseteq hist'[p]
    BY <1>0, HistoriesGrow
  <2>3. Base(p)' = hist'[p] /\ Base(p) = hist[p]
    BY <1>5 DEF Base
  <2>4. Closed(hist'[p])
    BY <2>1
  <2> QED BY <1>4, <2>2, <2>3, <2>4
<1>6. CASE p = Server
  <2>0. Base(p) = Covered(p) \cup job[p].changes /\ Base(p)' = Below(cursor'[p]) \cup job'[p].changes
    BY <1>6 DEF Base, Covered
  <2>1. CASE UNCHANGED <<cursor[p], job[p]>>
    BY <1>3, <2>0, <2>1 DEF Covered
  <2>2. CASE job'[p].changes = job[p].changes /\ cursor'[p] = cursor[p]
    BY <1>3, <2>0, <2>2 DEF Covered
  <2>3. CASE /\ cursor'[p] = Advance(cursor[p], LocalChanges(p))
             /\ job'[p] = [step |-> "read", changes |-> LocalChanges(p), peer |-> p]
             /\ job[p].step = "idle"
    <3>1. job[p].changes = {} /\ job'[p].changes = LocalChanges(p)
      <4>1. job[p].step = "idle" => job[p].changes = {}
        BY DEF Local, JobInv, JobOk
      <4> QED BY <2>3, <4>1
    <3>2. LocalChanges(p) \in SUBSET Changes
      BY <1>0, LocalChangesFacts
    <3>3. Below(cursor[p]) \subseteq Below(cursor'[p]) /\ LocalChanges(p) \subseteq Below(cursor'[p])
      BY <1>1, <2>3, <3>2, AdvanceCovers
    <3>4. Base(p)' = Below(cursor'[p]) /\ Base(p) \subseteq Below(cursor'[p])
      BY <2>0, <3>1, <3>3 DEF Covered
    <3>5. Closed(Below(cursor'[p]))
      BY <1>1, BelowIsClosed
    <3> QED BY <1>4, <3>4, <3>5
  <2>4. CASE /\ cursor'[p] = Advance(cursor[p], job[p].changes) /\ job'[p] = Idle
    <3>1. job'[p].changes = {}
      BY <2>4 DEF Idle
    <3>2. Below(cursor[p]) \subseteq Below(cursor'[p]) /\ job[p].changes \subseteq Below(cursor'[p])
      BY <1>1, <2>4, AdvanceCovers
    <3>3. Base(p)' = Below(cursor'[p]) /\ Base(p) \subseteq Below(cursor'[p])
      BY <2>0, <3>1, <3>2 DEF Covered
    <3>4. Closed(Below(cursor'[p]))
      BY <1>1, BelowIsClosed
    <3> QED BY <1>4, <3>3, <3>4
  <2>5. ASSUME NEW t \in Neighbours(p), Receive(p, t) PROVE Goal
    <3>1. /\ info[p][t].known /\ Closed(Base(p) \cup Head(inbox[p][t]).changes)
      BY <2>5, ReceiveOrdered
    <3>2. Base(p)' = Base(p) \cup Head(inbox[p][t]).changes
      BY <1>2, <2>5, <3>1, ReceiveBase
    <3>3. Base(p) \subseteq Base(p)' /\ Closed(Base(p)')
      BY <3>1, <3>2
    <3> QED BY <1>4, <3>3
  <2>6. CASE job'[p].changes = {} /\ job[p].changes = {} /\ cursor'[p] = cursor[p]
    BY <1>3, <2>0, <2>6 DEF Covered
  <2>7. CASE Restart(p) /\ job'[p] = Idle
    <3>1. job'[p].changes = {}
      BY <2>7 DEF Idle
    <3>2. Closed(Below(cursor'[p]))
      BY <1>1, BelowIsClosed
    <3>3. Base(p)' = Below(cursor'[p])
      BY <2>0, <3>1
    <3>4. Closed(Base(p)')
      BY <3>2, <3>3
    <3> QED BY <1>6, <2>7, <3>4
  <2> HIDE DEF Goal
  <2>8. \/ UNCHANGED <<cursor[p], job[p]>>
        \/ job'[p].changes = job[p].changes /\ cursor'[p] = cursor[p]
        \/ /\ cursor'[p] = Advance(cursor[p], LocalChanges(p))
           /\ job'[p] = [step |-> "read", changes |-> LocalChanges(p), peer |-> p]
           /\ job[p].step = "idle"
        \/ cursor'[p] = Advance(cursor[p], job[p].changes) /\ job'[p] = Idle
        \/ \E t \in Neighbours(p) : Receive(p, t)
        \/ job'[p].changes = {} /\ job[p].changes = {} /\ cursor'[p] = cursor[p]
        \/ Restart(p) /\ job'[p] = Idle
    BY OwnStep
  <2> QED BY <2>1, <2>2, <2>3, <2>4, <2>5, <2>6, <2>7, <2>8 DEF Goal
<1> QED BY <1>5, <1>6

---------------------------------------------------------------------------
(* What a peer tells another leaves no gap there.                          *)

\* What the other end knows of a joined peer, as the invariant has it.
LEMMA TellFacts ==
    ASSUME TellInv, NEW p \in Peers, NEW q \in Neighbours(p), Up(p, q), Joined(p, q)
    PROVE  LET i == info[p][q]
               will == Will(q, p)
           IN  /\ \A d \in Below(i.cursor) : p = Server => d \in will
               /\ \A d \in Below(i.cursor) : d.site = p => d \in hist[q] \cup will
               /\ i.pending \subseteq Share(p)
               /\ i.sync.on =>
                    /\ Below(i.sync.from) \subseteq will
                    /\ \A d \in Rows(p, i.sync.sites, i.sync.from) :
                        Place(d, Rows(p, i.sync.sites, i.sync.from)) <= i.sync.offset => d \in will
                    /\ \A d \in Share(p) : d \in will \cup i.pending \/ d.site \in i.sync.sites
               /\ i.active => Share(p) \subseteq will
               /\ i.sync.on \/ i.active => \A d \in hist[q] :
                    d.site = p => d \in will \/ (i.sync.on /\ p \in i.sync.sites)
BY DEF TellInv, TellOk

\* What an answering peer is, while the stream is open.
LEMMA AnswerFacts ==
    ASSUME PhaseInv, NEW p \in Peers, NEW q \in Neighbours(p), Up(p, q), Joined(p, q),
           info[p][q].sync.on \/ info[p][q].active
    PROVE  /\ ~(info[p][q].sync.on /\ info[p][q].active) /\ ~info[p][q].sync.cancel
           /\ ~HasSync(inbox[p][q]) /\ Joined(q, p)
BY DEF PhaseInv, PhaseOk, Answers

\* What precedes the changes of a callback is among them or was published before.
LEMMA JobFollows ==
    ASSUME Local, NEW p \in Peers, Closed(Base(p)), job[p].step = "known",
           job[p].peer = p \/ p = Server,
           NEW e \in job[p].changes, NEW d \in Changes, d.site = e.site, d.version <= e.version
    PROVE  d \in Share(p) \cup job[p].changes
<1>0. PeerTypeOK
  BY DEF Local
<1>1. cursor[p] \in Cursors /\ job[p].changes \in SUBSET Changes
  BY <1>0, StateTypes
<1>2. CASE job[p].peer = p
  <2>1. e.site = p /\ e \in Covered(p)
    BY <1>2 DEF Local, JobInv, JobOk
  <2>2. Closed(Covered(p))
    BY <1>1, BelowIsClosed DEF Covered
  <2>3. d \in Covered(p)
    BY <2>1, <2>2 DEF Closed
  <2> QED BY <2>1, <2>3 DEF Share
<1>3. CASE job[p].peer # p /\ p = Server
  <2>1. e \in Base(p)
    BY <1>3 DEF Base
  <2>2. d \in Base(p)
    BY <2>1 DEF Closed
  <2>3. d \in Covered(p) \/ d \in job[p].changes
    BY <1>3, <2>2 DEF Base
  <2> QED BY <1>3, <2>3 DEF Share
<1> QED BY <1>2, <1>3

\* What has been published has no gap either.
LEMMA ShareFollows ==
    ASSUME Local, NEW p \in Peers,
           NEW e \in Share(p), NEW d \in Changes, d.site = e.site, d.version <= e.version
    PROVE  d \in Share(p)
<1>1. cursor[p] \in Cursors /\ job[p].changes \in SUBSET Changes
  BY StateTypes DEF Local
<1>2. e \in Covered(p) /\ (job[p].peer = p => e \notin job[p].changes) /\ (p = Server \/ e.site = p)
  BY DEF Share
<1>3. Closed(Covered(p))
  BY <1>1, BelowIsClosed DEF Covered
<1>4. d \in Covered(p)
  BY <1>2, <1>3 DEF Closed
<1>5. job[p].peer = p => \A c \in job[p].changes :
        c.site = p /\ \A x \in Covered(p) : x.site = p /\ c.version <= x.version => x \in job[p].changes
  BY DEF Local, JobInv, JobOk
<1>6. ASSUME job[p].peer = p, d \in job[p].changes PROVE FALSE
  <2>1. d.site = p /\ (e.site = p /\ d.version <= e.version => e \in job[p].changes)
    BY <1>2, <1>5, <1>6
  <2> QED BY <1>2, <1>6, <2>1
<1> QED BY <1>2, <1>4, <1>6 DEF Share

\* A broadcast to a peer that listens: what it is not sent, it has.
LEMMA PublishTold ==
    ASSUME Local, PhaseInv, OrderInv, TellInv, NEW p \in Peers, NEW q \in Neighbours(p),
           job[p].step = "known", Up(p, q), Joined(p, q), info[p][q].active, q # job[p].peer
    PROVE  /\ info[p][q].pending = {} /\ Share(p) \subseteq Will(q, p)
           /\ Closed(Will(q, p)) /\ Closed(Will(q, p) \cup Fresh(job[p].changes, info[p][q].cursor))
           /\ job[p].changes \subseteq Will(q, p) \cup Fresh(job[p].changes, info[p][q].cursor)
<1> DEFINE W == Will(q, p)
           J == job[p].changes
           cur == info[p][q].cursor
           B == Fresh(J, cur)
<1>0. PeerTypeOK
  BY DEF Local
<1>1. /\ q \in Peers /\ p \in Neighbours(q) /\ J \in SUBSET Changes /\ cur \in Cursors
      /\ B \subseteq J /\ (p # Server => q = Server /\ \A x \in Neighbours(p) : x = Server)
      /\ inbox[p][q] \in Seq(Messages) /\ inbox[q][p] \in Seq(Messages)
  <2>1. q \in Peers /\ p \in Neighbours(q) /\ J \in SUBSET Changes /\ info[p][q] \in Infos
        /\ inbox[p][q] \in Seq(Messages)
    BY <1>0, NeighbourFacts, StateTypes
  <2>2. B \subseteq J
    BY <2>1, FreshFacts
  <2>3. inbox[q][p] \in Seq(Messages)
    BY <1>0, <2>1, StateTypes
  <2> QED BY <2>1, <2>2, <2>3, InfoFields, NeighbourFacts
<1>2. info[p][q].pending = {}
  BY DEF Local, MessageInv, RunsOk
<1>3. /\ Share(p) \subseteq W
      /\ \A d \in Below(cur) : p = Server => d \in W
      /\ \A d \in Below(cur) : d.site = p => d \in hist[q] \cup W
      /\ \A d \in hist[q] : d.site = p => d \in W \/ (info[p][q].sync.on /\ p \in info[p][q].sync.sites)
  BY TellFacts
<1>4. ~info[p][q].sync.on
  BY AnswerFacts
<1>5. job[p].peer = p \/ p = Server
  <2>1. job[p].peer # p => job[p].peer \in Neighbours(p)
    BY DEF Local, JobInv, JobOk
  <2> QED BY <1>1, <2>1
<1>6. Closed(Base(p)) /\ Closed(W)
  <2>1. Ordered(Base(p), inbox[p][q]) /\ Ordered(Base(q), inbox[q][p])
    BY <1>1 DEF OrderInv, OrderOk, Ordered
  <2>2. W = Brings(Base(q), inbox[q][p])
    BY DEF Will, Brings
  <2> QED BY <1>1, <2>1, <2>2, OrderedEnds
<1> HIDE DEF W
<1>7. J \subseteq W \cup B
  <2>1. ASSUME NEW e \in J, e \notin B PROVE e \in W
    <3>1. e \in Changes
      BY <1>1
    <3>2. e.site \in Peers /\ e.version \in Nat /\ cur[e.site] \in Nat
      BY <1>1, <3>1, ChangeFacts DEF Cursors
    <3>3. ~(e.version >= cur[e.site])
      BY <2>1 DEF Fresh
    <3>4. e.version <= cur[e.site]
      BY <3>2, <3>3
    <3>5. e \in Below(cur)
      BY <3>1, <3>4 DEF Below
    <3>6. CASE p = Server
      BY <1>3, <3>5, <3>6
    <3>7. CASE p # Server
      <4>1. e.site = p
        BY <1>5, <3>7 DEF Local, JobInv, JobOk
      <4> QED BY <1>3, <1>4, <3>5, <4>1
    <3> QED BY <3>6, <3>7
  <2> QED BY <2>1
<1>8. Closed(W \cup B)
  <2>1. ASSUME NEW e \in W \cup B, NEW d \in Changes, d.site = e.site, d.version <= e.version
        PROVE  d \in W \cup B
    <3>1. CASE e \in W
      BY <1>6, <2>1, <3>1 DEF Closed
    <3>2. CASE e \in B
      <4>1. d \in Share(p) \cup J
        BY <1>1, <1>5, <1>6, <2>1, <3>2, JobFollows
      <4> QED BY <1>3, <1>7, <4>1
    <3> QED BY <3>1, <3>2
  <2> QED BY <2>1 DEF Closed
<1> QED BY <1>2, <1>3, <1>6, <1>7, <1>8 DEF W

\* A turn of a syncPeer: what it sends follows what was sent, and after the
\* last one nothing is left to send.
LEMMA TurnTold ==
    ASSUME Local, PhaseInv, OrderInv, TellInv, NEW p \in Peers, NEW q \in Neighbours(p),
           Up(p, q), Joined(p, q), info[p][q].sync.on
    PROVE  LET i == info[p][q]
               W == Will(q, p)
               batch == Batch(p, i.sync)
               rows == Rows(p, i.sync.sites, i.sync.from)
           IN  /\ Closed(W) /\ Closed(W \cup batch)
               /\ IsLast(p, i.sync) => Closed(W \cup batch \cup i.pending)
               /\ IsLast(p, i.sync) => Share(p) \subseteq W \cup batch \cup i.pending
               /\ IsLast(p, i.sync) => \A d \in hist[q] : d.site = p => d \in W \cup batch
               /\ \A d \in rows : Place(d, rows) <= i.sync.offset + BatchLimit => d \in W \cup batch
<1> DEFINE i == info[p][q]
           s == i.sync
           W == Will(q, p)
           batch == Batch(p, i.sync)
           rows == Rows(p, i.sync.sites, i.sync.from)
<1>0. PeerTypeOK
  BY DEF Local
<1>1. /\ q \in Peers /\ p \in Neighbours(q) /\ i \in Infos /\ hist[p] \in SUBSET Changes
      /\ i.pending \in SUBSET Changes /\ s \in Syncs
      /\ inbox[p][q] \in Seq(Messages) /\ inbox[q][p] \in Seq(Messages)
  <2>1. q \in Peers /\ p \in Neighbours(q) /\ i \in Infos /\ inbox[p][q] \in Seq(Messages)
        /\ hist[p] \in SUBSET Changes
    BY <1>0, NeighbourFacts, StateTypes
  <2>2. inbox[q][p] \in Seq(Messages)
    BY <1>0, <2>1, StateTypes
  <2> QED BY <2>1, <2>2, InfoFields
<1>2. s.from \in Cursors /\ s.offset \in Nat /\ s.sites \in SUBSET Peers
  BY <1>1, InfoFields
<1>3. rows \in SUBSET Changes /\ rows \subseteq hist[p] /\ batch \subseteq rows
  BY <1>0, <1>1, RowsFacts
<1>4. /\ i.pending \subseteq Share(p) /\ Below(s.from) \subseteq W
      /\ \A d \in rows : Place(d, rows) <= s.offset => d \in W
      /\ \A d \in Share(p) : d \in W \cup i.pending \/ d.site \in s.sites
      /\ \A d \in hist[q] : d.site = p => d \in W \/ p \in s.sites
  BY TellFacts
<1>5. ~s.cancel
  BY AnswerFacts
<1>6. Closed(hist[p]) /\ Closed(W)
  <2>1. Closed(hist[p]) /\ Ordered(Base(q), inbox[q][p])
    BY <1>1 DEF OrderInv, OrderOk, Ordered
  <2>2. W = Brings(Base(q), inbox[q][p])
    BY DEF Will, Brings
  <2> QED BY <1>1, <2>1, <2>2, OrderedEnds
<1>7. Share(p) \subseteq hist[p]
  BY <1>6, CoveredIsLogged
<1>8. \A d \in rows : Place(d, rows) \in Nat /\ Place(d, rows) >= 1
                      /\ Cardinality(rows) \in Nat /\ Place(d, rows) <= Cardinality(rows)
  BY <1>3, PlaceFacts
<1>9. \A d \in rows : d \in batch <=> Place(d, rows) \in s.offset + 1 .. s.offset + BatchLimit
  BY <1>5 DEF Batch
<1>10. \A d \in hist[p] : d.site \in s.sites => d \in rows \/ d \in Below(s.from)
  <2>1. ASSUME NEW d \in hist[p], d.site \in s.sites PROVE d \in rows \/ d \in Below(s.from)
    <3>1. d \in Changes
      BY <1>1
    <3>2. d.version \in Nat /\ s.from[d.site] \in Nat
      BY <1>2, <3>1, ChangeFacts DEF Cursors
    <3>3. CASE d.version > s.from[d.site]
      BY <2>1, <3>3 DEF Rows, RowsOf
    <3>4. CASE d.version <= s.from[d.site]
      BY <3>1, <3>4 DEF Below
    <3> QED BY <3>2, <3>3, <3>4
  <2> QED BY <2>1
<1>11. IsLast(p, s) => Cardinality(rows) < s.offset + BatchLimit
  BY <1>5 DEF IsLast
<1> HIDE DEF i, s, W, batch, rows
<1>12. ASSUME NEW d \in rows, Place(d, rows) <= s.offset + BatchLimit PROVE d \in W \cup batch
  <2>1. CASE Place(d, rows) <= s.offset
    BY <1>4, <2>1
  <2>2. CASE ~(Place(d, rows) <= s.offset)
    <3>1. Place(d, rows) \in s.offset + 1 .. s.offset + BatchLimit
      BY <1>2, <1>8, <1>12, <2>2
    <3> QED BY <1>9, <3>1
  <2> QED BY <2>1, <2>2
<1>13. Closed(W \cup batch)
  <2>1. ASSUME NEW e \in W \cup batch, NEW d \in Changes, d.site = e.site, d.version <= e.version
        PROVE  d \in W \cup batch
    <3>1. CASE e \in W
      BY <1>6, <2>1, <3>1 DEF Closed
    <3>2. CASE e \in batch
      <4>1. e \in rows /\ e \in hist[p] /\ e.site \in s.sites
        BY <1>3, <3>2 DEF rows, Rows, RowsOf, s, i
      <4>2. d \in hist[p]
        BY <1>6, <2>1, <4>1 DEF Closed
      <4>3. CASE d \in Below(s.from)
        BY <1>4, <4>3
      <4>4. CASE d \in rows
        <5>1. Place(d, rows) <= Place(e, rows)
          BY <1>3, <2>1, <4>1, <4>4, PlaceFollowsVersions
        <5>2. Place(e, rows) <= s.offset + BatchLimit
          <6>1. Place(e, rows) \in s.offset + 1 .. s.offset + BatchLimit
            BY <1>9, <3>2, <4>1
          <6> QED BY <6>1
        <5>3. Place(d, rows) <= s.offset + BatchLimit
          BY <1>2, <1>8, <4>1, <4>4, <5>1, <5>2
        <5> QED BY <1>12, <4>4, <5>3
      <4> QED BY <1>10, <2>1, <4>1, <4>2, <4>3, <4>4
    <3> QED BY <3>1, <3>2
  <2> QED BY <2>1 DEF Closed
<1>14. ASSUME IsLast(p, s), NEW d \in hist[p], d.site \in s.sites PROVE d \in W \cup batch
  <2>1. CASE d \in Below(s.from)
    BY <1>4, <2>1
  <2>2. CASE d \in rows
    <3>1. Place(d, rows) <= s.offset + BatchLimit
      BY <1>2, <1>8, <1>11, <1>14, <2>2
    <3> QED BY <1>12, <2>2, <3>1
  <2> QED BY <1>10, <1>14, <2>1, <2>2
<1>15. ASSUME IsLast(p, s) PROVE Share(p) \subseteq W \cup batch \cup i.pending
  <2>1. ASSUME NEW d \in Share(p) PROVE d \in W \cup batch \cup i.pending
    BY <1>4, <1>7, <1>14, <1>15
  <2> QED BY <2>1
<1>16. ASSUME IsLast(p, s) PROVE Closed(W \cup batch \cup i.pending)
  <2>1. ASSUME NEW e \in W \cup batch \cup i.pending, NEW d \in Changes,
               d.site = e.site, d.version <= e.version
        PROVE  d \in W \cup batch \cup i.pending
    <3>1. CASE e \in W \cup batch
      BY <1>13, <2>1, <3>1 DEF Closed
    <3>2. CASE e \in i.pending
      <4>1. d \in Share(p)
        BY <1>4, <2>1, <3>2, ShareFollows
      <4> QED BY <1>15, <1>16, <4>1
    <3> QED BY <3>1, <3>2
  <2> QED BY <2>1 DEF Closed
<1>17. ASSUME IsLast(p, s), NEW d \in hist[q], d.site = p PROVE d \in W \cup batch
  <2>1. d \in hist[p]
    BY <1>1, <1>17 DEF Local, HistoryInv
  <2> QED BY <1>4, <1>14, <1>17, <2>1
<1> QED BY <1>6, <1>12, <1>13, <1>15, <1>16, <1>17 DEF i, s, W, batch, rows

---------------------------------------------------------------------------
(* An inbox stays in order.                                                *)

\* Nothing new, one message less that brought nothing new, or one more that brings nothing.
LEMMA OrderedKept ==
    ASSUME NEW box \in Seq(Messages), NEW new, NEW base, NEW X, Closed(X), Ordered(base, box),
           \/ new = box
           \/ box # <<>> /\ new = Tail(box) /\ Head(box).changes \subseteq base \cup X
           \/ \E m \in Messages : m.changes = {} /\ new = Append(box, m)
    PROVE  Ordered(base \cup X, new) /\ Brings(base, box) \subseteq Brings(base \cup X, new)
<1>1. Ordered(base \cup X, box) /\ Brings(base, box) \subseteq Brings(base \cup X, box)
  BY OrderedMore
<1>2. CASE new = box
  BY <1>1, <1>2
<1>3. CASE box # <<>> /\ new = Tail(box) /\ Head(box).changes \subseteq base \cup X
  BY <1>1, <1>3, OrderedTail
<1>4. ASSUME NEW m \in Messages, m.changes = {}, new = Append(box, m)
      PROVE  Ordered(base \cup X, new) /\ Brings(base, box) \subseteq Brings(base \cup X, new)
  BY <1>1, <1>4, OrderedAppendNone
<1> QED BY <1>2, <1>3, <1>4

\* What is left of an inbox when the connection breaks.
LEMMA OrderedLeft ==
    ASSUME PeerTypeOK, NEW r \in Peers, NEW t \in Neighbours(r), NEW base,
           Ordered(base, inbox[r][t]), NEW new \in Left(r, Link(r, t))
    PROVE  Ordered(base, new)
<1> DEFINE box == inbox[r][t]
           c == Link(r, t)
<1>1. box \in Seq(Messages) /\ c \in Clients /\ ((r = Server /\ t = c) \/ (r = c /\ t = Server /\ r # Server))
  BY StateTypes, NeighbourFacts
<1>2. \/ new = box
      \/ new \in LeftAtServer(c) /\ r = Server
      \/ new \in LeftAtClient(c) /\ r = c /\ t = Server
  BY <1>1 DEF Left
<1>3. CASE new \in LeftAtServer(c) /\ r = Server
  <2>1. PICK n \in 0 .. Len(box) : new = Append(SubSeq(box, 1, n), Close)
    BY <1>1, <1>3 DEF LeftAtServer
  <2>2. SubSeq(box, 1, n) \in Seq(Messages) /\ Ordered(base, SubSeq(box, 1, n))
    BY <1>1, PrefixFacts, OrderedPrefix
  <2>3. Close \in Messages /\ Close.changes = {}
    BY MessageTypes DEF Close
  <2> QED BY <2>1, <2>2, <2>3, OrderedAppendNone
<1>4. CASE new \in LeftAtClient(c) /\ r = c /\ t = Server
  <2>1. PICK n \in 0 .. Len(box) : new = SubSeq(box, 1, n)
    BY <1>1, <1>4 DEF LeftAtClient
  <2> QED BY <1>1, <2>1, OrderedPrefix
<1> QED BY <1>2, <1>3, <1>4

\* What t broadcasts to r.
LEMMA PublishBox ==
    ASSUME Local, LinkInv, PhaseInv, OrderInv, TellInv, ~strayed', NEW t \in Peers, NEW r \in Neighbours(t),
           Publish(t), Reaches(t, r)
    PROVE  LET J == job[t].changes
               new == inbox[r][t] \o Broadcast(t, J, job[t].peer)[r]
           IN  /\ Ordered(Base(r), new)
               /\ Will(r, t) \subseteq Brings(Base(r), new)
               /\ Listening(t, r, job[t].peer) =>
                    Will(r, t) \cup Fresh(J, info[t][r].cursor) \subseteq Brings(Base(r), new)
<1> DEFINE J == job[t].changes
           from == job[t].peer
           i == info[t][r]
           B == Fresh(J, i.cursor)
           more == Broadcast(t, J, from)[r]
           box == inbox[r][t]
           W == Will(r, t)
<1>0. PeerTypeOK
  BY DEF Local
<1>1. r \in Peers /\ t \in Neighbours(r) /\ box \in Seq(Messages) /\ J \in SUBSET Changes
      /\ i.pending \in SUBSET Changes /\ B \in SUBSET Changes /\ job[t].step = "known"
  <2>1. r \in Peers /\ t \in Neighbours(r) /\ J \in SUBSET Changes /\ i \in Infos
    BY <1>0, NeighbourFacts, StateTypes
  <2>2. box \in Seq(Messages)
    BY <1>0, <2>1, StateTypes
  <2> QED BY <2>1, <2>2, InfoFields, FreshFacts DEF Publish
<1>2. Ordered(Base(r), box) /\ W = Brings(Base(r), box)
  BY <1>1 DEF OrderInv, OrderOk, Ordered, Will, Brings
<1>3. /\ ~Listening(t, r, from) => more = <<>>
      /\ Listening(t, r, from) => more = NonEmpty(i.pending) \o NonEmpty(B)
      /\ more \in Seq(Messages)
  <2>1. t \in Peers /\ r \in Neighbours(t) /\ J \in SUBSET Changes
    BY <1>1
  <2> HIDE DEF J
  <2> QED BY ONLY <1>0, <2>1, BroadcastFacts
<1>4. CASE more = <<>>
  <2>1. box \o more = box
    BY <1>1, <1>4
  <2>2. Listening(t, r, from) => B = {}
    <3>1. ASSUME Listening(t, r, from), B # {} PROVE FALSE
      <4>1. NonEmpty(B) = <<Data(B)>>
        BY <1>1, <3>1, NonEmptyFacts
      <4>2. NonEmpty(i.pending) \in Seq(Messages)
        BY <1>1, NonEmptyFacts
      <4>3. Data(B) \in Messages
        BY <1>1, MessageTypes
      <4>4. NonEmpty(i.pending) \o <<Data(B)>> # <<>>
        <5> HIDE DEF B, i
        <5>1. NonEmpty(i.pending) \o <<Data(B)>> = Append(NonEmpty(i.pending), Data(B))
          BY <4>2, <4>3
        <5>2. Len(Append(NonEmpty(i.pending), Data(B))) = Len(NonEmpty(i.pending)) + 1
              /\ Len(NonEmpty(i.pending)) \in Nat
          BY <4>2, <4>3, AppendFacts
        <5>3. Len(<<>>) = 0
          OBVIOUS
        <5> QED BY <5>1, <5>2, <5>3
      <4> QED BY <1>3, <1>4, <3>1, <4>1, <4>4
    <3> QED BY <3>1
  <2> HIDE DEF more, B, W
  <2>3. Listening(t, r, from) => W \cup B \subseteq Brings(Base(r), box \o more)
    BY <1>2, <2>1, <2>2
  <2>4. Ordered(Base(r), box \o more) /\ W \subseteq Brings(Base(r), box \o more)
    BY <1>2, <2>1
  <2> QED BY <2>3, <2>4 DEF more, B, W
<1>5. CASE more # <<>>
  <2>1. Joined(t, r) /\ i.active
    BY <1>5, PublishJoined
  <2>2. Listening(t, r, from) /\ Up(t, r) /\ r # from
    BY <1>3, <1>5 DEF Listening, Reaches, Up
  <2>3. i.pending = {} /\ Closed(W) /\ Closed(W \cup B)
    BY <1>1, <2>1, <2>2, PublishTold
  <2> HIDE DEF W, B
  <2>4. more = NonEmpty(i.pending) \o NonEmpty(B)
    BY <1>3, <2>2 DEF B
  <2>5. W \cup i.pending = W /\ W \cup i.pending \cup B = W \cup B
    BY <2>3
  <2>6. Closed(W \cup i.pending) /\ Closed(W \cup i.pending \cup B)
    BY <2>3, <2>5
  <2> HIDE DEF box, i, more
  <2>7. /\ Ordered(Base(r), box \o (NonEmpty(i.pending) \o NonEmpty(B)))
        /\ Brings(Base(r), box \o (NonEmpty(i.pending) \o NonEmpty(B))) = W \cup i.pending \cup B
    <3> DEFINE C == i.pending
    <3>1. C \in SUBSET Changes /\ B \in SUBSET Changes /\ box \in Seq(Messages)
      BY <1>1
    <3>2. /\ Ordered(Base(r), box) /\ W = Brings(Base(r), box)
          /\ Closed(Brings(Base(r), box) \cup C) /\ Closed(Brings(Base(r), box) \cup C \cup B)
      BY <1>2, <2>6
    <3> HIDE DEF C
    <3>3. /\ Ordered(Base(r), box \o (NonEmpty(C) \o NonEmpty(B)))
          /\ Brings(Base(r), box \o (NonEmpty(C) \o NonEmpty(B))) = Brings(Base(r), box) \cup C \cup B
      BY ONLY <3>1, <3>2, OrderedTwoMore
    <3> QED BY <3>2, <3>3 DEF C
  <2>8. Ordered(Base(r), box \o more) /\ Brings(Base(r), box \o more) = W \cup B
    BY <2>4, <2>5, <2>7
  <2> QED BY <2>8 DEF box, i, more, W, B
<1> QED BY <1>4, <1>5

\* What t sends to r in a turn.
LEMMA TurnBox ==
    ASSUME Local, LinkInv, PhaseInv, OrderInv, TellInv, ~strayed', NEW t \in Peers, NEW r \in Neighbours(t),
           SyncTurn(t, r), Reaches(t, r)
    PROVE  LET i == info[t][r]
               new == inbox[r][t] \o Turn(t, i)
           IN  Ordered(Base(r), new) /\ Brings(Base(r), new) = Will(r, t) \cup Told(t, i)
<1> DEFINE i == info[t][r]
           box == inbox[r][t]
           W == Will(r, t)
           A == Batch(t, i.sync)
           B == IF IsLast(t, i.sync) THEN i.pending ELSE {}
           new == box \o Turn(t, i)
<1>0. PeerTypeOK
  BY DEF Local
<1>1. r \in Peers /\ t \in Neighbours(r) /\ box \in Seq(Messages) /\ i \in Infos
  <2>1. r \in Peers /\ t \in Neighbours(r) /\ i \in Infos
    BY <1>0, NeighbourFacts, StateTypes
  <2> QED BY <1>0, <2>1, StateTypes
<1>2. A \in SUBSET Changes /\ B \in SUBSET Changes
  <2>1. i.pending \in SUBSET Changes /\ i.sync \in Syncs
    BY <1>1, InfoFields
  <2> QED BY <1>0, <2>1, RowsFacts
<1>3. Ordered(Base(r), box) /\ W = Brings(Base(r), box)
  BY <1>1 DEF OrderInv, OrderOk, Ordered, Will, Brings
<1>4. Turn(t, i) = NonEmpty(A) \o NonEmpty(B) /\ Told(t, i) = A \cup B
  <2>1. NonEmpty({}) = <<>>
    BY DEF NonEmpty
  <2> QED BY <2>1 DEF Turn, Told
<1>5. CASE Turn(t, i) = <<>>
  <2>1. Told(t, i) = {}
    BY <1>0, <1>1, <1>5, TurnFacts
  <2>2. new = box
    BY <1>1, <1>5
  <2> HIDE DEF new, W
  <2>3. Ordered(Base(r), new) /\ Brings(Base(r), new) = W \cup Told(t, i)
    BY <1>3, <2>1, <2>2
  <2> QED BY <2>3 DEF new, W
<1>6. CASE Turn(t, i) # <<>>
  <2>1. Joined(t, r) /\ i.sync.on /\ Up(t, r)
    BY <1>6, SyncTurnJoined DEF Reaches, Up
  <2>2. Closed(W) /\ Closed(W \cup A) /\ (IsLast(t, i.sync) => Closed(W \cup A \cup i.pending))
    BY <2>1, TurnTold
  <2> HIDE DEF W, A
  <2>3. Closed(W \cup A) /\ Closed(W \cup A \cup B)
    <3>1. CASE IsLast(t, i.sync)
      BY <2>2, <3>1
    <3>2. CASE ~IsLast(t, i.sync)
      <4>1. W \cup A \cup {} = W \cup A /\ B = {}
        BY <3>2
      <4> QED BY <2>2, <4>1
    <3> QED BY <3>1, <3>2
  <2> HIDE DEF B, box, new, i
  <2>4. /\ Ordered(Base(r), box \o (NonEmpty(A) \o NonEmpty(B)))
        /\ Brings(Base(r), box \o (NonEmpty(A) \o NonEmpty(B))) = W \cup A \cup B
    <3>1. A \in SUBSET Changes /\ B \in SUBSET Changes /\ box \in Seq(Messages)
      BY <1>1, <1>2
    <3>2. /\ Ordered(Base(r), box) /\ W = Brings(Base(r), box)
          /\ Closed(Brings(Base(r), box) \cup A) /\ Closed(Brings(Base(r), box) \cup A \cup B)
      BY <1>3, <2>3
    <3>3. /\ Ordered(Base(r), box \o (NonEmpty(A) \o NonEmpty(B)))
          /\ Brings(Base(r), box \o (NonEmpty(A) \o NonEmpty(B))) = Brings(Base(r), box) \cup A \cup B
      BY ONLY <3>1, <3>2, OrderedTwoMore
    <3> QED BY <3>2, <3>3
  <2>5. new = box \o (NonEmpty(A) \o NonEmpty(B)) /\ W \cup A \cup B = W \cup Told(t, i)
    BY <1>4 DEF new
  <2>6. Ordered(Base(r), new) /\ Brings(Base(r), new) = W \cup Told(t, i)
    BY <2>4, <2>5
  <2> QED BY <2>6 DEF new, box, W, i
<1> QED BY <1>5, <1>6

\* What a message that is not of changes brings.
LEMMA HeadBringsNone ==
    ASSUME Local, NEW r \in Peers, NEW t \in Neighbours(r), inbox[r][t] # <<>>,
           Head(inbox[r][t]).type # "data"
    PROVE  Head(inbox[r][t]).changes = {}
<1>1. inbox[r][t] \in Seq(Messages)
  BY StateTypes DEF Local
<1>2. 1 \in DOMAIN inbox[r][t] /\ Head(inbox[r][t]) = inbox[r][t][1]
  BY <1>1, TailIndex
<1> QED BY <1>2 DEF Local, MessageInv, MessagesOk

\* A server that stops takes its connections down.
LEMMA RestartTakesDown ==
    ASSUME Local, NEW p \in Peers, Restart(p), NEW q \in Neighbours(p)
    PROVE  ~Up(p, q)' /\ ~Up(q, p)' /\ inbox'[p][q] = <<>>
<1>0. PeerTypeOK
  BY DEF Local
<1>1. /\ q \in Peers /\ p \in Neighbours(q) /\ Link(p, q) \in Clients /\ Link(q, p) = Link(p, q)
      /\ Server \in Peers /\ Link(p, q) \in Neighbours(Server) /\ (p = Server \/ p = Link(p, q))
  BY NeighbourFacts, ClientFacts, PeersAreNumbers
<1>2. TopsIn(saved[p], hist[p])
  BY DEF Local, JobInv, JobOk
<1>3. \A x \in Peers : \A y \in Neighbours(x) :
          /\ open'[x][y] = (open[x][y] /\ x # p /\ y # p)
          /\ x = p => inbox'[x][y] = <<>>
  BY ONLY <1>0, p \in Peers, Restart(p), <1>2, RestartEffect
<1>4. open'[Server][Link(p, q)] = FALSE
  BY <1>1, <1>3
<1> QED BY <1>1, <1>3, <1>4 DEF Up

\* An inbox stays in order, and what its peer will have does not get less.
LEMMA BoxStep ==
    ASSUME Local, Local', LinkInv, PhaseInv, OrderInv, TellInv, [Next]_vars, ~strayed',
           NEW r \in Peers, NEW t \in Neighbours(r)
    PROVE  /\ Ordered(Base(r)', inbox'[r][t])
           /\ Up(r, t)' => Will(r, t) \subseteq Will(r, t)'
<1> DEFINE box == inbox[r][t]
           new == inbox'[r][t]
           W == Will(r, t)
           W1 == Will(r, t)'
           base == Base(r)
           base1 == Base(r)'
           Goal == Ordered(base1, new) /\ (Up(r, t)' => W \subseteq W1)
<1>0. PeerTypeOK
  BY DEF Local
<1>1. /\ t \in Peers /\ r \in Neighbours(t) /\ box \in Seq(Messages) /\ cursor[t] \in Cursors
      /\ epoch[Link(r, t)] \in Nat /\ info[t][r] \in Infos /\ Up(t, r) = Up(r, t)
  <2>1. t \in Peers /\ r \in Neighbours(t) /\ Link(r, t) \in Clients /\ Link(t, r) = Link(r, t)
    BY NeighbourFacts
  <2> QED BY <1>0, <2>1, StateTypes, EpochStep DEF Up
<1>2. Ordered(base, box) /\ W = Brings(base, box) /\ W1 = Brings(base1, new)
  BY DEF OrderInv, OrderOk, Ordered, Will, Brings
<1>3. CASE r = Server /\ Restart(r)
  <2>1. Closed(base1)
    <3>1. job'[r].changes = {} /\ cursor'[r] \in Cursors
      <4>1. job'[r] = Idle
        BY <1>3 DEF Restart, Local, PeerTypeOK
      <4> QED BY <4>1 DEF Idle, Local, PeerTypeOK
    <3>2. base1 = Below(cursor'[r])
      BY <1>3, <3>1 DEF Base, Covered
    <3> QED BY <3>1, <3>2, BelowIsClosed
  <2> QED BY <1>3, <2>1, RestartTakesDown, OrderedNothing
<1>4. CASE ~(r = Server /\ Restart(r))
  <2>1. PICK X : Closed(X) /\ base1 = base \cup X
    BY <1>4, BaseStep
  <2>0. new \in Seq(Messages)
    <3>1. Table(inbox', Seq(Messages))
      BY DEF Local, PeerTypeOK
    <3> QED BY <3>1 DEF Table
  <2> HIDE DEF W, W1, base, base1, Goal
  <2>2. ASSUME \/ new = box
               \/ box # <<>> /\ new = Tail(box) /\ Head(box).changes \subseteq base \cup X
               \/ \E m \in Messages : m.changes = {} /\ new = Append(box, m)
        PROVE  Goal
    <3> HIDE DEF box, new
    <3>1. Ordered(base \cup X, new) /\ Brings(base, box) \subseteq Brings(base \cup X, new)
      BY ONLY <1>1, <1>2, <2>1, <2>2, OrderedKept
    <3> QED BY <1>2, <2>1, <3>1 DEF Goal
  <2>3. ASSUME box # <<>>, new = Tail(box), Head(box).type # "data" PROVE Goal
    <3>1. Head(box).changes = {}
      BY <2>3, HeadBringsNone
    <3> QED BY <2>2, <2>3, <3>1
  <2>4. ASSUME NEW more, new = box \o more, Ordered(base, box \o more), W \subseteq Brings(base, box \o more),
               box \o more \in Seq(Messages)
        PROVE  Goal
    <3> DEFINE both == box \o more
    <3>1. Ordered(base, both) /\ both \in Seq(Messages) /\ W \subseteq Brings(base, both) /\ new = both
      BY <2>4
    <3> HIDE DEF both, new
    <3>2. Ordered(base \cup X, both) /\ Brings(base, both) \subseteq Brings(base \cup X, both)
      BY <2>1, <3>1, OrderedMore
    <3> QED BY <1>2, <2>1, <3>1, <3>2 DEF Goal
  <2>5. ASSUME Turning(r, t) \/ Turning(t, r) PROVE Goal
    <3>1. CASE new = <<>> /\ ~Up(r, t)'
      <4>1. Closed(base1)
        BY <1>1, <1>2, <2>1, OrderedEnds, ClosedUnion
      <4> QED BY <3>1, <4>1, OrderedNothing DEF Goal
    <3>2. CASE new = box
      BY <2>2, <3>2
    <3>3. CASE box # <<>> /\ Control(Head(box)) /\ new = Tail(box)
      BY <2>3, <3>3 DEF Control
    <3>4. CASE new = Append(box, SyncFrom(cursor[t]))
      <4>1. SyncFrom(cursor[t]) \in Messages /\ SyncFrom(cursor[t]).changes = {}
        BY <1>1, MessageTypes DEF SyncFrom
      <4> QED BY <2>2, <3>4, <4>1
    <3>5. CASE new = Append(box, Connect(epoch[Link(r, t)] + 1))
      <4>1. epoch[Link(r, t)] + 1 \in Nat
        BY <1>1
      <4>2. Connect(epoch[Link(r, t)] + 1) \in Messages /\ Connect(epoch[Link(r, t)] + 1).changes = {}
        BY <4>1, MessageTypes DEF Connect
      <4> QED BY <2>2, <3>5, <4>2
    <3>6. CASE new \in Left(r, Link(r, t)) /\ ~Up(r, t)'
      <4>1. Ordered(base \cup X, box)
        BY <1>1, <1>2, <2>1, OrderedMore
      <4>2. Ordered(base \cup X, new)
        BY <1>0, <3>6, <4>1, OrderedLeft
      <4> QED BY <2>1, <3>6, <4>2 DEF Goal
    <3> QED BY <2>5, <3>1, <3>2, <3>3, <3>4, <3>5, <3>6, TurningBox
  <2>6. ASSUME ~Turning(r, t), ~Turning(t, r) PROVE Goal
    <3>1. CASE new = box
      BY <2>2, <3>1
    <3>2. CASE Receive(r, t) /\ new = Tail(box)
      <4>1. info[r][t].known /\ box # <<>> /\ Closed(hist[r])
        BY <3>2, ReceiveOrdered
      <4>2. Base(r)' = Base(r) \cup Head(inbox[r][t]).changes
        BY <3>2, <4>1, ReceiveBase
      <4>3. Head(box).changes \subseteq base \cup X
        BY <2>1, <4>2 DEF base, base1
      <4> QED BY <2>2, <3>2, <4>1, <4>3
    <3>3. CASE OnSync(r, t) /\ new = Tail(box)
      <4>1. box # <<>> /\ Head(box).type = "sync"
        BY <3>3 DEF OnSync, Next1
      <4> QED BY <2>3, <3>3, <4>1
    <3>4. CASE /\ Publish(t) /\ Reaches(t, r)
               /\ new = box \o Broadcast(t, job[t].changes, job[t].peer)[r]
      <4> DEFINE more == Broadcast(t, job[t].changes, job[t].peer)[r]
      <4>1. /\ Ordered(Base(r), inbox[r][t] \o more)
            /\ Will(r, t) \subseteq Brings(Base(r), inbox[r][t] \o more)
        BY <1>1, <3>4, PublishBox
      <4>2. new \in Seq(Messages)
        BY <2>0
      <4> QED BY <2>4, <3>4, <4>1, <4>2 DEF W, base
    <3>5. CASE SyncTurn(t, r) /\ Reaches(t, r) /\ new = box \o Turn(t, info[t][r])
      <4>1. /\ Ordered(Base(r), inbox[r][t] \o Turn(t, info[t][r]))
            /\ Brings(Base(r), inbox[r][t] \o Turn(t, info[t][r])) = Will(r, t) \cup Told(t, info[t][r])
        BY <1>1, <3>5, TurnBox
      <4>2. new \in Seq(Messages)
        BY <2>0
      <4> QED BY <2>4, <3>5, <4>1, <4>2 DEF W, base
    <3>6. CASE StrayTurn(t, r)
      <4>1. new = box
        BY <1>1, <3>6, StrayTurnSilent
      <4> QED BY <2>2, <4>1
    <3> QED BY <2>6, <3>1, <3>2, <3>3, <3>4, <3>5, <3>6, PairStep
  <2> QED BY <2>5, <2>6 DEF Goal, W, W1, base, base1
<1> QED BY <1>3, <1>4

---------------------------------------------------------------------------
(* Who asks has what its cursor says.                                      *)

\* The current syncs of this inbox name only what is in base.
Asks(base, box) == \A k \in CurrentSyncs(box) : Below(box[k].cursor) \subseteq base

\* This stays when the inbox loses its head or gets data.
LEMMA AsksKept ==
    ASSUME NEW box \in Seq(Messages), NEW new \in Seq(Messages), NEW base, NEW base1, base \subseteq base1,
           Asks(base, box),
           \/ new = box
           \/ box # <<>> /\ new = Tail(box)
           \/ Extends(new, box) /\ \A k \in DOMAIN new : k > Len(box) => new[k].type = "data"
    PROVE  Asks(base1, new)
<1>1. CASE new = box
  BY <1>1 DEF Asks
<1>2. CASE box # <<>> /\ new = Tail(box)
  <2>1. ASSUME NEW k \in CurrentSyncs(new) PROVE Below(new[k].cursor) \subseteq base1
    <3>1. k \in DOMAIN Tail(box) /\ k + 1 \in CurrentSyncs(box)
      BY <1>2, <2>1, TailSyncs DEF CurrentSyncs
    <3>2. Tail(box)[k] = box[k + 1]
      BY <1>2, <3>1, TailIndex
    <3> QED BY <1>2, <3>1, <3>2 DEF Asks
  <2> QED BY <2>1 DEF Asks
<1>3. CASE Extends(new, box) /\ \A k \in DOMAIN new : k > Len(box) => new[k].type = "data"
  <2>1. CurrentSyncs(new) = CurrentSyncs(box)
    BY <1>3, ExtendByData
  <2>2. \A k \in CurrentSyncs(box) : new[k] = box[k]
    BY <1>3, ExtendsFacts DEF CurrentSyncs
  <2> QED BY <2>1, <2>2 DEF Asks
<1> QED BY <1>1, <1>2, <1>3

\* It stays when a message comes last that asks for no more than this, or is a connect.
LEMMA AsksAppend ==
    ASSUME NEW box \in Seq(Messages), NEW m \in Messages, NEW base, NEW base1, base \subseteq base1,
           Asks(base, box), Control(m) \/ Below(m.cursor) \subseteq base1
    PROVE  Asks(base1, Append(box, m))
<1> DEFINE new == Append(box, m)
<1>1. /\ Len(box) \in Nat /\ DOMAIN box = 1 .. Len(box) /\ DOMAIN new = 1 .. Len(box) + 1
      /\ Len(new) = Len(box) + 1
      /\ new[Len(box) + 1] = m /\ \A k \in 1 .. Len(box) : new[k] = box[k]
  BY AppendFacts
<1> HIDE DEF new
<1>2. ASSUME NEW k \in CurrentSyncs(new) PROVE Below(new[k].cursor) \subseteq base1
  <2>1. k \in DOMAIN new /\ new[k].type = "sync" /\ \A j \in k .. Len(new) : ~Control(new[j])
    BY <1>2 DEF CurrentSyncs
  <2>2. ~Control(m)
    BY <1>1, <2>1
  <2>3. CASE k = Len(box) + 1
    BY <1>1, <2>2, <2>3
  <2>4. CASE k # Len(box) + 1
    <3>1. k \in 1 .. Len(box)
      BY <1>1, <2>1, <2>4
    <3>2. \A j \in k .. Len(box) : ~Control(box[j])
      BY <1>1, <2>1, <3>1
    <3>3. k \in CurrentSyncs(box) /\ new[k] = box[k]
      BY <1>1, <2>1, <3>1, <3>2 DEF CurrentSyncs
    <3> QED BY <3>3 DEF Asks
  <2> QED BY <2>3, <2>4
<1> QED BY <1>2 DEF Asks, new

\* What a peer has does not get less while its stream stays open.
LEMMA BaseKept ==
    ASSUME Local, Local', PhaseInv, OrderInv, [Next]_vars, NEW p \in Peers, NEW q \in Neighbours(p),
           Up(p, q)'
    PROVE  Base(p) \subseteq Base(p)'
<1>1. ~Restart(p)
  BY RestartTakesDown
<1> QED BY <1>1, BaseStep

\* A stream is open that was open, or that opens now.
LEMMA UpStep ==
    ASSUME Local, [Next]_vars, NEW r \in Peers, NEW t \in Neighbours(r), Up(r, t)'
    PROVE  Up(r, t) \/ Open(Link(r, t))
<1>0. PeerTypeOK
  BY DEF Local
<1>1. /\ t \in Peers /\ r \in Neighbours(t) /\ Link(r, t) \in Clients /\ Link(t, r) = Link(r, t)
      /\ Server \in Peers /\ Link(r, t) \in Neighbours(Server)
  BY NeighbourFacts, ClientFacts, PeersAreNumbers
<1>2. CASE ~Turning(r, t)
  BY <1>2, CalmStep DEF Calm
<1>3. CASE OnConnect(r, t)
  <2>1. open'[Server][Link(r, t)] = (open[Server][Link(r, t)] \/ (r # Server /\ Server = r /\ Link(r, t) = t))
    BY ONLY <1>0, <1>1, <1>3, r \in Peers, t \in Neighbours(r), OnConnectEffect
  <2> QED BY <2>1 DEF Up
<1>4. CASE r = Server /\ OnClose(t)
  <2>1. open' = open
    BY <1>4 DEF OnClose
  <2> QED BY <2>1 DEF Up
<1>5. CASE Drop(Link(r, t))
  <2>1. open'[Server][Link(r, t)] = FALSE
    BY ONLY <1>0, <1>1, <1>5, DropEffect
  <2> QED BY <2>1 DEF Up
<1>6. CASE Restart(r) \/ Restart(t)
  BY <1>1, <1>6, RestartTakesDown
<1> QED BY <1>2, <1>3, <1>4, <1>5, <1>6 DEF Turning

\* Who asks on an open stream has, after every step, what its cursor says.
LEMMA AsksStep ==
    ASSUME Local, Local', LinkInv, PhaseInv, OrderInv, [Next]_vars, ~strayed',
           NEW r \in Peers, NEW t \in Neighbours(r), Up(r, t)'
    PROVE  Asks(Base(t)', inbox'[r][t])
<1> DEFINE box == inbox[r][t]
           new == inbox'[r][t]
           base == Base(t)
           base1 == Base(t)'
<1>0. PeerTypeOK
  BY DEF Local
<1>1. /\ t \in Peers /\ r \in Neighbours(t) /\ Link(r, t) \in Clients /\ Link(t, r) = Link(r, t)
      /\ box \in Seq(Messages) /\ cursor[t] \in Cursors /\ epoch[Link(r, t)] \in Nat
  <2>1. t \in Peers /\ r \in Neighbours(t) /\ Link(r, t) \in Clients /\ Link(t, r) = Link(r, t)
    BY NeighbourFacts
  <2> QED BY <1>0, <2>1, StateTypes, EpochStep
<1>2. new \in Seq(Messages)
  <2>1. Table(inbox', Seq(Messages))
    BY DEF Local, PeerTypeOK
  <2> QED BY <2>1 DEF Table
<1>3. base \subseteq base1
  <2>1. Up(t, r)'
    BY <1>1 DEF Up
  <2> QED BY <1>1, <2>1, BaseKept
<1>4. Up(r, t) => Asks(base, box)
  BY DEF OrderInv, OrderOk, Asks
<1> HIDE DEF base, base1
<1>5. CASE Turning(r, t) \/ Turning(t, r)
  <2>1. CASE new = box /\ Up(r, t)
    <3> HIDE DEF box, new
    <3> QED BY <1>1, <1>2, <1>3, <1>4, <2>1, AsksKept DEF box, new, base1
  <2>2. CASE Up(r, t) /\ box # <<>> /\ new = Tail(box)
    <3> HIDE DEF box, new
    <3> QED BY <1>1, <1>2, <1>3, <1>4, <2>2, AsksKept DEF box, new, base1
  <2>3. CASE new = Append(box, SyncFrom(cursor[t])) /\ OnConnect(t, r) /\ Up(t, r)
    <3>1. job[t].step # "read" /\ Closed(hist[t])
      BY <1>1, <2>3 DEF OnConnect, IsIdle, OrderInv
    <3>2. Covered(t) \subseteq base
      <4>1. CASE t = Server
        BY <4>1 DEF base, Base
      <4>2. CASE t # Server
        BY <1>1, <3>1, <4>2, CoveredIsLogged DEF base, Base
      <4> QED BY <4>1, <4>2
    <3>3. SyncFrom(cursor[t]) \in Messages /\ SyncFrom(cursor[t]).cursor = cursor[t]
      BY <1>1, MessageTypes DEF SyncFrom
    <3>4. Below(cursor[t]) \subseteq base1 /\ Up(r, t)
      BY <1>1, <1>3, <2>3, <3>2 DEF Covered, Up
    <3> DEFINE m == SyncFrom(cursor[t])
    <3>5. m \in Messages /\ Below(m.cursor) \subseteq base1
      BY <3>3, <3>4
    <3> HIDE DEF m, box
    <3>6. Asks(base1, Append(box, m))
      BY <1>1, <1>3, <1>4, <3>4, <3>5, AsksAppend
    <3> QED BY <2>3, <3>6 DEF m, base1
  <2>4. CASE Open(Link(r, t))
    <3>0. new = Append(box, Connect(epoch[Link(r, t)] + 1))
      BY ONLY <1>0, <1>1, <2>4, r \in Peers, t \in Neighbours(r), OpenEffect
    <3>1. epoch[Link(r, t)] + 1 \in Nat
      BY <1>1
    <3>2. CurrentSyncs(Append(box, Connect(epoch[Link(r, t)] + 1))) = {}
      BY <1>1, <3>1, AppendConnect
    <3> QED BY <3>0, <3>2 DEF Asks
  <2>5. Up(r, t) \/ Open(Link(r, t))
    BY UpStep
  <2>6. \/ new = box
        \/ box # <<>> /\ new = Tail(box)
        \/ new = Append(box, SyncFrom(cursor[t])) /\ OnConnect(t, r) /\ Up(t, r)
        \/ Open(Link(r, t))
    BY <1>5, TurningBox
  <2> QED BY <2>1, <2>2, <2>3, <2>4, <2>5, <2>6
<1>6. CASE ~Turning(r, t) /\ ~Turning(t, r)
  <2>1. Up(r, t)
    BY <1>1, <1>6, CalmStep DEF Calm
  <2>2. CASE new = box
    <3> HIDE DEF box, new
    <3> QED BY <1>1, <1>2, <1>3, <1>4, <2>1, <2>2, AsksKept DEF box, new, base1
  <2>3. CASE new = Tail(box) /\ box # <<>>
    <3> HIDE DEF box, new
    <3> QED BY <1>1, <1>2, <1>3, <1>4, <2>1, <2>3, AsksKept DEF box, new, base1
  <2>4. CASE Sends(t, r)
    <3>1. Extends(new, box) /\ \A k \in DOMAIN new : k > Len(box) => new[k].type = "data"
      BY <1>1, <2>4, SendsExtends
    <3> HIDE DEF box, new
    <3> QED BY <1>1, <1>2, <1>3, <1>4, <2>1, <3>1, AsksKept DEF box, new, base1
  <2>5. Sends(t, r) \/ new = box \/ (new = Tail(box) /\ box # <<>>)
    <3>1. CASE (Receive(r, t) \/ OnSync(r, t)) /\ new = Tail(box)
      BY <3>1 DEF Receive, OnSync, Next1
    <3>2. CASE Publish(t)
      BY <1>0, <1>1, <3>2, PublishSends
    <3>3. CASE SyncTurn(t, r) /\ Reaches(t, r) /\ new = box \o Turn(t, info[t][r])
      <4>1. info[t][r] \in Runs(t, r) /\ info[t][r].sync.on
        BY <3>3 DEF SyncTurn, Runs
      <4> QED BY <1>0, <1>1, <3>3, <4>1, TurnSends
    <3>4. CASE StrayTurn(t, r)
      BY <1>1, <3>4, StrayTurnSilent
    <3> QED BY <1>1, <1>6, <3>1, <3>2, <3>3, <3>4, PairStep
  <2> QED BY <2>2, <2>3, <2>4, <2>5
<1> QED BY <1>5, <1>6

\* Every inbox stays in order, and who asks has what its cursor says.
LEMMA OrderStep ==
    ASSUME Local, Local', LinkInv, PhaseInv, OrderInv, TellInv, [Next]_vars, ~strayed'
    PROVE  OrderInv'
<1>1. ASSUME NEW p \in Peers, NEW q \in Neighbours(p) PROVE OrderOk(p, q)'
  <2>1. Ordered(Base(p)', inbox'[p][q])
    BY BoxStep
  <2>2. Up(p, q)' => Asks(Base(q)', inbox'[p][q])
    BY AsksStep
  <2> QED BY <2>1, <2>2 DEF OrderOk, Ordered, Asks
<1>2. ASSUME NEW p \in Peers PROVE Closed(hist[p])'
  BY <1>2, HistoriesClosed
<1> QED BY <1>1, <1>2 DEF OrderInv

---------------------------------------------------------------------------
(* What a peer has to tell, and what it has told.                          *)

\* What is logged in a step was read before or has just come in.
LEMMA LoggedIsHad ==
    ASSUME Local, Local', [Next]_vars, NEW q \in Peers, NEW d \in hist'[q], d \notin hist[q]
    PROVE  d \in Base(q)'
<1>1. CASE q # Server
  BY <1>1 DEF Base
<1>2. CASE q = Server
  <2>1. d \in job'[q].changes
    <3>1. CASE hist'[q] = hist[q]
      BY <3>1
    <3>2. CASE hist'[q] = hist[q] \cup job[q].changes /\ job'[q].changes = job[q].changes
      BY <3>2
    <3>3. ASSUME NEW x \in Neighbours(q), hist'[q] = hist[q] \cup Received(q, x),
                 Received(q, x) # {} => job'[q].changes = Received(q, x)
          PROVE  d \in job'[q].changes
      BY <3>3
    <3>4. \/ hist'[q] = hist[q]
          \/ hist'[q] = hist[q] \cup job[q].changes /\ job'[q].changes = job[q].changes
          \/ \E x \in Neighbours(q) : /\ hist'[q] = hist[q] \cup Received(q, x)
                                      /\ Received(q, x) # {} => job'[q].changes = Received(q, x)
      BY OwnStep
    <3> QED BY <3>1, <3>2, <3>3, <3>4
  <2> QED BY <1>2, <2>1 DEF Base
<1> QED BY <1>1, <1>2

\* Own changes are told in order: what is not covered yet is read at once.
LEMMA LocalIsNew ==
    ASSUME Local, NEW p \in Peers, NEW e \in LocalChanges(p),
           NEW d \in Changes, d.site = e.site, d.version <= e.version
    PROVE  d \in LocalChanges(p) \/ d \in Covered(p)
<1>1. d.site = p /\ e \in data[p] /\ e.site = p /\ cursor[p] \in Cursors /\ d.version \in Nat
  BY StateTypes, ChangeFacts DEF LocalChanges, Local
<1>2. PICK n \in 0 .. Writes[p] :
        {x \in data[p] : x.site = p} = {[site |-> p, version |-> v] : v \in 1 .. n}
  BY DEF Local, HistoryInv
<1>3. e.version \in 1 .. n /\ n \in Nat
  <2>1. e \in {[site |-> p, version |-> v] : v \in 1 .. n}
    BY <1>1, <1>2
  <2>2. n \in Nat
    BY PeerConstants
  <2> QED BY <2>1, <2>2
<1>4. d.version \in 1 .. n /\ d = [site |-> p, version |-> d.version]
  BY <1>1, <1>3, ChangeFacts
<1>5. d \in data[p]
  BY <1>2, <1>4
<1>6. cursor[p][p] \in Nat
  BY <1>1 DEF Cursors
<1> QED BY <1>1, <1>5, <1>6 DEF LocalChanges, Covered, Below

\* Only what a peer publishes adds to what it has to tell.
LEMMA ShareKept ==
    ASSUME Local, Local', [Next]_vars, NEW p \in Peers, ~Publish(p), ~Restart(p)
    PROVE  Share(p)' = Share(p)
<1>0. PeerTypeOK
  BY DEF Local
<1>1. /\ cursor[p] \in Cursors /\ job[p].changes \in SUBSET Changes /\ JobOk(p)
      /\ LocalChanges(p) \in SUBSET Changes
  BY <1>0, StateTypes DEF Local, JobInv, LocalChanges
<1>2. CASE cursor'[p] = cursor[p] /\ job'[p].peer = job[p].peer /\ job'[p].changes = job[p].changes
  BY <1>2 DEF Share, Covered
<1>3. CASE cursor'[p] = cursor[p] /\ job[p].changes = {} /\ (job'[p].peer # p \/ job'[p].changes = {})
  BY <1>3 DEF Share, Covered
<1>4. CASE CheckLocal(p) /\ cursor'[p] = Advance(cursor[p], LocalChanges(p)) /\ job[p].step = "idle"
           /\ job'[p].peer = p /\ job'[p].changes = LocalChanges(p)
  <2>1. job[p].changes = {}
    BY <1>1, <1>4 DEF JobOk
  <2>2. \A d \in Covered(p) : d \notin LocalChanges(p) /\ d \in Covered(p)'
    <3>1. Below(cursor[p]) \subseteq Below(Advance(cursor[p], LocalChanges(p)))
      BY <1>1, AdvanceCovers
    <3>2. \A d \in Covered(p) : d \notin LocalChanges(p)
      BY <1>1, ChangeFacts DEF Covered, Below, LocalChanges, Cursors
    <3> QED BY <1>4, <3>1, <3>2 DEF Covered
  <2>3. ASSUME NEW d \in Covered(p)', d \notin LocalChanges(p) PROVE d \in Covered(p)
    <3>1. d \in Below(Advance(cursor[p], LocalChanges(p))) /\ d \in Changes
      BY <1>4, <2>3 DEF Covered, Below
    <3>2. CASE d \in Below(cursor[p])
      BY <3>2 DEF Covered
    <3>3. ASSUME NEW c \in LocalChanges(p), c.site = d.site, d.version <= c.version PROVE d \in Covered(p)
      BY <2>3, <3>1, <3>3, LocalIsNew
    <3> QED BY <1>1, <3>1, <3>2, <3>3, AdvanceCovers
  <2> QED BY <1>4, <2>1, <2>2, <2>3 DEF Share
<1>5. \/ cursor'[p] = cursor[p] /\ job'[p].peer = job[p].peer /\ job'[p].changes = job[p].changes
      \/ cursor'[p] = cursor[p] /\ job[p].changes = {} /\ (job'[p].peer # p \/ job'[p].changes = {})
      \/ CheckLocal(p) /\ cursor'[p] = Advance(cursor[p], LocalChanges(p)) /\ job[p].step = "idle"
           /\ job'[p].peer = p /\ job'[p].changes = LocalChanges(p)
  <2>1. ASSUME NEW q \in Neighbours(p), Receive(p, q), job[p].step = "idle", cursor'[p] = cursor[p],
               Received(p, q) = {} => job'[p] = job[p],
               Received(p, q) # {} => job'[p].peer = q
        PROVE  cursor'[p] = cursor[p] /\ job[p].changes = {} /\ (job'[p].peer # p \/ job'[p].changes = {})
    BY <1>1, <2>1, NeighbourFacts DEF JobOk
  <2> DEFINE Goal ==
               \/ cursor'[p] = cursor[p] /\ job'[p].peer = job[p].peer /\ job'[p].changes = job[p].changes
               \/ cursor'[p] = cursor[p] /\ job[p].changes = {} /\ (job'[p].peer # p \/ job'[p].changes = {})
               \/ CheckLocal(p) /\ cursor'[p] = Advance(cursor[p], LocalChanges(p)) /\ job[p].step = "idle"
                    /\ job'[p].peer = p /\ job'[p].changes = LocalChanges(p)
  <2>2. UNCHANGED <<cursor[p], saved[p], job[p], hist[p]>> => Goal
    OBVIOUS
  <2>3. (/\ CheckLocal(p) /\ cursor'[p] = Advance(cursor[p], LocalChanges(p))
         /\ job'[p] = [step |-> "read", changes |-> LocalChanges(p), peer |-> p]
         /\ job[p].step = "idle") => Goal
    OBVIOUS
  <2>4. (/\ job'[p].changes = job[p].changes /\ job'[p].peer = job[p].peer
         /\ UNCHANGED <<cursor[p], saved[p]>>) => Goal
    OBVIOUS
  <2>5. (/\ job'[p].changes = {} /\ job[p].changes = {}
         /\ UNCHANGED <<cursor[p], saved[p], hist[p]>>) => Goal
    OBVIOUS
  <2>6. ASSUME NEW q \in Neighbours(p), Receive(p, q), job[p].step = "idle",
               Received(p, q) = {} => job'[p] = job[p],
               Received(p, q) # {} => /\ job'[p].step = "known" /\ job'[p].peer = q
                                      /\ job'[p].changes = Received(p, q),
               UNCHANGED <<cursor[p], saved[p]>>
        PROVE Goal
    BY <2>1, <2>6
  <2> HIDE DEF Goal
  <2>7. Goal
    BY <2>2, <2>3, <2>4, <2>5, <2>6, OwnStep
  <2> QED BY <2>7 DEF Goal
<1> QED BY <1>2, <1>3, <1>4, <1>5

\* TellOk, with all it is about as parameters.
Tells(p, i, share, rows, will, logged) ==
    /\ \A d \in Below(i.cursor) : p = Server => d \in will
    /\ \A d \in Below(i.cursor) : d.site = p => d \in logged \cup will
    /\ i.pending \subseteq share
    /\ i.sync.on =>
        /\ Below(i.sync.from) \subseteq will
        /\ \A d \in rows : Place(d, rows) <= i.sync.offset => d \in will
        /\ \A d \in share : d \in will \cup i.pending \/ d.site \in i.sync.sites
    /\ i.active => share \subseteq will
    /\ i.sync.on \/ i.active => \A d \in logged :
        d.site = p => d \in will \/ (i.sync.on /\ p \in i.sync.sites)

\* Of these rows no more is before the offset than of those.
Passed(more, rows, offset) ==
    \A d \in more : Place(d, more) <= offset => d \in rows /\ Place(d, rows) <= offset

\* Tells says of the state what TellOk says.
LEMMA TellsIsTellOk ==
    ASSUME NEW p, NEW q
    PROVE  TellOk(p, q) <=>
              (Up(p, q) /\ Joined(p, q) =>
                  Tells(p, info[p][q], Share(p), Rows(p, info[p][q].sync.sites, info[p][q].sync.from),
                        Will(q, p), hist[q]))
BY DEF TellOk, Tells

\* What p has told stays told when the other end has more, and when p has more
\* to tell that the other end has logged.
LEMMA TellsKept ==
    ASSUME NEW p, NEW i, NEW share, NEW share1, NEW rows, NEW rows1, NEW will, NEW will1,
           NEW logged, NEW logged1, Tells(p, i, share, rows, will, logged),
           i.sync.on => ~i.active,
           will \subseteq will1, logged \subseteq logged1,
           \A d \in logged1 : d \in logged \/ d.site # p \/ d \in will1,
           i.sync.on => Passed(rows1, rows, i.sync.offset),
           share \subseteq share1,
           \A d \in share1 : d \in share \/ d \in will1 \/ (d \in logged /\ d.site = p)
    PROVE  Tells(p, i, share1, rows1, will1, logged1)
<1>1. /\ \A d \in Below(i.cursor) : p = Server => d \in will1
      /\ \A d \in Below(i.cursor) : d.site = p => d \in logged1 \cup will1
      /\ i.pending \subseteq share1
  BY DEF Tells
<1>2. i.sync.on =>
        /\ Below(i.sync.from) \subseteq will1
        /\ \A d \in rows1 : Place(d, rows1) <= i.sync.offset => d \in will1
  BY DEF Tells, Passed
<1>3. i.sync.on => \A d \in share1 : d \in will1 \cup i.pending \/ d.site \in i.sync.sites
  BY DEF Tells
<1>4. i.active => share1 \subseteq will1
  BY DEF Tells
<1>5. i.sync.on \/ i.active => \A d \in logged1 :
        d.site = p => d \in will1 \/ (i.sync.on /\ p \in i.sync.sites)
  BY DEF Tells
<1> QED BY <1>1, <1>2, <1>3, <1>4, <1>5 DEF Tells

\* What a peer will have does not get less while the stream is open.
LEMMA WillKept ==
    ASSUME Local, Local', LinkInv, PhaseInv, OrderInv, TellInv, [Next]_vars, ~strayed',
           NEW p \in Peers, NEW q \in Neighbours(p), Up(p, q)'
    PROVE  /\ Will(q, p) \subseteq Will(q, p)' /\ Base(q)' \subseteq Will(q, p)'
           /\ Closed(Will(q, p)')
<1>1. q \in Peers /\ p \in Neighbours(q) /\ Link(q, p) = Link(p, q)
  BY NeighbourFacts
<1>2. Up(q, p)'
  BY <1>1 DEF Up
<1>3. Ordered(Base(q)', inbox'[q][p]) /\ Will(q, p) \subseteq Will(q, p)'
  BY <1>1, <1>2, BoxStep
<1>4. inbox'[q][p] \in Seq(Messages)
  <2>1. Table(inbox', Seq(Messages))
    BY DEF Local, PeerTypeOK
  <2> QED BY <1>1, <2>1 DEF Table
<1>5. Closed(Brings(Base(q)', inbox'[q][p]))
  BY <1>3, <1>4, OrderedEnds
<1> QED BY <1>3, <1>5 DEF Will, Brings

\* What comes into the history comes where no running syncPeer has passed by.
LEMMA RowsStep ==
    ASSUME Local, Local', [Next]_vars, ~overlooked', NEW p \in Peers, NEW q \in Neighbours(p),
           info[p][q].sync.on
    PROVE  LET s == info[p][q].sync
           IN  Passed(RowsOf(hist'[p], s.sites, s.from), Rows(p, s.sites, s.from), s.offset)
<1> DEFINE s == info[p][q].sync
           rows == RowsOf(hist[p], s.sites, s.from)
<1>0. PeerTypeOK
  BY DEF Local
<1>1. s \in Syncs /\ hist[p] \in SUBSET Changes /\ s.offset \in Nat /\ info[p][q] \in Infos
  BY <1>0, StateTypes, InfoFields
<1>2. ASSUME NEW C, C \in SUBSET Changes, ~Overlooks(p, C)
      PROVE  Passed(RowsOf(hist[p] \cup C, s.sites, s.from), rows, s.offset)
  <2> DEFINE more == RowsOf(hist[p] \cup C, s.sites, s.from)
  <2>1. rows \subseteq more /\ more \in SUBSET Changes /\ rows \in SUBSET Changes
    BY <1>1, <1>2 DEF RowsOf
  <2>2. \A d \in more \ hist[p] : ~(Place(d, more) <= s.offset)
    BY <1>2 DEF Overlooks
  <2>3. \A d \in more : d \in hist[p] => d \in rows
    BY DEF RowsOf
  <2>4. ASSUME NEW d \in rows PROVE Place(d, rows) <= Place(d, more) /\ Place(d, rows) \in Nat /\ Place(d, more) \in Nat
    <3>1. d \in more
      BY <2>1
    <3> HIDE DEF rows, more
    <3> QED BY <2>1, <2>4, <3>1, PlaceGrows, PlaceFacts
  <2> HIDE DEF rows, more
  <2>5. \A d \in more : Place(d, more) <= s.offset => d \in rows /\ Place(d, rows) <= s.offset
    <3>1. ASSUME NEW d \in more, Place(d, more) <= s.offset PROVE d \in rows /\ Place(d, rows) <= s.offset
      <4>1. d \in rows
        BY <2>2, <2>3, <3>1
      <4>2. Place(d, rows) <= Place(d, more) /\ Place(d, rows) \in Nat /\ Place(d, more) \in Nat
        BY <4>1, <2>4
      <4> QED BY <1>1, <3>1, <4>1, <4>2
    <3> QED BY <3>1
  <2> QED BY <2>5 DEF Passed, more
<1>3. \A d \in rows : Place(d, rows) <= s.offset => d \in rows /\ Place(d, rows) <= s.offset
  OBVIOUS
<1>4. CASE hist'[p] = hist[p]
  BY <1>3, <1>4 DEF Passed, Rows
<1>5. CASE LogLocal(p) /\ hist'[p] = hist[p] \cup job[p].changes
  <2>1. ~Overlooks(p, job[p].changes) /\ job[p].changes \in SUBSET Changes
    BY <1>0, <1>5, StateTypes DEF LogLocal
  <2> QED BY <1>2, <1>5, <2>1
     DEF Rows
<1>6. ASSUME NEW x \in Neighbours(p), Receive(p, x), hist'[p] = hist[p] \cup Received(p, x)
      PROVE  Passed(RowsOf(hist'[p], s.sites, s.from), rows, s.offset)
  <2>1. Received(p, x) \in SUBSET Changes
    BY <1>0, <1>6, ReceivedType
  <2>2. CASE Received(p, x) = {}
    BY <1>3, <1>6, <2>2 DEF Passed
  <2>3. CASE Received(p, x) # {}
    <3> DEFINE C == Fresh(Head(inbox[p][x]).changes, cursor[p])
    <3>0. info[p][x].known /\ Received(p, x) = C /\ C # {}
      BY <2>3 DEF Received
    <3>2. overlooked' = (overlooked \/ Overlooks(p, C))
      BY <1>6, <3>0 DEF Receive, Apply
    <3>1. ~Overlooks(p, Received(p, x))
      <4> HIDE DEF C
      <4> QED BY <3>0, <3>2
    <3> QED BY <1>2, <1>6, <2>1, <3>1
  <2> QED BY <2>2, <2>3
<1>7. \/ hist'[p] = hist[p]
      \/ LogLocal(p) /\ hist'[p] = hist[p] \cup job[p].changes
      \/ \E x \in Neighbours(p) : Receive(p, x) /\ hist'[p] = hist[p] \cup Received(p, x)
  BY OwnStep
<1> QED BY <1>4, <1>5, <1>6, <1>7 DEF Rows

\* What p has told q after a step.
TellsAfter(p, q) ==
    Tells(p, info'[p][q], Share(p)',
          RowsOf(hist'[p], info'[p][q].sync.sites, info'[p][q].sync.from), Will(q, p)', hist'[q])

\* TellsAfter says of the next state what TellOk says.
LEMMA TellsAfterIsTellOk ==
    ASSUME NEW p, NEW q, Up(p, q)' /\ Joined(p, q)' => TellsAfter(p, q)
    PROVE  TellOk(p, q)'
BY DEF TellsAfter, TellOk, Tells, Rows

\* A cursor that names only what the other end has or will have.
Known(p, cur, will, logged) ==
    \A d \in Below(cur) : (p = Server => d \in will) /\ (d.site = p => d \in logged \cup will)

\* What is told does not depend on the cursor, if that names what is known.
LEMMA TellsCursor ==
    ASSUME NEW p, NEW i, NEW j, NEW share, NEW rows, NEW will, NEW logged,
           Tells(p, i, share, rows, will, logged), Known(p, j.cursor, will, logged),
           j.pending = i.pending, j.active = i.active, j.sync.on = i.sync.on,
           j.sync.sites = i.sync.sites, j.sync.from = i.sync.from, j.sync.offset = i.sync.offset
    PROVE  Tells(p, j, share, rows, will, logged)
<1>1. /\ \A d \in Below(j.cursor) : p = Server => d \in will
      /\ \A d \in Below(j.cursor) : d.site = p => d \in logged \cup will
  BY DEF Known
<1> QED BY <1>1 DEF Tells

\* What p has told q stays told as long as its PeerInfo of q is the same, or
\* as far as it is.
LEMMA TellFrame ==
    ASSUME Local, Local', LinkInv, PhaseInv, OrderInv, TellInv, [Next]_vars, ~strayed', ~overlooked',
           NEW p \in Peers, NEW q \in Neighbours(p), Up(p, q), Joined(p, q), Up(p, q)', ~Publish(p)
    PROVE  LET i == info[p][q]
           IN  /\ Tells(p, i, Share(p)', RowsOf(hist'[p], i.sync.sites, i.sync.from), Will(q, p)', hist'[q])
               /\ Known(p, i.cursor, Will(q, p)', hist'[q])
<1> DEFINE share == Share(p)
           share1 == Share(p)'
           will == Will(q, p)
           will1 == Will(q, p)'
           logged == hist[q]
           logged1 == hist'[q]
           rows == Rows(p, info[p][q].sync.sites, info[p][q].sync.from)
           rows1 == RowsOf(hist'[p], info[p][q].sync.sites, info[p][q].sync.from)
<1>1. q \in Peers /\ PeerTypeOK
  BY NeighbourFacts DEF Local
<1>2. Tells(p, info[p][q], share, rows, will, logged)
  BY TellsIsTellOk DEF TellInv
<1>3. info[p][q].sync.on => ~info[p][q].active
  BY AnswerFacts
<1>4. will \subseteq will1 /\ Base(q)' \subseteq will1
  BY WillKept
<1>5. logged \subseteq logged1 /\ \A d \in logged1 : d \in logged \/ d.site # p \/ d \in will1
  BY <1>1, <1>4, HistoriesGrow, LoggedIsHad
<1>6. info[p][q].sync.on => Passed(rows1, rows, info[p][q].sync.offset)
  BY RowsStep
<1>7. share1 = share
  BY RestartTakesDown, ShareKept
<1>8. share \subseteq share1 /\ \A d \in share1 : d \in share \/ d \in will1 \/ (d \in logged /\ d.site = p)
  BY <1>7
<1> HIDE DEF share, share1, will, will1, logged, logged1, rows, rows1
<1>9. Tells(p, info[p][q], share1, rows1, will1, logged1)
  BY <1>2, <1>3, <1>4, <1>5, <1>6, <1>8, TellsKept
<1>10. Known(p, info[p][q].cursor, will1, logged1)
  BY <1>9 DEF Known, Tells
<1> QED BY <1>9, <1>10 DEF share1, rows1, will1, logged1

\* When a step changes a PeerInfo in its cursor alone, what was told stays told.
LEMMA TellSame ==
    ASSUME Local, Local', LinkInv, PhaseInv, OrderInv, TellInv, [Next]_vars, ~strayed', ~overlooked',
           NEW p \in Peers, NEW q \in Neighbours(p), Up(p, q), Joined(p, q), Up(p, q)', ~Publish(p),
           NEW j, j = info'[p][q], Known(p, j.cursor, Will(q, p)', hist'[q]),
           j.pending = info[p][q].pending, j.active = info[p][q].active,
           j.sync.on = info[p][q].sync.on, j.sync.sites = info[p][q].sync.sites,
           j.sync.from = info[p][q].sync.from, j.sync.offset = info[p][q].sync.offset
    PROVE  TellsAfter(p, q)
<1> DEFINE share1 == Share(p)'
           will1 == Will(q, p)'
           logged1 == hist'[q]
           rows1 == RowsOf(hist'[p], info[p][q].sync.sites, info[p][q].sync.from)
           i == info[p][q]
<1>1. Tells(p, i, share1, rows1, will1, logged1)
  BY TellFrame
<1>2. rows1 = RowsOf(hist'[p], j.sync.sites, j.sync.from)
  OBVIOUS
<1>3. /\ j.pending = i.pending /\ j.active = i.active
      /\ j.sync.on = i.sync.on /\ j.sync.sites = i.sync.sites
      /\ j.sync.from = i.sync.from /\ j.sync.offset = i.sync.offset
      /\ Known(p, j.cursor, will1, logged1)
  OBVIOUS
<1> HIDE DEF share1, will1, logged1, rows1, i
<1>4. Tells(p, j, share1, rows1, will1, logged1)
  BY ONLY <1>1, <1>3, TellsCursor
<1> QED BY <1>2, <1>4 DEF TellsAfter, share1, rows1, will1, logged1

\* When p has received: a client has all it sent, and the server logged it.
LEMMA TellReceive ==
    ASSUME Local, Local', LinkInv, PhaseInv, OrderInv, TellInv, [Next]_vars, ~strayed', ~overlooked',
           NEW p \in Peers, NEW q \in Neighbours(p), Up(p, q), Joined(p, q), Up(p, q)', ~Publish(p),
           Receive(p, q), info'[p][q] = AfterReceive(p, q)
    PROVE  TellsAfter(p, q)
<1> DEFINE i == info[p][q]
           R == Received(p, q)
           will1 == Will(q, p)'
           logged1 == hist'[q]
<1>0. PeerTypeOK
  BY DEF Local
<1>1. /\ q \in Peers /\ i.cursor \in Cursors /\ hist[q] \in SUBSET Changes
      /\ R \in SUBSET Changes /\ R \subseteq hist[q] /\ i.known
      /\ hist[q] \subseteq logged1 /\ logged1 \in SUBSET Changes
  <2>1. q \in Peers /\ i \in Infos
    BY <1>0, NeighbourFacts, StateTypes
  <2>2. hist'[q] \in SUBSET Changes
    BY <2>1 DEF Local, PeerTypeOK
  <2> QED BY <1>0, <2>1, <2>2, StateTypes, InfoFields, ReceivedType, ReceivedFacts, ReceiveOrdered, HistoriesGrow
             DEF Local
<1>2. /\ Closed(hist[q]) /\ Closed(will1) /\ Base(q)' \subseteq will1
  BY <1>1, WillKept DEF OrderInv
<1>3. Known(p, i.cursor, will1, logged1)
  BY TellFrame
<1>4. p = Server => R \subseteq will1
  <2>1. p = Server => q # Server
    BY NeighbourFacts, ClientFacts
  <2>2. q # Server => Base(q)' = hist'[q]
    BY DEF Base
  <2> QED BY <1>1, <1>2, <2>1, <2>2
<1> DEFINE cur == Advance(i.cursor, R)
<1>5. AfterReceive(p, q).cursor = cur
  BY <1>0, <1>1, AfterReceiveFacts
<1>6. Known(p, cur, will1, logged1)
  <2> HIDE DEF i, R, will1, logged1
  <2>1. ASSUME NEW d \in Below(cur) PROVE (p = Server => d \in will1) /\ (d.site = p => d \in logged1 \cup will1)
    <3>1. CASE d \in Below(i.cursor)
      BY <1>3, <3>1 DEF Known
    <3>2. ASSUME NEW c \in R, c.site = d.site, d.version <= c.version
          PROVE  (p = Server => d \in will1) /\ d \in logged1
      <4>1. d \in Changes
        BY <2>1 DEF Below
      <4>2. d \in hist[q]
        BY <1>1, <1>2, <3>2, <4>1 DEF Closed
      <4>3. p = Server => d \in will1
        BY <1>2, <1>4, <3>2, <4>1 DEF Closed
      <4> QED BY <1>1, <4>2, <4>3
    <3> QED BY <1>1, <3>1, <3>2, AdvanceCovers
  <2> QED BY <2>1 DEF Known
<1> DEFINE j == AfterReceive(p, q)
<1>7. /\ j.active = info[p][q].active /\ j.pending = info[p][q].pending /\ j.sync = info[p][q].sync
      /\ j.cursor = cur
  BY <1>0, <1>5, AfterReceiveFacts
<1>8. PICK k : k = info'[p][q]
  OBVIOUS
<1>9. /\ Known(p, k.cursor, Will(q, p)', hist'[q])
      /\ k.active = info[p][q].active /\ k.pending = info[p][q].pending /\ k.sync = info[p][q].sync
  <2>1. k = j
    BY <1>8
  <2> HIDE DEF j, cur
  <2> QED BY <2>1, <1>6, <1>7
<1> HIDE DEF cur, j, i
<1> QED BY <1>8, <1>9, TellSame

\* When p's syncPeer of q is cancelled.
LEMMA TellCancel ==
    ASSUME Local, Local', LinkInv, PhaseInv, OrderInv, TellInv, [Next]_vars, ~strayed', ~overlooked',
           NEW p \in Peers, NEW q \in Neighbours(p), Up(p, q), Joined(p, q), Up(p, q)', ~Publish(p),
           info'[p][q] = AfterCancel(p, q)
    PROVE  TellsAfter(p, q)
<1> DEFINE j == AfterCancel(p, q)
<1>0. PeerTypeOK
  BY DEF Local
<1>1. /\ j.active = info[p][q].active /\ j.pending = info[p][q].pending /\ j.cursor = info[p][q].cursor
      /\ j.sync.on = info[p][q].sync.on /\ j.sync.sites = info[p][q].sync.sites
      /\ j.sync.from = info[p][q].sync.from /\ j.sync.offset = info[p][q].sync.offset
  BY <1>0, AfterCancelFacts
<1>2. Known(p, info[p][q].cursor, Will(q, p)', hist'[q])
  BY TellFrame
<1>3. PICK k : k = info'[p][q]
  OBVIOUS
<1>4. /\ k.active = info[p][q].active /\ k.pending = info[p][q].pending
      /\ k.sync.on = info[p][q].sync.on /\ k.sync.sites = info[p][q].sync.sites
      /\ k.sync.from = info[p][q].sync.from /\ k.sync.offset = info[p][q].sync.offset
      /\ Known(p, k.cursor, Will(q, p)', hist'[q])
  <2>1. k = j
    BY <1>3
  <2> HIDE DEF j
  <2> QED BY <2>1, <1>1, <1>2
<1> HIDE DEF j
<1> QED BY <1>3, <1>4, TellSame

\* When the step does not change the PeerInfo.
LEMMA TellUnchanged ==
    ASSUME Local, Local', LinkInv, PhaseInv, OrderInv, TellInv, [Next]_vars, ~strayed', ~overlooked',
           NEW p \in Peers, NEW q \in Neighbours(p), Up(p, q), Joined(p, q), Up(p, q)', ~Publish(p),
           info'[p][q] = info[p][q]
    PROVE  TellsAfter(p, q)
BY TellFrame DEF TellsAfter

\* An old run of syncPeer tells nothing on the new connection.
LEMMA StrayTellsNothing ==
    ASSUME Local, LinkInv, NEW p \in Peers, NEW q \in Neighbours(p), Up(p, q), Joined(p, q),
           StrayTurn(p, q), ~strayed'
    PROVE  info'[p][q] = info[p][q]
<1>0. PeerTypeOK
  BY DEF Local
<1>1. Reaches(p, q) /\ \A i \in strays[p][q] : i.epoch < epoch[Link(p, q)]
  BY DEF LinkInv, LinkOk
<1>2. PICK i \in strays[p][q] :
        strayed' = (strayed \/ TurnStrays(p, q, i)) /\ info'[p][q] = AfterStray(p, q, i)
  BY ONLY <1>0, p \in Peers, q \in Neighbours(p), StrayTurn(p, q), StrayTurnEffect
<1>3. i \in Infos /\ info[p][q] \in Infos /\ epoch[Link(p, q)] \in Nat /\ i.epoch \in Nat
  <2>1. i \in Infos /\ info[p][q] \in Infos
    BY <1>0, StateTypes
  <2> QED BY <1>0, <2>1, InfoFields, NeighbourFacts, EpochStep DEF PeerTypeOK
<1>4. Turn(p, i) = <<>>
  <2>1. ~TurnStrays(p, q, i)
    BY <1>2
  <2>2. i.epoch < epoch[Link(p, q)]
    BY <1>1
  <2>3. i.epoch # epoch[Link(p, q)]
    BY <1>3, <2>2
  <2> QED BY <1>1, <2>1, <2>3 DEF TurnStrays
<1>5. Told(p, i) = {}
  BY <1>0, <1>3, <1>4, TurnFacts
<1>6. info[p][q].cursor \in Cursors
  BY <1>3, InfoFields
<1>7. Advance(info[p][q].cursor, {}) = info[p][q].cursor
  BY <1>6, AdvanceNothing
<1>8. AfterStray(p, q, i) = info[p][q]
  <2>1. AfterStray(p, q, i) = IF info[p][q].known THEN [info[p][q] EXCEPT !.cursor = info[p][q].cursor]
                              ELSE info[p][q]
    BY <1>5, <1>7 DEF AfterStray
  <2>2. [info[p][q] EXCEPT !.cursor = info[p][q].cursor] = info[p][q]
    BY <1>3 DEF Infos
  <2> QED BY <2>1, <2>2
<1> QED BY <1>2, <1>8

\* When q has asked, p's syncPeer starts with what q's cursor lacks.
LEMMA TellOnSync ==
    ASSUME Local, Local', LinkInv, PhaseInv, MarkInv, OrderInv, TellInv, [Next]_vars, ~strayed', ~overlooked',
           NEW p \in Peers, NEW q \in Neighbours(p), Up(p, q), Joined(p, q), Up(p, q)', ~Publish(p),
           OnSync(p, q), info'[p][q] = AfterSync(p, q)
    PROVE  TellsAfter(p, q)
<1> DEFINE theirs == Head(inbox[p][q]).cursor
           sites == Asked(p, q)
           i == info[p][q]
           will1 == Will(q, p)'
           share1 == Share(p)'
           logged1 == hist'[q]
           rows1 == RowsOf(hist'[p], sites, theirs)
<1>0. PeerTypeOK
  BY DEF Local
<1>1. /\ q \in Peers /\ p \in Neighbours(q) /\ inbox[p][q] # <<>> /\ Head(inbox[p][q]).type = "sync"
      /\ inbox[p][q] \in Seq(Messages) /\ i.known /\ i \in Infos /\ theirs \in Cursors
      /\ p = Server => q # Server
      /\ p # Server => q = Server /\ p \in Clients
  <2>1. inbox[p][q] # <<>> /\ Head(inbox[p][q]).type = "sync"
    BY DEF OnSync, Next1
  <2>2. inbox[p][q] \in Seq(Messages) /\ i \in Infos /\ i.known
    BY <1>0, StateTypes DEF Joined
  <2>3. theirs \in Cursors
    BY <2>1, <2>2, HeadFacts, MessageFields
  <2> QED BY <2>1, <2>2, <2>3, NeighbourFacts, ClientFacts
<1>2. 1 \in CurrentSyncs(inbox[p][q]) /\ Head(inbox[p][q]) = inbox[p][q][1] /\ HasSync(inbox[p][q])
  <2>1. 1 \in DOMAIN inbox[p][q] /\ Head(inbox[p][q]) = inbox[p][q][1]
        /\ DOMAIN inbox[p][q] = 1 .. Len(inbox[p][q])
    BY <1>1, TailIndex
  <2>2. \A k \in DOMAIN inbox[p][q] : ~Control(inbox[p][q][k])
    BY DEF Joined, Controls
  <2> QED BY <1>1, <2>1, <2>2 DEF CurrentSyncs, HasSync
<1>3. ~i.active
  BY <1>2, AnswerFacts
<1>4. Will(q, p) \subseteq will1 /\ Base(q)' \subseteq will1 /\ Base(q) \subseteq Will(q, p)
  BY WillKept DEF Will
<1>5. Below(theirs) \subseteq will1
  <2>1. Below(inbox[p][q][1].cursor) \subseteq Base(q)
    BY <1>2 DEF OrderInv, OrderOk
  <2> QED BY <1>2, <1>4, <2>1
<1>6. i.pending \subseteq share1 /\ share1 = Share(p)
  <2>1. share1 = Share(p)
    BY RestartTakesDown, ShareKept
  <2>2. i.pending \subseteq Share(p)
    BY TellFacts
  <2> QED BY <2>1, <2>2
<1>7. \A d \in share1 : d.site \in sites
  <2>1. ASSUME NEW d \in Share(p) PROVE d.site \in sites
    <3>1. d \in Changes /\ d.version <= cursor[p][d.site]
      BY <2>1 DEF Share, Covered, Below
    <3>2. d.site \in Peers /\ d.version \in Nat /\ d.version >= 1 /\ cursor[p] \in Cursors
      BY <1>0, <3>1, ChangeFacts, StateTypes
    <3>3. cursor[p][d.site] > 0
      BY <3>1, <3>2 DEF Cursors
    <3> QED BY <3>2, <3>3 DEF Asked
  <2> QED BY <1>6, <2>1
<1>8. \A d \in rows1 : ~(Place(d, rows1) <= 0)
  <2>1. rows1 \in SUBSET Changes
    <3>1. hist'[p] \in SUBSET Changes
      BY DEF Local, PeerTypeOK
    <3> QED BY <3>1 DEF RowsOf
  <2> HIDE DEF rows1
  <2>2. ASSUME NEW d \in rows1 PROVE ~(Place(d, rows1) <= 0)
    <3>1. Place(d, rows1) \in Nat /\ Place(d, rows1) >= 1
      BY <2>1, <2>2, PlaceFacts
    <3> QED BY <3>1
  <2> QED BY <2>2
<1>9. \A d \in logged1 : d.site = p => d \in will1 \/ p \in sites
  <2>1. CASE p = Server
    <3>1. hist'[q] \subseteq will1
      BY <1>1, <1>4, <2>1 DEF Base
    <3> QED BY <3>1
  <2>2. CASE p # Server
    <3>1. p \in Clients /\ q = Server
      BY <1>1, <2>2
    <3>2. hist'[q] = hist[q]
      BY DEF OnSync, durable
    <3>3. (\E d \in hist[Server] : d.site = p) => Marked(p)
      BY <3>1 DEF MarkInv, MarkOk
    <3>4. Marked(p) => p \in sites
      BY DEF Marked, Asked
    <3> QED BY <3>1, <3>2, <3>3, <3>4
  <2> QED BY <2>1, <2>2
<1>10. PICK k : k = info'[p][q]
  OBVIOUS
<1>11. /\ k.cursor = theirs /\ k.pending = i.pending /\ k.active = i.active
       /\ k.sync.on = TRUE /\ k.sync.sites = sites /\ k.sync.from = theirs /\ k.sync.offset = 0
  <2> DEFINE j == AfterSync(p, q)
  <2>1. /\ j.cursor = theirs /\ j.pending = i.pending /\ j.active = i.active
        /\ j.sync.on = TRUE /\ j.sync.sites = sites /\ j.sync.from = theirs /\ j.sync.offset = 0
    <3>1. inbox[p][q] # <<>> /\ info[p][q].known
      BY <1>1
    <3> QED BY ONLY <1>0, <3>1, p \in Peers, q \in Neighbours(p), AfterSyncFacts
  <2>2. k = j
    BY <1>10
  <2> HIDE DEF j
  <2> QED BY <2>1, <2>2
<1>12. Tells(p, k, share1, rows1, will1, logged1)
  <2> HIDE DEF theirs, sites, i, will1, share1, logged1, rows1
  <2> QED BY <1>3, <1>5, <1>6, <1>7, <1>8, <1>9, <1>11 DEF Tells
<1> QED BY <1>10, <1>11, <1>12 DEF TellsAfter

\* When p's syncPeer of q has taken a turn: what it read is on its way to q.
LEMMA TellTurn ==
    ASSUME Local, Local', LinkInv, PhaseInv, OrderInv, TellInv, [Next]_vars, ~strayed', ~overlooked',
           NEW p \in Peers, NEW q \in Neighbours(p), Up(p, q), Joined(p, q), Up(p, q)', ~Publish(p),
           SyncTurn(p, q),
           info'[p][q] = AfterTurn(p, info[p][q], Advance(info[p][q].cursor, Told(p, info[p][q])))
    PROVE  TellsAfter(p, q)
<1> DEFINE i == info[p][q]
           told == Told(p, i)
           cur == Advance(i.cursor, told)
           W == Will(q, p)
           will1 == Will(q, p)'
           share1 == Share(p)'
           logged1 == hist'[q]
           rows == Rows(p, i.sync.sites, i.sync.from)
           batch == Batch(p, i.sync)
<1>0. PeerTypeOK
  BY DEF Local
<1>1. /\ q \in Peers /\ p \in Neighbours(q) /\ i \in Infos /\ i.sync.on /\ i.sync \in Syncs
      /\ told \in SUBSET Changes /\ i.cursor \in Cursors /\ cur \in Cursors
  <2>1. q \in Peers /\ p \in Neighbours(q) /\ i \in Infos
    BY <1>0, NeighbourFacts, StateTypes
  <2>2. told \in SUBSET Changes /\ i.cursor \in Cursors /\ i.sync \in Syncs
    BY <1>0, <2>1, TurnFacts, InfoFields
  <2>3. cur \in Cursors
    BY <2>2, AdvanceFacts
  <2> QED BY <2>1, <2>2, <2>3 DEF SyncTurn
<1>2. Reaches(p, q)
  BY DEF LinkInv, LinkOk
<1>3. will1 = W \cup told
  <2>1. inbox'[q][p] = inbox[q][p] \o Turn(p, i)
    BY ONLY <1>0, <1>2, p \in Peers, q \in Neighbours(p), SyncTurn(p, q), SyncTurnEffect
  <2>2. Base(q)' = Base(q)
    BY DEF SyncTurn, durable, Base, Covered
  <2>3. Brings(Base(q), inbox[q][p] \o Turn(p, i)) = W \cup told
    BY <1>2, TurnBox
  <2> QED BY <2>1, <2>2, <2>3 DEF Will, Brings
<1>4. Closed(will1)
  BY WillKept
<1>5. share1 = Share(p) /\ hist' = hist
  BY RestartTakesDown, ShareKept DEF SyncTurn, durable
<1>6. /\ Tells(p, i, Share(p), rows, W, hist[q])
      /\ ~i.active
  BY <1>1, TellsIsTellOk, AnswerFacts DEF TellInv
<1>7. /\ IsLast(p, i.sync) => Share(p) \subseteq W \cup batch \cup i.pending
      /\ IsLast(p, i.sync) => \A d \in hist[q] : d.site = p => d \in W \cup batch
      /\ \A d \in rows : Place(d, rows) <= i.sync.offset + BatchLimit => d \in W \cup batch
  BY <1>1, TurnTold
<1>8. batch \subseteq told /\ (IsLast(p, i.sync) => i.pending \subseteq told)
  BY DEF Told
<1>9. Known(p, cur, will1, hist[q])
  <2> HIDE DEF i, told, W, will1, cur
  <2>1. Known(p, i.cursor, W, hist[q])
    BY <1>6 DEF Known, Tells
  <2>2. ASSUME NEW d \in Below(cur)
        PROVE  (p = Server => d \in will1) /\ (d.site = p => d \in hist[q] \cup will1)
    <3>1. CASE d \in Below(i.cursor)
      BY <1>3, <2>1, <3>1 DEF Known
    <3>2. ASSUME NEW c \in told, c.site = d.site, d.version <= c.version PROVE d \in will1
      <4>1. d \in Changes
        BY <2>2 DEF Below
      <4> QED BY <1>3, <1>4, <3>2, <4>1 DEF Closed
    <3> QED BY <1>1, <2>2, <3>1, <3>2, AdvanceCovers DEF cur
  <2> QED BY <2>2 DEF Known
<1>10. PICK k : k = info'[p][q]
  OBVIOUS
<1> DEFINE rows1 == RowsOf(hist'[p], k.sync.sites, k.sync.from)
<1>11. Tells(p, k, share1, rows1, will1, logged1)
  <2>1. CASE IsLast(p, i.sync)
    <3> DEFINE j == AfterTurn(p, i, cur)
    <3>1. j.cursor = cur /\ j.pending = {} /\ j.sync = NoSync /\ j.active = TRUE
      BY <1>1, <2>1, AfterTurnSame, AfterTurnLast
    <3>2. k = j
      BY <1>10
    <3> HIDE DEF j
    <3>3. k.cursor = cur /\ k.pending = {} /\ k.sync.on = FALSE /\ k.active
      BY <3>1, <3>2, NoInfoFields
    <3>4. share1 \subseteq will1 /\ \A d \in logged1 : d.site = p => d \in will1
      <4>1. logged1 = hist[q]
        BY <1>5
      <4> HIDE DEF i, told, W, will1, cur, share1, logged1, batch
      <4> QED BY <1>3, <1>5, <1>7, <1>8, <2>1, <4>1
    <3>5. Known(p, k.cursor, will1, logged1)
      BY <1>5, <1>9, <3>3
    <3> HIDE DEF i, told, W, will1, cur, share1, logged1, batch, rows, rows1
    <3> QED BY <3>3, <3>4, <3>5 DEF Tells, Known
  <2>2. CASE ~IsLast(p, i.sync)
    <3> DEFINE j == AfterTurn(p, i, cur)
    <3>1. /\ j.cursor = cur /\ j.pending = i.pending /\ j.active = i.active /\ j.sync.on = i.sync.on
          /\ j.sync.sites = i.sync.sites /\ j.sync.from = i.sync.from
          /\ j.sync.offset = i.sync.offset + BatchLimit
      <4>1. i \in Infos /\ cur \in Cursors /\ p \in Peers
        BY <1>1
      <4> HIDE DEF i, cur
      <4>2. j.cursor = cur
        BY ONLY <4>1, AfterTurnSame
      <4> QED BY ONLY <4>1, <4>2, <2>2, AfterTurnMore
    <3>2. k = j
      BY <1>10
    <3> HIDE DEF j
    <3>3. /\ k.cursor = cur /\ k.pending = i.pending /\ k.active = i.active /\ k.sync.on = i.sync.on
          /\ k.sync.sites = i.sync.sites /\ k.sync.from = i.sync.from
          /\ k.sync.offset = i.sync.offset + BatchLimit
      BY <3>1, <3>2
    <3>4. rows1 = rows /\ logged1 = hist[q]
      BY <1>5, <3>3 DEF Rows
    <3>5. Known(p, k.cursor, will1, logged1)
      BY <1>9, <3>3, <3>4
    <3> HIDE DEF i, told, W, will1, cur, share1, logged1, batch, rows, rows1
    <3>6. k.pending \subseteq share1 /\ Below(k.sync.from) \subseteq will1 /\ k.sync.on /\ ~k.active
      BY <1>1, <1>3, <1>5, <1>6, <3>3 DEF Tells
    <3>7. \A d \in rows1 : Place(d, rows1) <= k.sync.offset => d \in will1
      BY <1>3, <1>7, <1>8, <3>3, <3>4
    <3>8. \A d \in share1 : d \in will1 \cup k.pending \/ d.site \in k.sync.sites
      BY <1>1, <1>3, <1>5, <1>6, <3>3 DEF Tells
    <3>9. \A d \in logged1 : d.site = p => d \in will1 \/ p \in k.sync.sites
      BY <1>1, <1>3, <1>5, <1>6, <3>3, <3>4 DEF Tells
    <3> QED BY <3>5, <3>6, <3>7, <3>8, <3>9 DEF Tells, Known
  <2> QED BY <2>1, <2>2
<1> QED BY <1>10, <1>11 DEF TellsAfter

\* What a peer publishes it has to tell from then on; of what came from another
\* peer it tells no more than that peer has.
LEMMA PublishShare ==
    ASSUME Local, OrderInv, NEW p \in Peers, NEW q \in Neighbours(p), Publish(p)
    PROVE  LET J == job[p].changes
               from == job[p].peer
           IN  /\ Share(p) \subseteq Share(p)'
               /\ from = p \/ p = Server => Share(p)' \subseteq Share(p) \cup J /\ J \subseteq Share(p)'
               /\ \A d \in Share(p)' : /\ p = Server \/ d.site = p
                                       /\ from # p => d \in Share(p) \/ d \in hist[from]
<1> DEFINE J == job[p].changes
           from == job[p].peer
           cur == Advance(cursor[p], J)
<1>0. PeerTypeOK
  BY DEF Local
<1>1. /\ J \in SUBSET Changes /\ cursor[p] \in Cursors /\ job[p].step = "known" /\ JobOk(p)
  BY <1>0, StateTypes DEF Local, JobInv, Publish
<1>2. cursor'[p] = cur /\ job'[p].changes = {}
  <2>1. cursor'[p] = cur /\ job'[p] = Idle
    BY ONLY <1>0, p \in Peers, Publish(p), PublishEffect
  <2> QED BY <2>1 DEF Idle
<1>3. Share(p)' = {d \in Below(cur) : p = Server \/ d.site = p}
  BY <1>2 DEF Share, Covered
<1>4. Closed(Base(p)) /\ \A x \in Peers : Closed(hist[x])
  <2>1. Ordered(Base(p), inbox[p][q]) /\ inbox[p][q] \in Seq(Messages)
    BY <1>0, StateTypes DEF OrderInv, OrderOk, Ordered
  <2>2. Closed(Base(p))
    BY <2>1, OrderedEnds
  <2> QED BY <2>2 DEF OrderInv
<1>5. /\ Below(cursor[p]) \subseteq Below(cur) /\ J \subseteq Below(cur)
      /\ \A d \in Below(cur) :
            d \in Below(cursor[p]) \/ \E c \in J : c.site = d.site /\ d.version <= c.version
  BY <1>1, AdvanceCovers
<1>6. Share(p) \subseteq Below(cursor[p]) /\ \A d \in Share(p) : p = Server \/ d.site = p
  BY DEF Share, Covered
<1>7. \A d \in Below(cursor[p]) :
        (p = Server \/ d.site = p) => d \in Share(p) \/ (from = p /\ d \in J)
  BY DEF Share, Covered
<1>8. Below(cur) \subseteq Changes
  BY DEF Below
<1>9. ASSUME from = p \/ p = Server PROVE Share(p)' \subseteq Share(p) \cup J /\ J \subseteq Share(p)'
  <2>1. \A c \in J : p = Server \/ c.site = p
    BY <1>1, <1>9 DEF JobOk
  <2>2. ASSUME NEW d \in Below(cur), p = Server \/ d.site = p PROVE d \in Share(p) \cup J
    <3>1. CASE d \in Below(cursor[p])
      BY <1>7, <2>2, <3>1
    <3>2. ASSUME NEW c \in J, c.site = d.site, d.version <= c.version PROVE d \in Share(p) \cup J
      BY <1>1, <1>4, <1>8, <1>9, <2>2, <3>2, JobFollows
    <3> QED BY <1>5, <3>1, <3>2
  <2> HIDE DEF J, cur
  <2> QED BY <1>3, <1>5, <2>1, <2>2
<1>10. ASSUME from # p, NEW d \in Below(cur), p = Server \/ d.site = p
       PROVE  d \in Share(p) \/ d \in hist[from]
  <2>1. from \in Neighbours(p) /\ J \subseteq hist[from]
    BY <1>1, <1>10 DEF JobOk
  <2>2. Closed(hist[from])
    BY <1>4, <2>1, NeighbourFacts
  <2>3. CASE d \in Below(cursor[p])
    BY <1>7, <1>10, <2>3
  <2>4. ASSUME NEW c \in J, c.site = d.site, d.version <= c.version PROVE d \in hist[from]
    BY <1>8, <1>10, <2>1, <2>2, <2>4 DEF Closed
  <2> QED BY <1>5, <1>10, <2>3, <2>4
<1> HIDE DEF J, cur, from
<1>11. Share(p) \subseteq Share(p)'
  BY <1>3, <1>5, <1>6
<1>12. \A d \in Share(p)' : /\ p = Server \/ d.site = p
                            /\ from # p => d \in Share(p) \/ d \in hist[from]
  BY <1>3, <1>10
<1> QED BY <1>9, <1>11, <1>12 DEF J, from

\* When p has published changes: q has been told, will be, or had them before.
LEMMA TellPublish ==
    ASSUME Local, Local', LinkInv, PhaseInv, OrderInv, TellInv, [Next]_vars, ~strayed', ~overlooked',
           NEW p \in Peers, NEW q \in Neighbours(p), Up(p, q), Joined(p, q), Up(p, q)',
           Publish(p)
    PROVE  TellsAfter(p, q)
<1> DEFINE i == info[p][q]
           J == job[p].changes
           from == job[p].peer
           W == Will(q, p)
           will1 == Will(q, p)'
           share == Share(p)
           share1 == Share(p)'
           rows == Rows(p, i.sync.sites, i.sync.from)
<1>0. PeerTypeOK
  BY DEF Local
<1>1. /\ q \in Peers /\ q # p /\ p \in Neighbours(q) /\ i \in Infos /\ i.known /\ JobOk(p)
      /\ job[p].step = "known" /\ J \in SUBSET Changes
      /\ p = Server => q # Server
  BY <1>0, StateTypes, NeighbourFacts, ClientFacts DEF Joined, Local, JobInv, Publish
<1>2. hist' = hist
  BY DEF Publish
<1>3. Tells(p, i, share, rows, W, hist[q])
  BY TellsIsTellOk DEF TellInv
<1>4. W \subseteq will1 /\ Base(q)' \subseteq will1
  BY WillKept
<1>5. /\ share \subseteq share1
      /\ from = p \/ p = Server => share1 \subseteq share \cup J /\ J \subseteq share1
      /\ \A d \in share1 : /\ p = Server \/ d.site = p
                           /\ from # p => d \in share \/ d \in hist[from]
  BY PublishShare
<1>6. i.sync.on => ~i.active
  BY AnswerFacts
<1>7. PICK k : k = info'[p][q]
  OBVIOUS
<1> DEFINE j == AfterBroadcast(p, J, from)[q]
<1>8. k = j
  <2>1. info'[p][q] = AfterBroadcast(p, job[p].changes, job[p].peer)[q]
    BY ONLY <1>0, p \in Peers, q \in Neighbours(p), Publish(p), PublishEffect
  <2> QED BY <1>7, <2>1
<1>9. /\ j.cursor = i.cursor /\ j.active = i.active /\ j.sync = i.sync
      /\ Waiting(p, q, from) => j.pending = i.pending \cup J
      /\ Listening(p, q, from) => j.pending = {}
      /\ ~Waiting(p, q, from) /\ ~Listening(p, q, from) => j.pending = i.pending
  BY <1>0, <1>1, AfterBroadcastSame, AfterBroadcastWaiting, AfterBroadcastListening, AfterBroadcastOthers
<1> HIDE DEF j
<1>10. /\ k.cursor = i.cursor /\ k.active = i.active /\ k.sync = i.sync
       /\ Waiting(p, q, from) => k.pending = i.pending \cup J
       /\ Listening(p, q, from) => k.pending = {}
       /\ ~Waiting(p, q, from) /\ ~Listening(p, q, from) => k.pending = i.pending
  BY <1>8, <1>9
<1>11. Listening(p, q, from) => share1 \subseteq will1
  <2>1. SUFFICES ASSUME Listening(p, q, from) PROVE share1 \subseteq will1
    OBVIOUS
  <2>2. i.active /\ q # from
    BY <2>1 DEF Listening
  <2>3. Reaches(p, q)
    BY DEF LinkInv, LinkOk
  <2>4. share \subseteq W /\ J \subseteq W \cup Fresh(J, i.cursor)
    BY <1>1, <2>2, PublishTold
  <2>5. /\ inbox'[q][p] = inbox[q][p] \o Broadcast(p, J, from)[q]
        /\ job'[q] = job[q] /\ cursor'[q] = cursor[q]
    <3>1. q \in Peers /\ q # p
      BY <1>1
    <3>2. \A r \in Peers : r # p => cursor'[r] = cursor[r] /\ job'[r] = job[r]
      BY ONLY <1>0, p \in Peers, Publish(p), PublishEffect
    <3>3. \A r \in Neighbours(p) :
            Reaches(p, r) => inbox'[r][p] = inbox[r][p] \o Broadcast(p, J, from)[r]
      BY ONLY <1>0, p \in Peers, Publish(p), PublishEffect
    <3> QED BY <2>3, <3>1, <3>2, <3>3
  <2>6. Base(q)' = Base(q)
    BY <1>2, <2>5 DEF Base, Covered
  <2>7. W \cup Fresh(J, i.cursor) \subseteq Brings(Base(q), inbox[q][p] \o Broadcast(p, J, from)[q])
    BY <1>1, <2>1, <2>3, PublishBox
  <2>8. W \cup Fresh(J, i.cursor) \subseteq will1
    BY <2>5, <2>6, <2>7 DEF Will, Brings
  <2>9. from = p \/ p = Server
    BY <1>1, <2>2, NeighbourFacts DEF JobOk
  <2> HIDE DEF J, W, will1, share, share1, from
  <2> QED BY <1>5, <2>4, <2>8, <2>9
<1> DEFINE rows1 == RowsOf(hist'[p], k.sync.sites, k.sync.from)
<1>12. rows1 = rows
  BY <1>2, <1>10 DEF Rows
<1>13. hist[q] \subseteq will1 \/ p # Server
  BY <1>1, <1>2, <1>4 DEF Base
<1>14. q # from => (from = p \/ p = Server)
  BY <1>1, NeighbourFacts DEF JobOk
<1>15. /\ (q # from /\ ~i.active <=> Waiting(p, q, from))
       /\ (q # from /\ i.active <=> Listening(p, q, from))
  BY <1>1 DEF Waiting, Listening
<1> HIDE DEF i, J, from, W, will1, share, share1, rows, rows1
<1>16. Tells(p, k, share1, rows, will1, hist[q])
  <2>1. CASE q = from
    <3>1. \A d \in share1 : d \in share \/ d \in will1 \/ (d \in hist[q] /\ d.site = p)
      BY <1>1, <1>5, <1>13, <2>1
    <3>2. \A d \in hist[q] : d \in hist[q] \/ d.site # p \/ d \in will1
      OBVIOUS
    <3>3. Passed(rows, rows, i.sync.offset)
      BY DEF Passed
    <3>4. Tells(p, i, share1, rows, will1, hist[q])
      BY <1>3, <1>4, <1>5, <1>6, <3>1, <3>2, <3>3, TellsKept
    <3>5. k.pending = i.pending
      BY <1>10, <1>15, <2>1
    <3> QED BY <1>10, <3>4, <3>5 DEF Tells
  <2>2. CASE Waiting(p, q, from)
    <3>1. /\ k.pending = i.pending \cup J /\ ~k.active
          /\ share1 \subseteq share \cup J /\ J \subseteq share1
      BY <1>5, <1>10, <1>14, <1>15, <2>2
    <3>2. k.sync.on =>
            /\ Below(k.sync.from) \subseteq will1
            /\ \A d \in rows : Place(d, rows) <= k.sync.offset => d \in will1
            /\ \A d \in share1 : d \in will1 \cup k.pending \/ d.site \in k.sync.sites
      BY <1>3, <1>4, <1>10, <3>1 DEF Tells
    <3>3. k.sync.on => \A d \in hist[q] : d.site = p => d \in will1 \/ p \in k.sync.sites
      BY <1>3, <1>4, <1>10 DEF Tells
    <3>4. k.pending \subseteq share1
      BY <1>3, <1>5, <3>1 DEF Tells
    <3>5. /\ \A d \in Below(k.cursor) : p = Server => d \in will1
          /\ \A d \in Below(k.cursor) : d.site = p => d \in hist[q] \cup will1
      BY <1>3, <1>4, <1>10 DEF Tells
    <3> QED BY <3>1, <3>2, <3>3, <3>4, <3>5 DEF Tells
  <2>3. CASE Listening(p, q, from)
    <3>1. k.pending = {} /\ k.active /\ ~k.sync.on /\ share1 \subseteq will1
      BY <1>6, <1>10, <1>11, <1>15, <2>3
    <3>2. \A d \in hist[q] : d.site = p => d \in will1
      BY <1>3, <1>4, <1>6, <1>15, <2>3 DEF Tells
    <3>3. /\ \A d \in Below(k.cursor) : p = Server => d \in will1
          /\ \A d \in Below(k.cursor) : d.site = p => d \in hist[q] \cup will1
      BY <1>3, <1>4, <1>10 DEF Tells
    <3> QED BY <3>1, <3>2, <3>3 DEF Tells
  <2> QED BY <1>15, <2>1, <2>2, <2>3
<1> QED BY <1>2, <1>7, <1>12, <1>16 DEF TellsAfter, share1, will1, rows1

\* When a connection opens, is taken up or ends, on either side.
LEMMA TellTurning ==
    ASSUME Local, [Next]_vars, NEW p \in Peers, NEW q \in Neighbours(p), Turning(p, q),
           Up(p, q)', Joined(p, q)'
    PROVE  TellsAfter(p, q)
<1>0. PeerTypeOK
  BY DEF Local
<1>1. /\ q \in Peers /\ p \in Neighbours(q) /\ Link(p, q) \in Clients /\ Link(q, p) = Link(p, q)
      /\ Server \in Peers /\ Link(p, q) \in Neighbours(Server) /\ inbox[p][q] \in Seq(Messages)
  BY <1>0, NeighbourFacts, ClientFacts, PeersAreNumbers, StateTypes
<1>2. CASE OnConnect(p, q)
  <2>1. PICK e : info'[p][q] = NewInfo(e)
    BY ONLY <1>0, p \in Peers, q \in Neighbours(p), <1>2, OnConnectEffect
  <2>2. /\ NewInfo(e).cursor = NoCursor /\ NewInfo(e).active = FALSE /\ NewInfo(e).pending = {}
        /\ NewInfo(e).sync.on = FALSE /\ Below(NoCursor) = {}
    BY NewInfoFields, NoInfoFields, NoCursorFacts
  <2>3. PICK k : k = info'[p][q]
    OBVIOUS
  <2>4. Below(k.cursor) = {} /\ ~k.active /\ k.pending = {} /\ ~k.sync.on
    BY <2>1, <2>2, <2>3
  <2>5. ASSUME NEW share, NEW rows, NEW will, NEW logged PROVE Tells(p, k, share, rows, will, logged)
    BY <2>4 DEF Tells
  <2> QED BY <2>3, <2>5 DEF TellsAfter
<1>3. CASE p = Server /\ OnClose(q)
  <2>1. q \in Clients
    BY <1>3, NeighbourFacts
  <2>2. info'[p][q] = NoInfo
    BY ONLY <1>0, <1>3, <2>1, OnCloseEffect
  <2> QED BY <2>2, NoInfoFields DEF Joined
<1>4. CASE Open(Link(p, q))
  <2>1. inbox'[p][q] = Append(inbox[p][q], Connect(epoch[Link(p, q)] + 1)) /\ epoch[Link(p, q)] + 1 \in Nat
    BY ONLY <1>0, <1>1, <1>4, p \in Peers, q \in Neighbours(p), OpenEffect
  <2>2. Controls(inbox'[p][q]) # {}
    BY <1>1, <2>1, AppendConnect
  <2> QED BY <2>2 DEF Joined
<1>5. CASE Drop(Link(p, q))
  <2>1. open'[Server][Link(p, q)] = FALSE
    BY ONLY <1>0, <1>1, <1>5, DropEffect
  <2> QED BY <2>1 DEF Up
<1>6. CASE Restart(p) \/ Restart(q)
  BY <1>1, <1>6, RestartTakesDown
<1> QED BY <1>2, <1>3, <1>4, <1>5, <1>6 DEF Turning

\* What a peer has told, keeps for another or will come to stays accounted for.
LEMMA TellStep ==
    ASSUME Local, Local', LinkInv, PhaseInv, MarkInv, OrderInv, TellInv, [Next]_vars,
           ~strayed', ~overlooked'
    PROVE  TellInv'
<1>1. ASSUME NEW p \in Peers, NEW q \in Neighbours(p), Up(p, q)', Joined(p, q)' PROVE TellsAfter(p, q)
  <2>1. q \in Peers /\ p \in Neighbours(q) /\ Link(q, p) = Link(p, q)
    BY NeighbourFacts
  <2>2. CASE Turning(p, q)
    BY <1>1, <2>2, TellTurning
  <2>3. CASE ~Turning(p, q)
    <3>1. Up(p, q) /\ Joined(p, q)
      BY <1>1, <2>1, <2>3, CalmStep, CalmJoined
    <3>2. CASE Publish(p)
      BY <1>1, <3>1, <3>2, TellPublish
    <3>3. CASE ~Publish(p) /\ info'[p][q] = info[p][q]
      BY <1>1, <3>1, <3>3, TellUnchanged
    <3>4. CASE ~Publish(p) /\ Receive(p, q) /\ info'[p][q] = AfterReceive(p, q)
      BY <1>1, <3>1, <3>4, TellReceive
    <3>5. CASE ~Publish(p) /\ OnSync(p, q) /\ info'[p][q] = AfterSync(p, q)
      BY <1>1, <3>1, <3>5, TellOnSync
    <3>6. CASE ~Publish(p) /\ Cancel(p, q) /\ info'[p][q] = AfterCancel(p, q)
      BY <1>1, <3>1, <3>6, TellCancel
    <3>7. CASE /\ ~Publish(p) /\ SyncTurn(p, q)
               /\ info'[p][q] = AfterTurn(p, info[p][q], Advance(info[p][q].cursor, Told(p, info[p][q])))
      BY <1>1, <3>1, <3>7, TellTurn
    <3>8. CASE ~Publish(p) /\ StrayTurn(p, q)
      <4>1. info'[p][q] = info[p][q]
        BY <1>1, <3>1, <3>8, StrayTellsNothing
      <4> QED BY <3>3, <3>8, <4>1
    <3>9. CASE Turning(q, p)
      <4>1. info'[p][q] = info[p][q]
        BY <1>1, <2>3, <3>9, TurnedByOther
      <4> QED BY <3>2, <3>3, <4>1
    <3>10. CASE ~Turning(q, p)
      <4>1. \/ Publish(p)
            \/ info'[p][q] = info[p][q]
            \/ Receive(p, q) /\ info'[p][q] = AfterReceive(p, q)
            \/ OnSync(p, q) /\ info'[p][q] = AfterSync(p, q)
            \/ Cancel(p, q) /\ info'[p][q] = AfterCancel(p, q)
            \/ /\ SyncTurn(p, q)
               /\ info'[p][q] = AfterTurn(p, info[p][q], Advance(info[p][q].cursor, Told(p, info[p][q])))
            \/ StrayTurn(p, q)
        BY <1>1, <2>3, <3>10, PairStep
      <4> QED BY <3>2, <3>3, <3>4, <3>5, <3>6, <3>7, <3>8, <4>1
    <3> QED BY <3>9, <3>10
  <2> QED BY <2>2, <2>3
<1>2. ASSUME NEW p \in Peers, NEW q \in Neighbours(p) PROVE TellOk(p, q)'
  BY <1>1, <1>2, TellsAfterIsTellOk
<1> QED BY <1>2 DEF TellInv

---------------------------------------------------------------------------
(* The theorems.                                                           *)

\* At first every peer has its own changes, and nobody is connected.
LEMMA InitSync == Init => SyncInv
<1> SUFFICES ASSUME Init PROVE SyncInv
  OBVIOUS
<1>0. Local
  BY InitLocal
<1>1. ASSUME NEW p \in Peers, NEW q \in Neighbours(p)
      PROVE  /\ info[p][q] = NoInfo /\ strays[p][q] = {} /\ inbox[p][q] = <<>> /\ open[p][q] = FALSE
             /\ ~Up(p, q) /\ epoch[Link(p, q)] = 0
  <2>1. Link(p, q) \in Clients /\ Link(p, q) \in Neighbours(Server) /\ Server \in Peers
    BY NeighbourFacts, ClientFacts, PeersAreNumbers
  <2>2. open[Server][Link(p, q)] = FALSE
    BY <2>1 DEF Init
  <2> QED BY <2>1, <2>2 DEF Init, Up
<1>2. LinkInv
  <2>1. ASSUME NEW p \in Peers, NEW q \in Neighbours(p) PROVE LinkOk(p, q)
    <3>1. info[p][q] = NoInfo /\ strays[p][q] = {} /\ inbox[p][q] = <<>> /\ ~Up(p, q)
          /\ epoch[Link(p, q)] = 0
      BY <1>1
    <3>2. Runs(p, q) = {NoInfo} /\ NoInfo.epoch = 0
      BY ONLY <3>1, NoInfoFields DEF Runs
    <3>3. DOMAIN inbox[p][q] = {}
      BY ONLY <3>1
    <3> QED BY ONLY <3>1, <3>2, <3>3 DEF LinkOk
  <2> QED BY <2>1 DEF LinkInv
<1>3. PhaseInv
  <2>1. ASSUME NEW p \in Peers, NEW q \in Neighbours(p) PROVE PhaseOk(p, q)
    <3>1. inbox[p][q] = <<>> /\ ~Up(p, q)
      BY <1>1
    <3>2. DOMAIN inbox[p][q] = {}
      BY ONLY <3>1
    <3> QED BY <3>1, <3>2 DEF PhaseOk, DataFirst, HasData
  <2> QED BY <2>1 DEF PhaseInv
<1>4. ASSUME NEW p \in Peers PROVE \A d \in hist[p] : d.site = p
  <2>1. hist[p] = {[site |-> p, version |-> v] : v \in 1 .. Initial[p]}
    BY DEF Init
  <2> QED BY <2>1
<1>5. MarkInv
  <2>1. ASSUME NEW c \in Clients PROVE MarkOk(c)
    <3>1. /\ c \in Peers /\ c # Server /\ Server \in Neighbours(c) /\ c \in Neighbours(Server)
          /\ Server \in Peers
      BY ClientFacts, PeersAreNumbers
    <3>2. cursor[c] = saved[c]
      BY <3>1 DEF Init
    <3>3. ~\E d \in hist[Server] : d.site = c
      BY <1>4, <3>1
    <3>4. Range(inbox[Server][c]) = {}
      BY <1>1, <3>1, NothingInside
    <3>5. Runs(c, Server) = {NoInfo} /\ NoInfo.pending = {} /\ ~NoInfo.sync.on
      BY <1>1, <3>1, NoInfoFields DEF Runs
    <3> QED BY <3>2, <3>3, <3>4, <3>5 DEF MarkOk
  <2> QED BY <2>1 DEF MarkInv
<1>6. ASSUME NEW p \in Peers PROVE Closed(hist[p]) /\ Closed(Base(p))
  <2>1. hist[p] \in SUBSET Changes /\ cursor[p] \in Cursors /\ job[p].changes = {}
    <3>1. job[p] = Idle
      BY DEF Init
    <3>2. hist[p] \in SUBSET Changes /\ cursor[p] \in Cursors
      BY <1>0, StateTypes DEF Local
    <3> QED BY <3>1, <3>2 DEF Idle
  <2>2. \A d \in hist[p] : d.site = p =>
            \A e \in Changes : e.site = p /\ e.version <= d.version => e \in hist[p]
    BY <1>0 DEF Local, HistoryInv
  <2>3. Closed({d \in hist[p] : d.site = p})
    BY <2>1, <2>2, OwnIsClosed
  <2>4. {d \in hist[p] : d.site = p} = hist[p]
    BY <1>4
  <2>5. Closed(Covered(p) \cup job[p].changes)
    BY <2>1, BelowIsClosed DEF Covered
  <2> QED BY <2>3, <2>4, <2>5 DEF Base
<1>7. OrderInv
  <2>1. ASSUME NEW p \in Peers, NEW q \in Neighbours(p) PROVE OrderOk(p, q)
    <3>1. Ordered(Base(p), inbox[p][q])
      BY <1>1, <1>6, OrderedNothing
    <3> QED BY <1>1, <3>1 DEF OrderOk, Ordered
  <2> QED BY <1>6, <2>1 DEF OrderInv
<1>8. TellInv
  BY <1>1 DEF TellInv, TellOk
<1> QED BY <1>0, <1>2, <1>3, <1>5, <1>7, <1>8 DEF SyncInv, Local

\* Every step keeps SyncInv.
LEMMA SyncStep == SyncInv /\ PeerTypeOK /\ [Next]_vars => SyncInv'
<1> SUFFICES ASSUME SyncInv, PeerTypeOK, [Next]_vars PROVE SyncInv'
  OBVIOUS
<1>1. Local /\ LinkInv
  BY DEF SyncInv, Local
<1>2. Local'
  BY <1>1, LocalStep
<1>3. LinkInv'
  BY <1>1, LinkStep
<1>4. ~strayed => PhaseInv
  BY DEF SyncInv
<1>5. ~strayed' => PhaseInv'
  BY <1>1, <1>4, PhaseStep
<1>6. ~guessed => MarkInv
  BY DEF SyncInv
<1>7. ~guessed' => MarkInv'
  BY <1>1, <1>6, MarkStep
<1>8. (strayed => strayed') /\ (overlooked => overlooked') /\ (guessed => guessed')
  BY GhostsStep
<1>9. ASSUME ~strayed', ~overlooked', ~guessed' PROVE OrderInv' /\ TellInv'
  <2>1. PhaseInv /\ MarkInv /\ OrderInv /\ TellInv
    <3>1. ~strayed /\ ~overlooked /\ ~guessed
      BY <1>8, <1>9
    <3> QED BY <1>4, <1>6, <3>1 DEF SyncInv, OK
  <2>2. OrderInv'
    BY <1>1, <1>2, <1>9, <2>1, OrderStep
  <2>3. TellInv'
    BY <1>1, <1>2, <1>9, <2>1, TellStep
  <2> QED BY <2>2, <2>3
<1>10. HistoryInv' /\ JobInv' /\ MessageInv'
  BY <1>2 DEF Local
<1> QED BY <1>3, <1>5, <1>7, <1>9, <1>10 DEF SyncInv, OK

\* The invariant of the synchronisation: where changes come from (HistoryInv,
\* JobInv, MessageInv), how far the ends of a connection are (LinkInv, PhaseInv),
\* who names itself (MarkInv), and what a peer has, will have and was told
\* (OrderInv, TellInv).
THEOREM SyncInvariance == Spec => [](PeerTypeOK /\ SyncInv)
<1>1. Init => PeerTypeOK /\ SyncInv
  BY InitTypes, InitSync
<1>2. PeerTypeOK /\ SyncInv /\ [Next]_vars => (PeerTypeOK /\ SyncInv)'
  BY SyncStep, TypesStep DEF SyncInv
<1> QED BY <1>1, <1>2, PTL DEF Spec

\* NoGap of PeerSync: a cursor names the newest changes that are logged or read
\* (TopsIn), these were logged without gaps (OrderInv), and what is logged is
\* in the tables.
THEOREM NoPeerMissesChanges == Spec => []NoGap
<1>1. PeerTypeOK /\ SyncInv => NoGap
  <2> SUFFICES ASSUME PeerTypeOK, SyncInv, ~strayed, ~overlooked, ~guessed,
                      NEW p \in Peers, NEW s \in Peers, NEW v \in 1 .. cursor[p][s]
               PROVE  Holds(p, s, v)
    BY DEF NoGap
  <2>1. Local /\ OrderInv
    BY DEF SyncInv, OK, Local
  <2>2. /\ cursor[p] \in Cursors /\ hist[p] \subseteq data[p] /\ data[p] \in SUBSET Changes /\ JobOk(p)
        /\ Closed(hist[p])
    BY <2>1, StateTypes DEF Local, HistoryInv, JobInv, OrderInv
  <2>3. hist[p] \cup Unlogged(p) \subseteq data[p]
    BY <2>2 DEF JobOk, Unlogged
  <2>4. cursor[p][s] \in Nat /\ cursor[p][s] > 0 /\ v \in Nat /\ 1 <= v /\ v <= cursor[p][s]
    BY <2>2 DEF Cursors
  <2>5. [site |-> s, version |-> cursor[p][s]] \in Changes
    BY <2>2, <2>3, <2>4 DEF JobOk, TopsIn
  <2>6. cursor[p][s] \in 1 .. Writes[s]
    <3> DEFINE e == [site |-> s, version |-> cursor[p][s]]
    <3>1. e.version \in 1 .. Writes[e.site]
      <4> HIDE DEF e
      <4> QED BY <2>5, ChangeFacts DEF e
    <3> QED BY <3>1
  <2>7. v \in 1 .. Writes[s]
    <3>1. Writes[s] \in Nat
      BY PeerConstants
    <3> QED BY <2>4, <2>6, <3>1
  <2>8. [site |-> s, version |-> v] \in Covered(p)
    BY <2>4, <2>7, IsAChange DEF Covered, Below
  <2>9. [site |-> s, version |-> v] \in data[p]
    BY <2>1, <2>2, <2>3, <2>8, CoveredIsLogged
  <2> QED BY <2>9 DEF Holds
<1> QED BY <1>1, SyncInvariance, PTL

\* RestIsSettled of PeerSync: at rest every connection is up and joined at both
\* ends, each end has answered (PhaseInv), so what it has to tell is at the
\* other end (TellInv).
THEOREM RestSettles == Spec => []RestIsSettled
<1>1. PeerTypeOK /\ SyncInv => RestIsSettled
  <2> SUFFICES ASSUME PeerTypeOK, SyncInv, AtRest, ~strayed, ~overlooked, ~guessed
               PROVE  \A p, q \in Peers : data[p] = data[q]
    BY DEF RestIsSettled
  <2>1. Local /\ LinkInv /\ PhaseInv /\ OrderInv /\ TellInv
    BY DEF SyncInv, OK, Local
  <2>2. ASSUME NEW p \in Peers
        PROVE  /\ job[p].step = "idle" /\ job[p].changes = {} /\ LocalChanges(p) = {}
               /\ data[p] = hist[p] /\ Covered(p) \subseteq hist[p]
               /\ \A d \in hist[p] : d.site = p => d \in Covered(p) /\ d \in Share(p)
               /\ data[p] \in SUBSET Changes
    <3>1. job[p].step = "idle" /\ LocalChanges(p) = {}
      BY DEF AtRest, IsIdle
    <3>2. /\ job[p].changes = {} /\ data[p] \in SUBSET Changes /\ cursor[p] \in Cursors
          /\ hist[p] \subseteq data[p] /\ \A d \in data[p] : d \in hist[p] \/ d.site = p
      BY <2>1, <3>1, StateTypes DEF Local, JobInv, JobOk, HistoryInv
    <3>3. Covered(p) \subseteq hist[p]
      BY <2>1, <3>1, CoveredIsLogged DEF OrderInv
    <3>4. ASSUME NEW d \in data[p], d.site = p PROVE d \in Covered(p) /\ d \in Share(p)
      <4>1. d \in Changes /\ d.version \in Nat /\ cursor[p][p] \in Nat /\ ~(d.version > cursor[p][p])
        BY <3>1, <3>2, <3>4, ChangeFacts DEF LocalChanges, Cursors
      <4>2. d \in Covered(p)
        BY <3>4, <4>1 DEF Covered, Below
      <4> QED BY <3>2, <3>4, <4>2 DEF Share
    <3> QED BY <3>1, <3>2, <3>3, <3>4
  <2>3. ASSUME NEW p \in Peers, NEW q \in Neighbours(p)
        PROVE  Up(p, q) /\ Joined(p, q) /\ inbox[p][q] = <<>> /\ ~info[p][q].sync.on
    <3>1. inbox[p][q] = <<>> /\ ~info[p][q].sync.on
      BY DEF AtRest
    <3>2. Up(p, q)
      <4>1. Server \in Peers /\ Link(p, q) \in Neighbours(Server)
        BY NeighbourFacts, ClientFacts, PeersAreNumbers
      <4> QED BY <4>1 DEF AtRest, Up
    <3>3. Joined(p, q) \/ Joining(p, q)
      BY <2>1, <3>2 DEF LinkInv, LinkOk
    <3>4. Controls(inbox[p][q]) = {}
      <4>1. DOMAIN inbox[p][q] = {}
        BY <3>1
      <4> QED BY <4>1 DEF Controls
    <3> QED BY <3>1, <3>2, <3>3, <3>4, JoinedOrJoining
  <2>4. ASSUME NEW p \in Peers, NEW q \in Neighbours(p)
        PROVE  /\ Share(p) \subseteq Base(q)
               /\ \A d \in hist[q] : d.site = p => d \in Base(q)
    <3>1. q \in Peers /\ p \in Neighbours(q)
      BY NeighbourFacts
    <3>2. Up(p, q) /\ Joined(p, q) /\ Joined(q, p) /\ inbox[p][q] = <<>> /\ inbox[q][p] = <<>>
          /\ ~info[p][q].sync.on
      BY <2>3, <3>1
    <3>3. CurrentSyncs(inbox[p][q]) = {}
      <4>1. DOMAIN inbox[p][q] = {}
        BY <3>2
      <4> QED BY <4>1 DEF CurrentSyncs
    <3>4. info[p][q].active
      BY <2>1, <3>2, <3>3 DEF PhaseInv, PhaseOk, Answers
    <3>5. Will(q, p) = Base(q)
      <4>1. Carried(<<>>, Len(<<>>)) = {}
        BY CarriedNone
      <4> QED BY <3>2, <4>1 DEF Will
    <3> QED BY <2>1, <3>2, <3>4, <3>5, TellFacts
  <2>5. Base(Server) \subseteq Covered(Server) /\ Server \in Peers
    BY <2>2, PeersAreNumbers DEF Base
  <2>6. ASSUME NEW c \in Clients PROVE hist[c] = hist[Server]
    <3>1. /\ c \in Peers /\ c # Server /\ Server \in Neighbours(c) /\ c \in Neighbours(Server)
      BY ClientFacts
    <3>2. ASSUME NEW d \in hist[Server] PROVE d \in hist[c]
      <4>1. d \in Changes /\ d.site \in Peers
        BY <2>2, <2>5, ChangeFacts
      <4>2. d \in Covered(Server)
        <5>1. CASE d.site = Server
          BY <2>2, <2>5, <3>2, <5>1
        <5>2. CASE d.site # Server
          <6>1. d.site \in Clients
            BY <4>1, <5>2 DEF Peers
          <6>2. d.site \in Peers /\ Server \in Neighbours(d.site)
            BY <6>1, ClientFacts
          <6>3. d \in Base(Server)
            BY <2>4, <3>2, <6>2
          <6> QED BY <2>5, <6>3
        <5> QED BY <5>1, <5>2
      <4>3. d \in Share(Server)
        BY <2>2, <2>5, <4>2 DEF Share
      <4>4. d \in Base(c)
        BY <2>4, <2>5, <3>1, <4>3
      <4> QED BY <3>1, <4>4 DEF Base
    <3>3. ASSUME NEW d \in hist[c] PROVE d \in hist[Server]
      <4>1. d.site = c \/ d \in hist[Server]
        BY <2>1, <3>1, <3>3 DEF Local, HistoryInv
      <4>2. CASE d.site = c
        <5>1. d \in Share(c)
          BY <2>2, <3>1, <3>3, <4>2
        <5>2. d \in Covered(Server)
          BY <2>4, <2>5, <3>1, <5>1
        <5> QED BY <2>2, <2>5, <5>2
      <4> QED BY <4>1, <4>2
    <3> QED BY <3>2, <3>3
  <2>7. \A p \in Peers : data[p] = hist[Server]
    BY <2>2, <2>5, <2>6 DEF Peers
  <2> QED BY <2>7
<1> QED BY <1>1, SyncInvariance, PTL

=============================================================================
