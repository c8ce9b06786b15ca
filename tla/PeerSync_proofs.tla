-------------------------- MODULE PeerSync_proofs --------------------------
(***************************************************************************)
(* What each step of PeerSync does, what holds at every peer whatever the  *)
(* connections do (Local, PeerSafety), and how a connection stays in step  *)
(* at its two ends (LinkStep). PeerInvariant_proofs goes on from here.     *)
(***************************************************************************)
EXTENDS PeerInvariant, SequenceTheorems, FiniteSetTheorems, FunctionTheorems,
        WellFoundedInduction, TLAPS

USE PeerConstants

---------------------------------------------------------------------------
(* Peers, changes and numbers.                                             *)

\* Who talks to whom.
LEMMA PeersAreNumbers == Peers \subseteq Nat /\ Server \in Peers /\ Clients \subseteq Peers
BY DEF Peers, Server

\* The clients' ids are above 0.
LEMMA ServerIsNoClient == Server \notin Clients
BY DEF Server

\* Clients talk to the server and the server to them; a connection has one name.
LEMMA NeighbourFacts ==
    ASSUME NEW p \in Peers, NEW q \in Neighbours(p)
    PROVE  /\ q \in Peers /\ q # p /\ p \in Neighbours(q)
           /\ Link(p, q) \in Clients /\ Link(q, p) = Link(p, q)
           /\ p = Server => q \in Clients /\ Link(p, q) = q
           /\ p # Server => q = Server /\ p \in Clients /\ Link(p, q) = p
BY ServerIsNoClient DEF Neighbours, Peers, Link

\* A client and the server are neighbours.
LEMMA ClientFacts ==
    ASSUME NEW c \in Clients
    PROVE  /\ c \in Peers /\ c # Server /\ Server \in Neighbours(c) /\ c \in Neighbours(Server)
           /\ Link(Server, c) = c /\ Link(c, Server) = c
BY ServerIsNoClient DEF Neighbours, Peers, Link

\* A change is its site and its version.
LEMMA ChangeFacts ==
    ASSUME NEW d \in Changes
    PROVE  /\ d.site \in Peers /\ d.version \in 1 .. Writes[d.site] /\ d.version \in Nat
           /\ d = [site |-> d.site, version |-> d.version]
<1>1. PICK p \in Peers : d \in {[site |-> p, version |-> v] : v \in 1 .. Writes[p]}
  BY DEF Changes
<1>2. PICK v \in 1 .. Writes[p] : d = [site |-> p, version |-> v]
  BY <1>1
<1>3. Writes[p] \in Nat
  OBVIOUS
<1> QED BY <1>2, <1>3

\* What a site may write is a change.
LEMMA IsAChange ==
    ASSUME NEW s \in Peers, NEW v \in 1 .. Writes[s]
    PROVE  [site |-> s, version |-> v] \in Changes
BY DEF Changes

\* A change is its site and its version.
LEMMA SameChange ==
    ASSUME NEW d \in Changes, NEW e \in Changes, d.site = e.site, d.version = e.version
    PROVE  d = e
BY ChangeFacts

Before(S) == {p \in S \X S : p[1] < p[2]}

\* There is no endless descent in the naturals.
LEMMA BeforeIsWellFounded == IsWellFoundedOn(Before(Nat), Nat)
<1>1. Before(Nat) = OpToRel(<, Nat)
  BY DEF Before, OpToRel
<1> QED BY <1>1, NatLessThanWellFounded

\* A set of naturals has a least member.
LEMMA HasLeast ==
    ASSUME NEW S \in SUBSET Nat, S # {}
    PROVE  \E m \in S : \A x \in S : m <= x
<1>1. PICK m \in S : \A x \in S : ~ (<<x, m>> \in Before(Nat))
  BY BeforeIsWellFounded, WFMin
<1>2. ASSUME NEW x \in S PROVE m <= x
  <2>1. x \in Nat /\ m \in Nat /\ (x < m => <<x, m>> \in Before(Nat))
    BY <1>2 DEF Before
  <2> QED BY <2>1, <1>1
<1> QED BY <1>2

\* Max is the greatest member of a set of naturals that has a bound.
LEMMA MaxIsGreatest ==
    ASSUME NEW n \in Nat, NEW S \in SUBSET (0 .. n), S # {}
    PROVE  Max(S) \in S /\ \A x \in S : x <= Max(S)
<1> DEFINE T == {k \in 0 .. n : n - k \in S}
<1>1. PICK x \in S : TRUE
  OBVIOUS
<1>2. x \in 0 .. n /\ n - (n - x) = x /\ n - x \in 0 .. n
  OBVIOUS
<1>a. T \in SUBSET Nat
  OBVIOUS
<1>b. n - x \in T
  BY <1>2
<1>3. T \in SUBSET Nat /\ T # {}
  BY <1>a, <1>b
<1>4. PICK m \in T : \A y \in T : m <= y
  BY <1>3, HasLeast
<1>5. n - m \in S
  BY <1>4
<1>6. ASSUME NEW y \in S PROVE n - m >= y
  <2>1. y \in 0 .. n /\ n - (n - y) = y /\ n - y \in 0 .. n
    OBVIOUS
  <2>2. n - y \in T
    BY <2>1, <1>6
  <2>3. m <= n - y /\ m \in 0 .. n
    BY <2>2, <1>4
  <2> QED BY <2>1, <2>3
<1> HIDE DEF T
<1> QED BY <1>5, <1>6 DEF Max

\* A finite set of naturals has a bound: a smallest part without one would
\* have one when a member is left out.
LEMMA HasBound ==
    ASSUME NEW S \in SUBSET Nat, IsFiniteSet(S)
    PROVE  \E n \in Nat : \A x \in S : x <= n
<1> DEFINE Bounded(T) == \E n \in Nat : \A x \in T : x <= n
           Bad == {T \in SUBSET S : ~Bounded(T)}
<1>1. SUFFICES ASSUME Bad # {} PROVE FALSE
  OBVIOUS
<1>2. Bad \subseteq FiniteSubsetsOf(S)
  BY FS_FiniteSubsetsOfFinite
<1>3. PICK T \in Bad : \A U \in Bad : ~ (<<U, T>> \in StrictSubsetOrdering(S))
  BY <1>1, <1>2, FS_StrictSubsetOrderingWellFounded, WFMin
<1>4. T # {}
  <2>1. Bounded({})
    OBVIOUS
  <2> QED BY <2>1
<1>5. PICK x \in T : TRUE
  BY <1>4
<1>6. T \ {x} \in SUBSET S /\ T \ {x} \subseteq T /\ T \ {x} # T
  BY <1>5
<1>7. Bounded(T \ {x})
  <2>1. <<T \ {x}, T>> \in StrictSubsetOrdering(S)
    BY <1>6 DEF StrictSubsetOrdering
  <2> QED BY <2>1, <1>3, <1>6
<1>8. PICK n \in Nat : \A y \in T \ {x} : y <= n
  BY <1>7
<1>9. x \in Nat
  BY <1>5
<1>10. n + x \in Nat /\ \A y \in T : y <= n + x
  <2>1. ASSUME NEW y \in T PROVE y <= n + x
    <3>1. y \in Nat
      OBVIOUS
    <3> QED BY <1>8, <1>9, <3>1
  <2> QED BY <2>1, <1>9
<1> QED BY <1>10, <1>3

\* So versions have a bound.
LEMMA VersionBound == \E n \in Nat : \A p \in Peers : Writes[p] <= n
<1> DEFINE W == {Writes[p] : p \in Peers}
<1>1. IsFiniteSet(Peers)
  BY FS_AddElement DEF Peers
<1>2. Writes \in Surjection(Peers, W)
  BY Fun_RangeProperties, Fun_IsSurj
<1>3. IsFiniteSet(W)
  BY <1>1, <1>2, FS_Surjection
<1>4. W \in SUBSET Nat
  OBVIOUS
<1>5. PICK n \in Nat : \A x \in W : x <= n
  BY <1>3, <1>4, HasBound
<1> QED BY <1>5

---------------------------------------------------------------------------
(* Cursors.                                                                *)

\* An advanced cursor covers what it did and the changes, and no more.
LEMMA AdvanceFacts ==
    ASSUME NEW cur \in Cursors, NEW changes \in SUBSET Changes
    PROVE  /\ Advance(cur, changes) \in Cursors
           /\ \A s \in Peers : cur[s] <= Advance(cur, changes)[s]
           /\ \A d \in changes : d.version <= Advance(cur, changes)[d.site]
           /\ \A s \in Peers : \/ Advance(cur, changes)[s] = cur[s]
                               \/ [site |-> s, version |-> Advance(cur, changes)[s]] \in changes
<1> DEFINE new == Advance(cur, changes)
           M(s) == {cur[s]} \cup {c.version : c \in {d \in changes : d.site = s}}
<1>1. ASSUME NEW s \in Peers
      PROVE  /\ Max(M(s)) \in M(s) /\ \A x \in M(s) : x <= Max(M(s))
             /\ Max(M(s)) \in Nat
  <2>1. cur[s] \in Nat /\ Writes[s] \in Nat
    BY DEF Cursors
  <2>2. \A x \in M(s) : x \in 0 .. cur[s] + Writes[s]
    <3>1. ASSUME NEW d \in changes, d.site = s PROVE d.version \in 0 .. cur[s] + Writes[s]
      BY <2>1, <3>1, ChangeFacts
    <3> QED BY <2>1, <3>1
  <2>3. M(s) # {} /\ cur[s] + Writes[s] \in Nat
    BY <2>1
  <2> HIDE DEF M
  <2>4. Max(M(s)) \in M(s) /\ \A x \in M(s) : x <= Max(M(s))
    BY <2>2, <2>3, MaxIsGreatest
  <2> QED BY <2>4, <2>2
<1>2. \A s \in Peers : new[s] = Max(M(s))
  BY DEF Advance
<1>3. new \in Cursors
  <2>1. new = [s \in Peers |-> Max(M(s))]
    BY DEF Advance
  <2> HIDE DEF M, new
  <2> QED BY <2>1, <1>1 DEF Cursors
<1>4. \A s \in Peers : cur[s] <= new[s]
  <2>1. \A s \in Peers : cur[s] \in M(s)
    OBVIOUS
  <2> HIDE DEF M, new
  <2> QED BY <2>1, <1>1, <1>2
<1>5. ASSUME NEW d \in changes PROVE d.version <= new[d.site]
  <2>1. d.site \in Peers
    BY ChangeFacts
  <2>2. d.version \in M(d.site)
    OBVIOUS
  <2> HIDE DEF M, new
  <2> QED BY <2>1, <2>2, <1>1, <1>2
<1>6. ASSUME NEW s \in Peers PROVE new[s] = cur[s] \/ [site |-> s, version |-> new[s]] \in changes
  <2>1. new[s] = cur[s] \/ \E d \in changes : d.site = s /\ d.version = new[s]
    <3>1. new[s] \in M(s)
      <4> HIDE DEF M, new
      <4> QED BY <1>1, <1>2
    <3> HIDE DEF new
    <3> QED BY <3>1
  <2> HIDE DEF M, new
  <2>2. ASSUME NEW d \in changes, d.site = s, d.version = new[s]
        PROVE  [site |-> s, version |-> new[s]] \in changes
    <3>1. d = [site |-> d.site, version |-> d.version]
      BY ChangeFacts
    <3> QED BY <3>1, <2>2
  <2> QED BY <2>1, <2>2
<1> QED BY <1>3, <1>4, <1>5, <1>6

\* Nothing new moves no cursor.
LEMMA AdvanceNothing ==
    ASSUME NEW cur \in Cursors
    PROVE  Advance(cur, {}) = cur
<1> DEFINE new == Advance(cur, {})
<1>1. new \in Cursors /\ \A s \in Peers : new[s] = cur[s]
  BY AdvanceFacts
<1> HIDE DEF new
<1>2. new = cur
  BY <1>1 DEF Cursors
<1> QED BY <1>2 DEF new

\* What an advanced cursor covers.
LEMMA AdvanceCovers ==
    ASSUME NEW cur \in Cursors, NEW changes \in SUBSET Changes
    PROVE  /\ Below(cur) \subseteq Below(Advance(cur, changes))
           /\ changes \subseteq Below(Advance(cur, changes))
           /\ \A d \in Below(Advance(cur, changes)) :
                d \in Below(cur) \/ \E c \in changes : c.site = d.site /\ d.version <= c.version
<1> DEFINE new == Advance(cur, changes)
<1>1. /\ new \in Cursors
      /\ \A s \in Peers : cur[s] <= new[s]
      /\ \A d \in changes : d.version <= new[d.site]
      /\ \A s \in Peers : new[s] = cur[s] \/ [site |-> s, version |-> new[s]] \in changes
  BY AdvanceFacts
<1> HIDE DEF new
<1>2. \A s \in Peers : cur[s] \in Nat /\ new[s] \in Nat
  BY <1>1 DEF Cursors
<1>3. \A d \in Changes : d.site \in Peers /\ d.version \in Nat
  BY ChangeFacts
<1>4. Below(cur) \subseteq Below(new)
  BY <1>1, <1>2, <1>3 DEF Below
<1>5. changes \subseteq Below(new)
  BY <1>1, <1>3 DEF Below
<1>6. ASSUME NEW d \in Below(new)
      PROVE  d \in Below(cur) \/ \E c \in changes : c.site = d.site /\ d.version <= c.version
  <2>1. d \in Changes /\ d.version <= new[d.site] /\ d.site \in Peers
    BY <1>3 DEF Below
  <2>2. CASE new[d.site] = cur[d.site]
    BY <2>1, <2>2 DEF Below
  <2>3. CASE [site |-> d.site, version |-> new[d.site]] \in changes
    <3> DEFINE c == [site |-> d.site, version |-> new[d.site]]
    <3>1. c \in changes /\ c.site = d.site /\ d.version <= c.version
      BY <2>1, <2>3
    <3> HIDE DEF c
    <3> QED BY <3>1
  <2> QED BY <1>1, <2>1, <2>2, <2>3
<1> QED BY <1>4, <1>5, <1>6 DEF new

\* What a cursor covers has no gap.
LEMMA BelowIsClosed ==
    ASSUME NEW cur \in Cursors
    PROVE  Closed(Below(cur)) /\ Below(cur) \subseteq Changes
<1>1. ASSUME NEW c \in Below(cur), NEW d \in Changes, d.site = c.site, d.version <= c.version
      PROVE  d \in Below(cur)
  <2>1. c.version \in Nat /\ d.version \in Nat /\ cur[c.site] \in Nat /\ c.version <= cur[c.site]
    BY ChangeFacts DEF Below, Cursors
  <2> QED BY <2>1, <1>1 DEF Below
<1> QED BY <1>1 DEF Closed, Below

\* Two sets without gaps have none together.
LEMMA ClosedUnion ==
    ASSUME NEW A, NEW B, Closed(A), Closed(B)
    PROVE  Closed(A \cup B)
BY DEF Closed

\* In a set without gaps that has what a cursor covers and the changes.
LEMMA AdvanceWithin ==
    ASSUME NEW cur \in Cursors, NEW changes \in SUBSET Changes, NEW X, Closed(X),
           Below(cur) \subseteq X, changes \subseteq X
    PROVE  Below(Advance(cur, changes)) \subseteq X
<1>1. ASSUME NEW d \in Below(Advance(cur, changes)) PROVE d \in X
  <2>1. d \in Changes
    BY DEF Below
  <2>2. d \in Below(cur) \/ \E c \in changes : c.site = d.site /\ d.version <= c.version
    BY AdvanceCovers
  <2> QED BY <2>1, <2>2 DEF Closed
<1> QED BY <1>1

\* With its newest changes in such a set, all that a cursor covers is.
LEMMA TopsCover ==
    ASSUME NEW cur \in Cursors, NEW X \in SUBSET Changes, TopsIn(cur, X), Closed(X)
    PROVE  Below(cur) \subseteq X
<1>1. ASSUME NEW d \in Below(cur) PROVE d \in X
  <2>1. d \in Changes /\ d.site \in Peers /\ d.version \in 1 .. Writes[d.site] /\ d.version <= cur[d.site]
    BY ChangeFacts DEF Below
  <2>2. cur[d.site] \in Nat /\ cur[d.site] > 0
    BY <2>1 DEF Cursors
  <2>3. [site |-> d.site, version |-> cur[d.site]] \in X
    BY <2>1, <2>2 DEF TopsIn
  <2> DEFINE c == [site |-> d.site, version |-> cur[d.site]]
  <2>4. c \in X /\ d.site = c.site /\ d.version <= c.version
    BY <2>1, <2>3
  <2> HIDE DEF c
  <2> QED BY <2>4, <2>1 DEF Closed
<1> QED BY <1>1

\* Moving a cursor over changes adds them to the newest it may name.
LEMMA TopsOfAdvance ==
    ASSUME NEW cur \in Cursors, NEW changes \in SUBSET Changes, NEW X, TopsIn(cur, X)
    PROVE  TopsIn(Advance(cur, changes), X \cup changes)
<1> DEFINE new == Advance(cur, changes)
<1>1. \A s \in Peers : new[s] = cur[s] \/ [site |-> s, version |-> new[s]] \in changes
  BY AdvanceFacts
<1> HIDE DEF new
<1>2. TopsIn(new, X \cup changes)
  BY <1>1 DEF TopsIn
<1> QED BY <1>2 DEF new

\* A cursor's newest changes are among more if they are among less.
LEMMA TopsInMore ==
    ASSUME NEW cur, NEW X, NEW Y, TopsIn(cur, X), X \subseteq Y
    PROVE  TopsIn(cur, Y)
BY DEF TopsIn

\* The empty cursor names nothing.
LEMMA NoCursorFacts ==
    /\ NoCursor \in Cursors /\ Below(NoCursor) = {}
    /\ \A X : TopsIn(NoCursor, X)
<1>1. NoCursor \in Cursors
  BY DEF NoCursor, Cursors
<1>2. ASSUME NEW d \in Below(NoCursor) PROVE FALSE
  BY ChangeFacts DEF Below, NoCursor
<1>3. \A X : TopsIn(NoCursor, X)
  BY DEF TopsIn, NoCursor
<1> QED BY <1>1, <1>2, <1>3

---------------------------------------------------------------------------
(* Reading the cursor, and rows in their places.                           *)

\* A cursor that was read names changes of the history.
LEMMA ReadCursorFacts ==
    ASSUME PeerTypeOK, NEW p \in Peers, TopsIn(saved[p], hist[p])
    PROVE  ReadCursor(p) \in Cursors /\ TopsIn(ReadCursor(p), hist[p])
<1>1. saved[p] \in Cursors /\ hist[p] \in SUBSET Changes
  BY DEF PeerTypeOK
<1>2. CASE saved[p] # NoCursor \/ hist[p] = {}
  BY <1>1, <1>2 DEF ReadCursor
<1>3. CASE saved[p] = NoCursor /\ hist[p] # {}
  <2>1. PICK n \in Nat : \A s \in Peers : Writes[s] <= n
    BY VersionBound
  <2> DEFINE V == {d.version : d \in hist[p]}
  <2>2. V \in SUBSET (0 .. n) /\ V # {}
    <3>1. ASSUME NEW d \in hist[p] PROVE d.version \in 0 .. n
      <4>1. d.site \in Peers /\ d.version \in 1 .. Writes[d.site] /\ Writes[d.site] \in Nat
        BY <1>1, ChangeFacts
      <4> QED BY <4>1, <2>1
    <3> QED BY <3>1, <1>3
  <2>3. Max(V) \in V /\ \A x \in V : x <= Max(V)
    BY <2>1, <2>2, MaxIsGreatest
  <2>4. \E c \in hist[p] : \A d \in hist[p] : d.version <= c.version
    BY <2>3
  <2> DEFINE top == CHOOSE c \in hist[p] : \A d \in hist[p] : d.version <= c.version
  <2>5. top \in hist[p]
    BY <2>4
  <2>6. ReadCursor(p) = [NoCursor EXCEPT ![top.site] = top.version]
    BY <1>3 DEF ReadCursor
  <2> HIDE DEF top
  <2>7. /\ top.site \in Peers /\ top.version \in Nat
        /\ top = [site |-> top.site, version |-> top.version]
    BY <1>1, <2>5, ChangeFacts
  <2>8. \A s \in Peers : ReadCursor(p)[s] = IF s = top.site THEN top.version ELSE 0
    BY <2>6, <2>7 DEF NoCursor
  <2>9. ReadCursor(p) \in Cursors
    BY <2>6, <2>7 DEF NoCursor, Cursors
  <2>10. TopsIn(ReadCursor(p), hist[p])
    BY <2>5, <2>7, <2>8 DEF TopsIn
  <2> QED BY <2>9, <2>10
<1> QED BY <1>2, <1>3

\* Changes are finitely many.
LEMMA ChangesAreFinite == IsFiniteSet(Changes)
<1>1. PICK n \in Nat : \A p \in Peers : Writes[p] <= n
  BY VersionBound
<1>2. IsFiniteSet(Peers)
  BY FS_AddElement DEF Peers
<1>3. IsFiniteSet(1 .. n)
  BY FS_Interval
<1>4. IsFiniteSet(Peers \X (1 .. n))
  BY <1>2, <1>3, FS_Product
<1> DEFINE f == [d \in Changes |-> <<d.site, d.version>>]
<1>5. f \in Injection(Changes, Peers \X (1 .. n))
  <2>1. ASSUME NEW d \in Changes PROVE <<d.site, d.version>> \in Peers \X (1 .. n)
    <3>1. d.site \in Peers /\ d.version \in 1 .. Writes[d.site] /\ Writes[d.site] \in Nat
      BY ChangeFacts
    <3>2. d.version \in 1 .. n
      BY <1>1, <3>1
    <3> QED BY <3>1, <3>2
  <2>2. ASSUME NEW d \in Changes, NEW e \in Changes, f[d] = f[e] PROVE d = e
    <3>1. d.site = e.site /\ d.version = e.version
      BY <2>2
    <3> QED BY <3>1, SameChange
  <2>3. f \in [Changes -> Peers \X (1 .. n)]
    BY <2>1
  <2> HIDE DEF f
  <2> QED BY <2>2, <2>3, Fun_IsInj
<1> QED BY <1>4, <1>5, FS_Injection

\* The place of a row: from 1 to the number of rows, larger among more rows,
\* and larger for later rows of a site.
LEMMA PlaceFacts ==
    ASSUME NEW rows \in SUBSET Changes, NEW d \in rows
    PROVE  /\ Place(d, rows) \in Nat /\ Place(d, rows) >= 1
           /\ Cardinality(rows) \in Nat /\ Place(d, rows) <= Cardinality(rows)
<1>1. IsFiniteSet(rows)
  BY ChangesAreFinite, FS_Subset
<1>2. UpTo(d, rows) \in SUBSET rows
  BY DEF UpTo
<1>3. IsFiniteSet(UpTo(d, rows)) /\ Cardinality(UpTo(d, rows)) <= Cardinality(rows)
  BY <1>1, <1>2, FS_Subset
<1>4. d \in UpTo(d, rows)
  BY ChangeFacts DEF UpTo
<1>5. Cardinality(UpTo(d, rows)) \in Nat /\ Cardinality(rows) \in Nat
  BY <1>1, <1>3, FS_CardinalityType
<1>6. Cardinality(UpTo(d, rows)) # 0
  BY <1>3, <1>4, FS_EmptySet
<1> QED BY <1>3, <1>5, <1>6 DEF Place

\* A row comes no earlier when there are more rows.
LEMMA PlaceGrows ==
    ASSUME NEW rows \in SUBSET Changes, NEW more \in SUBSET Changes, rows \subseteq more,
           NEW d \in rows
    PROVE  Place(d, rows) <= Place(d, more)
<1>1. IsFiniteSet(more)
  BY ChangesAreFinite, FS_Subset
<1>2. UpTo(d, more) \in SUBSET more /\ UpTo(d, rows) \in SUBSET UpTo(d, more)
  BY DEF UpTo
<1>3. IsFiniteSet(UpTo(d, more))
  BY <1>1, <1>2, FS_Subset
<1> QED BY <1>2, <1>3, FS_Subset DEF Place

\* The rows of a site are in the order of their versions.
LEMMA PlaceFollowsVersions ==
    ASSUME NEW rows \in SUBSET Changes, NEW d \in rows, NEW e \in rows,
           d.site = e.site, d.version <= e.version
    PROVE  Place(d, rows) <= Place(e, rows)
<1>1. IsFiniteSet(rows)
  BY ChangesAreFinite, FS_Subset
<1>2. UpTo(e, rows) \in SUBSET rows
  BY DEF UpTo
<1>3. IsFiniteSet(UpTo(e, rows))
  BY <1>1, <1>2, FS_Subset
<1>4. \A x \in rows : x.site \in Nat /\ x.version \in Nat
  BY ChangeFacts, PeersAreNumbers
<1>5. UpTo(d, rows) \in SUBSET UpTo(e, rows)
  BY <1>4 DEF UpTo
<1> QED BY <1>3, <1>5, FS_Subset DEF Place

---------------------------------------------------------------------------
(* Records and tables.                                                     *)

\* A table with one entry replaced.
LEMMA TableUpdate ==
    ASSUME NEW S, NEW f, Table(f, S), NEW p \in Peers, NEW q \in Neighbours(p), NEW x \in S,
           NEW g, g = [f EXCEPT ![p][q] = x]
    PROVE  /\ Table(g, S)
           /\ \A r \in Peers : \A t \in Neighbours(r) :
                g[r][t] = IF r = p /\ t = q THEN x ELSE f[r][t]
<1>1. f = [r \in Peers |-> [t \in Neighbours(r) |-> f[r][t]]]
  BY DEF Table
<1>2. DOMAIN f = Peers /\ \A r \in Peers : DOMAIN f[r] = Neighbours(r)
  BY <1>1
<1>3. \A r \in Peers : \A t \in Neighbours(r) :
        g[r][t] = IF r = p /\ t = q THEN x ELSE f[r][t]
  BY <1>2
<1>4. g = [r \in Peers |-> [t \in Neighbours(r) |-> g[r][t]]]
  <2>1. g = [f EXCEPT ![p] = [f[p] EXCEPT ![q] = x]]
    OBVIOUS
  <2>2. DOMAIN g = Peers /\ g = [r \in Peers |-> g[r]]
    BY <2>1, <1>1
  <2>3. ASSUME NEW r \in Peers PROVE g[r] = [t \in Neighbours(r) |-> g[r][t]]
    <3>1. f[r] = [t \in Neighbours(r) |-> f[r][t]]
      BY <1>1
    <3>2. CASE r = p
      BY <3>1, <3>2, <2>1, <1>2
    <3>3. CASE r # p
      BY <3>1, <3>3, <2>1, <1>2
    <3> QED BY <3>2, <3>3
  <2> QED BY <2>2, <2>3
<1>5. \A r \in Peers : \A t \in Neighbours(r) : g[r][t] \in S
  BY <1>3 DEF Table
<1>6. Table(g, S)
  BY <1>4, <1>5 DEF Table
<1> QED BY <1>3, <1>6

\* A table with the row of a peer replaced.
LEMMA TableRow ==
    ASSUME NEW S, NEW f, Table(f, S), NEW p \in Peers, NEW row,
           row = [q \in Neighbours(p) |-> row[q]], \A q \in Neighbours(p) : row[q] \in S,
           NEW g, g = [f EXCEPT ![p] = row]
    PROVE  /\ Table(g, S)
           /\ \A r \in Peers : \A t \in Neighbours(r) :
                g[r][t] = IF r = p THEN row[t] ELSE f[r][t]
<1>1. f = [r \in Peers |-> [t \in Neighbours(r) |-> f[r][t]]]
  BY DEF Table
<1>2. DOMAIN f = Peers /\ \A r \in Peers : f[r] = [t \in Neighbours(r) |-> f[r][t]]
  BY <1>1
<1>3. \A r \in Peers : g[r] = IF r = p THEN row ELSE f[r]
  BY <1>2
<1>4. \A r \in Peers : g[r] = [t \in Neighbours(r) |-> g[r][t]]
  <2>1. ASSUME NEW r \in Peers PROVE g[r] = [t \in Neighbours(r) |-> g[r][t]]
    <3>1. CASE r = p
      BY <3>1, <1>3
    <3>2. CASE r # p
      BY <3>2, <1>3, <1>2
    <3> QED BY <3>1, <3>2
  <2> QED BY <2>1
<1>5. g = [r \in Peers |-> g[r]]
  BY <1>1
<1>6. g = [r \in Peers |-> [t \in Neighbours(r) |-> g[r][t]]]
  <2> QED BY <1>4, <1>5
<1>7. \A r \in Peers : \A t \in Neighbours(r) : g[r][t] = IF r = p THEN row[t] ELSE f[r][t]
  BY <1>3
<1>8. \A r \in Peers : \A t \in Neighbours(r) : g[r][t] \in S
  BY <1>7 DEF Table
<1>9. Table(g, S)
  BY <1>6, <1>8 DEF Table
<1> QED BY <1>7, <1>9

\* What is sent are messages.
LEMMA MessageTypes ==
    /\ Close \in Messages
    /\ \A e \in Nat : Connect(e) \in Messages
    /\ \A cur \in Cursors : SyncFrom(cur) \in Messages
    /\ \A changes \in SUBSET Changes : Data(changes) \in Messages
BY NoCursorFacts DEF Close, Connect, SyncFrom, Data, Messages

\* One message of changes, or none.
LEMMA NonEmptyFacts ==
    ASSUME NEW changes \in SUBSET Changes
    PROVE  /\ NonEmpty(changes) \in Seq(Messages)
           /\ changes = {} => NonEmpty(changes) = <<>>
           /\ changes # {} => NonEmpty(changes) = <<Data(changes)>>
BY MessageTypes DEF NonEmpty

\* What the records start with has its type.
LEMMA InfoTypes ==
    /\ NoSync \in Syncs /\ NoInfo \in Infos
    /\ \A e \in Nat : NewInfo(e) \in Infos
    /\ Idle \in Jobs
<1>1. NoSync \in Syncs
  BY NoCursorFacts DEF NoSync, Syncs
<1>2. NoInfo \in Infos
  BY <1>1, NoCursorFacts DEF NoInfo, Infos
<1>3. ASSUME NEW e \in Nat PROVE NewInfo(e) \in Infos
  BY <1>2 DEF NewInfo, Infos
<1>4. Idle \in Jobs
  BY PeersAreNumbers DEF Idle, Jobs
<1> QED BY <1>1, <1>2, <1>3, <1>4

\* A peer that has just connected.
LEMMA NewInfoFields ==
    ASSUME NEW e
    PROVE  /\ NewInfo(e).known = TRUE /\ NewInfo(e).epoch = e /\ NewInfo(e).cursor = NoCursor
           /\ NewInfo(e).active = FALSE /\ NewInfo(e).pending = {} /\ NewInfo(e).sync = NoSync
BY DEF NewInfo, NoInfo

\* A peer that is not known.
LEMMA NoInfoFields ==
    /\ NoInfo.known = FALSE /\ NoInfo.epoch = 0 /\ NoInfo.cursor = NoCursor
    /\ NoInfo.active = FALSE /\ NoInfo.pending = {} /\ NoInfo.sync = NoSync
    /\ NoSync.on = FALSE /\ NoSync.cancel = FALSE
BY DEF NoInfo, NoSync

\* The fields of what the state holds.
LEMMA InfoFields ==
    ASSUME NEW i \in Infos
    PROVE  /\ i.known \in BOOLEAN /\ i.epoch \in Nat /\ i.cursor \in Cursors /\ i.active \in BOOLEAN
           /\ i.pending \in SUBSET Changes /\ i.sync \in Syncs
           /\ i.sync.on \in BOOLEAN /\ i.sync.cancel \in BOOLEAN /\ i.sync.sites \in SUBSET Peers
           /\ i.sync.from \in Cursors /\ i.sync.offset \in Nat
BY DEF Infos, Syncs

\* The parts of a message.
LEMMA MessageFields ==
    ASSUME NEW m \in Messages
    PROVE  /\ m.type \in {"connect", "sync", "data", "close"} /\ m.changes \in SUBSET Changes
           /\ m.cursor \in Cursors /\ m.epoch \in Nat
BY DEF Messages

\* The parts of the state of a peer.
LEMMA StateTypes ==
    ASSUME PeerTypeOK, NEW p \in Peers
    PROVE  /\ data[p] \in SUBSET Changes /\ hist[p] \in SUBSET Changes
           /\ saved[p] \in Cursors /\ cursor[p] \in Cursors
           /\ job[p] \in Jobs /\ job[p].step \in {"idle", "waiting", "read", "known"}
           /\ job[p].changes \in SUBSET Changes /\ job[p].peer \in Peers
           /\ \A q \in Neighbours(p) :
                /\ info[p][q] \in Infos /\ strays[p][q] \in SUBSET Infos
                /\ inbox[p][q] \in Seq(Messages) /\ open[p][q] \in BOOLEAN
BY DEF PeerTypeOK, Jobs, Table

\* The first message, and what is left.
LEMMA HeadFacts ==
    ASSUME NEW box \in Seq(Messages), box # <<>>
    PROVE  /\ Head(box) \in Messages /\ Head(box) = box[1] /\ Len(box) \in Nat \ {0}
           /\ Tail(box) \in Seq(Messages) /\ Len(Tail(box)) = Len(box) - 1
           /\ \A k \in 1 .. Len(box) - 1 : Tail(box)[k] = box[k + 1]
           /\ DOMAIN box = 1 .. Len(box) /\ DOMAIN Tail(box) = 1 .. Len(box) - 1
<1>1. Len(box) \in Nat /\ Len(box) # 0
  BY EmptySeq
<1>2. Tail(box) \in Seq(Messages) /\ Head(box) \in Messages /\ Len(Tail(box)) = Len(box) - 1
      /\ \A k \in 1 .. Len(Tail(box)) : Tail(box)[k] = box[k + 1]
  BY HeadTailProperties
<1>3. DOMAIN box = 1 .. Len(box) /\ DOMAIN Tail(box) = 1 .. Len(Tail(box))
  BY <1>2, LenProperties
<1>4. Head(box) = box[1]
  BY <1>1
<1> QED BY <1>1, <1>2, <1>3, <1>4

\* A message put at the end.
LEMMA AppendFacts ==
    ASSUME NEW box \in Seq(Messages), NEW m \in Messages
    PROVE  /\ Append(box, m) \in Seq(Messages)
           /\ Len(box) \in Nat /\ Len(Append(box, m)) = Len(box) + 1
           /\ \A k \in 1 .. Len(box) : Append(box, m)[k] = box[k]
           /\ Append(box, m)[Len(box) + 1] = m
           /\ DOMAIN box = 1 .. Len(box) /\ DOMAIN Append(box, m) = 1 .. Len(box) + 1
BY AppendProperties, LenProperties

\* Messages put at the end.
LEMMA ConcatFacts ==
    ASSUME NEW box \in Seq(Messages), NEW more \in Seq(Messages)
    PROVE  /\ box \o more \in Seq(Messages)
           /\ Len(box) \in Nat /\ Len(more) \in Nat /\ Len(box \o more) = Len(box) + Len(more)
           /\ \A k \in 1 .. Len(box) : (box \o more)[k] = box[k]
           /\ \A k \in 1 .. Len(more) : (box \o more)[Len(box) + k] = more[k]
           /\ DOMAIN box = 1 .. Len(box) /\ DOMAIN (box \o more) = 1 .. Len(box) + Len(more)
<1>1. /\ box \o more \in Seq(Messages)
      /\ Len(box \o more) = Len(box) + Len(more)
      /\ \A i \in 1 .. Len(box) + Len(more) : (box \o more)[i] =
            IF i <= Len(box) THEN box[i] ELSE more[i - Len(box)]
  BY ConcatProperties
<1>2. Len(box) \in Nat /\ Len(more) \in Nat
  BY LenProperties
<1>3. DOMAIN box = 1 .. Len(box) /\ DOMAIN (box \o more) = 1 .. Len(box) + Len(more)
  BY <1>1, LenProperties
<1>4. \A k \in 1 .. Len(box) : (box \o more)[k] = box[k]
  BY <1>1, <1>2
<1>5. ASSUME NEW k \in 1 .. Len(more) PROVE (box \o more)[Len(box) + k] = more[k]
  <2>1. Len(box) + k \in 1 .. Len(box) + Len(more) /\ ~(Len(box) + k <= Len(box))
        /\ Len(box) + k - Len(box) = k
    BY <1>2
  <2> QED BY <2>1, <1>1
<1> QED BY <1>1, <1>2, <1>3, <1>4, <1>5

\* The first messages.
LEMMA PrefixFacts ==
    ASSUME NEW box \in Seq(Messages), NEW n \in 0 .. Len(box)
    PROVE  /\ SubSeq(box, 1, n) \in Seq(Messages) /\ Len(SubSeq(box, 1, n)) = n
           /\ \A k \in 1 .. n : SubSeq(box, 1, n)[k] = box[k]
           /\ DOMAIN box = 1 .. Len(box) /\ DOMAIN SubSeq(box, 1, n) = 1 .. n
           /\ Len(box) \in Nat
<1>1. Len(box) \in Nat /\ n \in Nat
  BY LenProperties
<1>2. \A k \in 1 .. n : box[k] \in Messages
  BY <1>1, ElementOfSeq
<1>3. /\ SubSeq(box, 1, n) \in Seq(Messages)
      /\ Len(SubSeq(box, 1, n)) = n
      /\ \A k \in 1 .. n - 1 + 1 : SubSeq(box, 1, n)[k] = box[1 + k - 1]
  BY <1>1, <1>2, SubSeqProperties
<1>4. \A k \in 1 .. n : SubSeq(box, 1, n)[k] = box[k]
  BY <1>1, <1>3
<1>5. DOMAIN box = 1 .. Len(box) /\ DOMAIN SubSeq(box, 1, n) = 1 .. n
  BY <1>3, LenProperties
<1> QED BY <1>1, <1>3, <1>4, <1>5

\* The places of an inbox.
LEMMA BoxFacts ==
    ASSUME NEW box \in Seq(Messages)
    PROVE  /\ Len(box) \in Nat /\ DOMAIN box = 1 .. Len(box)
           /\ \A k \in 1 .. Len(box) : box[k] \in Messages
           /\ box = <<>> <=> Len(box) = 0
           /\ box = <<>> => DOMAIN box = {}
BY LenProperties, ElementOfSeq, EmptySeq

---------------------------------------------------------------------------
(* What the parts of the actions do to the tables.                         *)

\* The tables of the state have a row for every peer.
LEMMA TableDomains ==
    ASSUME NEW S, NEW f, Table(f, S)
    PROVE  DOMAIN f = Peers /\ \A r \in Peers : DOMAIN f[r] = Neighbours(r)
<1>1. f = [r \in Peers |-> [t \in Neighbours(r) |-> f[r][t]]]
  BY DEF Table
<1>2. DOMAIN f = Peers /\ \A r \in Peers : DOMAIN f[r] = Neighbours(r)
  BY <1>1
<1> QED BY <1>2

\* The tables have an entry for each pair.
LEMMA StateDomains ==
    ASSUME PeerTypeOK
    PROVE  /\ DOMAIN info = Peers /\ \A r \in Peers : DOMAIN info[r] = Neighbours(r)
           /\ DOMAIN strays = Peers /\ \A r \in Peers : DOMAIN strays[r] = Neighbours(r)
           /\ DOMAIN inbox = Peers /\ \A r \in Peers : DOMAIN inbox[r] = Neighbours(r)
           /\ DOMAIN open = Peers /\ \A r \in Peers : DOMAIN open[r] = Neighbours(r)
           /\ DOMAIN data = Peers /\ DOMAIN hist = Peers /\ DOMAIN saved = Peers
           /\ DOMAIN cursor = Peers /\ DOMAIN job = Peers /\ DOMAIN epoch = Clients
BY TableDomains DEF PeerTypeOK

\* A message leaves the inbox.
LEMMA ConsumedFacts ==
    ASSUME PeerTypeOK, NEW p \in Peers, NEW q \in Neighbours(p), inbox[p][q] # <<>>
    PROVE  /\ Table(Consumed(p, q), Seq(Messages))
           /\ \A r \in Peers : \A t \in Neighbours(r) :
                Consumed(p, q)[r][t] = IF r = p /\ t = q THEN Tail(inbox[p][q]) ELSE inbox[r][t]
<1> DEFINE g == Consumed(p, q)
           S == Seq(Messages)
           tail == Tail(inbox[p][q])
<1>1. Table(inbox, S) /\ tail \in S
  BY StateTypes, HeadFacts DEF PeerTypeOK
<1>2. g = [inbox EXCEPT ![p][q] = tail]
  BY DEF Consumed
<1>3. Table(g, S)
  <2> HIDE DEF g, tail, S
  <2> QED BY <1>1, <1>2, TableUpdate
<1> QED BY <1>3, StateDomains DEF Consumed

\* Sending adds to the inboxes that p reaches, and to no other.
LEMMA SentFacts ==
    ASSUME PeerTypeOK, NEW p \in Peers, NEW msgs,
           \A q \in Neighbours(p) : msgs[q] \in Seq(Messages)
    PROVE  /\ Table(Sent(inbox, p, msgs), Seq(Messages))
           /\ \A r \in Peers : \A t \in Neighbours(r) :
                Sent(inbox, p, msgs)[r][t] =
                    IF t = p /\ Reaches(p, r) THEN inbox[r][p] \o msgs[r] ELSE inbox[r][t]
<1>1. \A r \in Peers : \A t \in Neighbours(r) : inbox[r][t] \in Seq(Messages)
  BY StateTypes
<1> DEFINE new == Sent(inbox, p, msgs)
<1>2. new = [r \in Peers |-> [t \in Neighbours(r) |->
                IF t = p /\ Reaches(p, r) THEN inbox[r][p] \o msgs[r] ELSE inbox[r][t]]]
  BY DEF Sent
<1>3. \A r \in Peers : \A t \in Neighbours(r) :
        new[r][t] = IF t = p /\ Reaches(p, r) THEN inbox[r][p] \o msgs[r] ELSE inbox[r][t]
  BY <1>2
<1>4. ASSUME NEW r \in Peers, NEW t \in Neighbours(r) PROVE new[r][t] \in Seq(Messages)
  <2>1. CASE t = p /\ Reaches(p, r)
    <3>1. r \in Neighbours(p) /\ inbox[r][p] \in Seq(Messages) /\ msgs[r] \in Seq(Messages)
      BY <1>1, <2>1, NeighbourFacts
    <3>2. inbox[r][p] \o msgs[r] \in Seq(Messages)
      BY <3>1, ConcatFacts
    <3> QED BY <3>2, <1>3, <2>1
  <2>2. CASE ~(t = p /\ Reaches(p, r))
    BY <2>2, <1>1, <1>3
  <2> QED BY <2>1, <2>2
<1>5. new = [r \in Peers |-> [t \in Neighbours(r) |-> new[r][t]]]
  BY <1>2
<1> HIDE DEF new
<1>6. Table(new, Seq(Messages))
  BY <1>4, <1>5 DEF Table
<1> QED BY <1>3, <1>6 DEF new

\* What a syncPeer sends goes to its peer only.
LEMMA SentTo ==
    ASSUME PeerTypeOK, NEW p \in Peers, NEW q \in Neighbours(p), NEW msgs \in Seq(Messages),
           NEW each, \A r \in Neighbours(p) : each[r] = IF r = q THEN msgs ELSE <<>>
    PROVE  /\ Table(Sent(inbox, p, each), Seq(Messages))
           /\ \A r \in Peers : \A t \in Neighbours(r) :
                Sent(inbox, p, each)[r][t] = IF r = q /\ t = p /\ Reaches(p, q)
                            THEN inbox[q][p] \o msgs ELSE inbox[r][t]
<1> DEFINE new == Sent(inbox, p, each)
<1>1. \A r \in Neighbours(p) : each[r] = IF r = q THEN msgs ELSE <<>>
  OBVIOUS
<1>2. \A r \in Neighbours(p) : each[r] \in Seq(Messages)
  BY <1>1, EmptySeq
<1>3. /\ Table(new, Seq(Messages))
      /\ \A r \in Peers : \A t \in Neighbours(r) :
            new[r][t] = IF t = p /\ Reaches(p, r) THEN inbox[r][p] \o each[r] ELSE inbox[r][t]
  BY <1>2, SentFacts
<1> HIDE DEF new
<1>4. ASSUME NEW r \in Peers, NEW t \in Neighbours(r)
      PROVE  new[r][t] = IF r = q /\ t = p /\ Reaches(p, q)
                         THEN inbox[q][p] \o msgs ELSE inbox[r][t]
  <2>1. CASE t = p /\ r # q
    <3>1. r \in Neighbours(p) /\ each[r] = <<>> /\ inbox[r][p] \in Seq(Messages)
      BY <2>1, <1>1, NeighbourFacts, StateTypes
    <3>2. inbox[r][p] \o each[r] = inbox[r][p]
      BY <3>1, ConcatEmptySeq
    <3> QED BY <3>2, <1>3, <2>1
  <2>2. CASE t = p /\ r = q
    BY <2>2, <1>1, <1>3
  <2>3. CASE t # p
    BY <2>3, <1>3
  <2> QED BY <2>1, <2>2, <2>3
<1> QED BY <1>3, <1>4 DEF new

\* What broadcastChanges sends and keeps.
LEMMA FreshFacts ==
    ASSUME NEW changes \in SUBSET Changes, NEW cur
    PROVE  Fresh(changes, cur) \in SUBSET Changes /\ Fresh(changes, cur) \subseteq changes
BY DEF Fresh

\* What a broadcast sends to one neighbour.
LEMMA BroadcastFacts ==
    ASSUME PeerTypeOK, NEW p \in Peers, NEW changes \in SUBSET Changes, NEW except,
           NEW q \in Neighbours(p)
    PROVE  /\ Broadcast(p, changes, except)[q] \in Seq(Messages)
           /\ ~Listening(p, q, except) => Broadcast(p, changes, except)[q] = <<>>
           /\ Listening(p, q, except) => Broadcast(p, changes, except)[q] =
                NonEmpty(info[p][q].pending) \o NonEmpty(Fresh(changes, info[p][q].cursor))
<1>1. info[p][q].pending \in SUBSET Changes
  BY StateTypes, InfoFields
<1>2. NonEmpty(info[p][q].pending) \in Seq(Messages)
  BY <1>1, NonEmptyFacts
<1>3. Fresh(changes, info[p][q].cursor) \in SUBSET Changes
  BY FreshFacts
<1>4. NonEmpty(Fresh(changes, info[p][q].cursor)) \in Seq(Messages)
  BY <1>3, NonEmptyFacts
<1>5. NonEmpty(info[p][q].pending) \o NonEmpty(Fresh(changes, info[p][q].cursor)) \in Seq(Messages)
  BY <1>2, <1>4, ConcatFacts
<1>6. /\ ~Listening(p, q, except) => Broadcast(p, changes, except)[q] = <<>>
      /\ Listening(p, q, except) => Broadcast(p, changes, except)[q] =
            NonEmpty(info[p][q].pending) \o NonEmpty(Fresh(changes, info[p][q].cursor))
  BY DEF Broadcast
<1>7. <<>> \in Seq(Messages)
  BY EmptySeq
<1> QED BY <1>5, <1>6, <1>7

\* The PeerInfos after a broadcast, one part at a time.
LEMMA AfterBroadcastRow ==
    ASSUME PeerTypeOK, NEW p \in Peers, NEW changes \in SUBSET Changes, NEW except
    PROVE  LET row == AfterBroadcast(p, changes, except)
           IN  row = [q \in Neighbours(p) |-> row[q]] /\ \A q \in Neighbours(p) : row[q] \in Infos
<1> DEFINE row == AfterBroadcast(p, changes, except)
<1>1. row = [q \in Neighbours(p) |-> row[q]]
  BY DEF AfterBroadcast
<1>2. ASSUME NEW q \in Neighbours(p) PROVE row[q] \in Infos
  <2> DEFINE i == info[p][q]
  <2>1. i \in Infos
    BY StateTypes
  <2>2. row[q] = IF Waiting(p, q, except) THEN [i EXCEPT !.pending = @ \cup changes]
                 ELSE IF Listening(p, q, except) THEN [i EXCEPT !.pending = {}] ELSE i
    BY DEF AfterBroadcast
  <2> HIDE DEF i, row
  <2> QED BY <2>1, <2>2 DEF Infos
<1> QED BY <1>1, <1>2

\* A broadcast changes nothing of a PeerInfo but what is pending.
LEMMA AfterBroadcastSame ==
    ASSUME PeerTypeOK, NEW p \in Peers, NEW changes \in SUBSET Changes, NEW except,
           NEW q \in Neighbours(p)
    PROVE  LET j == AfterBroadcast(p, changes, except)[q]
               i == info[p][q]
           IN  /\ j.known = i.known /\ j.epoch = i.epoch /\ j.cursor = i.cursor
               /\ j.active = i.active /\ j.sync = i.sync
<1> DEFINE i == info[p][q]
           j == AfterBroadcast(p, changes, except)[q]
<1>1. i \in Infos
  BY StateTypes
<1>2. j = IF Waiting(p, q, except) THEN [i EXCEPT !.pending = @ \cup changes]
          ELSE IF Listening(p, q, except) THEN [i EXCEPT !.pending = {}] ELSE i
  BY DEF AfterBroadcast
<1> HIDE DEF i, j
<1>3. /\ j.known = i.known /\ j.epoch = i.epoch /\ j.cursor = i.cursor
      /\ j.active = i.active /\ j.sync = i.sync
  BY <1>1, <1>2 DEF Infos
<1> QED BY <1>3 DEF i, j

\* What a peer is not sent at once becomes pending.
LEMMA AfterBroadcastWaiting ==
    ASSUME PeerTypeOK, NEW p \in Peers, NEW changes \in SUBSET Changes, NEW except,
           NEW q \in Neighbours(p), Waiting(p, q, except)
    PROVE  AfterBroadcast(p, changes, except)[q].pending = info[p][q].pending \cup changes
BY StateTypes DEF AfterBroadcast, Infos

\* What was pending for a peer that is sent directly is gone.
LEMMA AfterBroadcastListening ==
    ASSUME PeerTypeOK, NEW p \in Peers, NEW changes \in SUBSET Changes, NEW except,
           NEW q \in Neighbours(p), Listening(p, q, except)
    PROVE  AfterBroadcast(p, changes, except)[q].pending = {}
BY StateTypes DEF AfterBroadcast, Infos, Waiting, Listening

\* The others' pending changes stay.
LEMMA AfterBroadcastOthers ==
    ASSUME PeerTypeOK, NEW p \in Peers, NEW changes \in SUBSET Changes, NEW except,
           NEW q \in Neighbours(p), ~Waiting(p, q, except), ~Listening(p, q, except)
    PROVE  AfterBroadcast(p, changes, except)[q].pending = info[p][q].pending
BY StateTypes DEF AfterBroadcast

\* What a turn of syncPeer sends.
LEMMA RowsFacts ==
    ASSUME PeerTypeOK, NEW p \in Peers, NEW s \in Syncs
    PROVE  /\ Rows(p, s.sites, s.from) \in SUBSET Changes /\ Rows(p, s.sites, s.from) \subseteq hist[p]
           /\ Batch(p, s) \in SUBSET Changes /\ Batch(p, s) \subseteq Rows(p, s.sites, s.from)
           /\ Batch(p, s) \subseteq hist[p]
BY StateTypes DEF Rows, RowsOf, Batch

\* A turn of syncPeer sends what it tells, and nothing when that is nothing.
LEMMA TurnFacts ==
    ASSUME PeerTypeOK, NEW p \in Peers, NEW i \in Infos
    PROVE  /\ Turn(p, i) \in Seq(Messages) /\ Told(p, i) \in SUBSET Changes
           /\ Turn(p, i) = NonEmpty(Batch(p, i.sync)) \o
                (IF IsLast(p, i.sync) THEN NonEmpty(i.pending) ELSE <<>>)
           /\ Turn(p, i) = <<>> <=> Told(p, i) = {}
<1>1. i.sync \in Syncs /\ i.pending \in SUBSET Changes
  BY InfoFields
<1>2. Batch(p, i.sync) \in SUBSET Changes
  BY <1>1, RowsFacts
<1> DEFINE b == NonEmpty(Batch(p, i.sync))
           l == IF IsLast(p, i.sync) THEN NonEmpty(i.pending) ELSE <<>>
<1>3. b \in Seq(Messages) /\ (b = <<>> <=> Batch(p, i.sync) = {})
  <2>1. <<Data(Batch(p, i.sync))>> # <<>>
    OBVIOUS
  <2> QED BY <1>2, <2>1, NonEmptyFacts
<1>4. l \in Seq(Messages) /\ (l = <<>> <=> (IsLast(p, i.sync) => i.pending = {}))
  <2>1. <<Data(i.pending)>> # <<>> /\ <<>> \in Seq(Messages)
    BY EmptySeq
  <2> QED BY <1>1, <2>1, NonEmptyFacts
<1>5. Turn(p, i) = b \o l
  BY DEF Turn
<1> HIDE DEF b, l
<1>6. b \o l \in Seq(Messages) /\ (b \o l = <<>> <=> b = <<>> /\ l = <<>>)
  BY <1>3, <1>4, ConcatFacts, ConcatEqualIffEmpty
<1>7. Told(p, i) \in SUBSET Changes
      /\ (Told(p, i) = {} <=> Batch(p, i.sync) = {} /\ (IsLast(p, i.sync) => i.pending = {}))
  BY <1>1, <1>2 DEF Told
<1>8. Turn(p, i) = <<>> <=> Told(p, i) = {}
  BY <1>3, <1>4, <1>5, <1>6, <1>7
<1> QED BY <1>5, <1>6, <1>7, <1>8 DEF b, l

\* The PeerInfo after a turn, one part at a time.
LEMMA AfterTurnSame ==
    ASSUME NEW p \in Peers, NEW i \in Infos, NEW cur \in Cursors
    PROVE  /\ AfterTurn(p, i, cur).known = i.known /\ AfterTurn(p, i, cur).epoch = i.epoch
           /\ AfterTurn(p, i, cur).cursor = cur
BY DEF AfterTurn, Infos

\* The last turn ends the syncPeer and makes the peer active.
LEMMA AfterTurnLast ==
    ASSUME NEW p \in Peers, NEW i \in Infos, NEW cur \in Cursors, IsLast(p, i.sync)
    PROVE  /\ AfterTurn(p, i, cur).pending = {} /\ AfterTurn(p, i, cur).sync = NoSync
           /\ AfterTurn(p, i, cur).active = TRUE
BY DEF AfterTurn, Infos

\* Another turn only moves the offset.
LEMMA AfterTurnMore ==
    ASSUME NEW p \in Peers, NEW i \in Infos, NEW cur \in Cursors, ~IsLast(p, i.sync)
    PROVE  LET j == AfterTurn(p, i, cur)
           IN  /\ j.pending = i.pending /\ j.active = i.active
               /\ j.sync.on = i.sync.on /\ j.sync.cancel = i.sync.cancel
               /\ j.sync.sites = i.sync.sites /\ j.sync.from = i.sync.from
               /\ j.sync.offset = i.sync.offset + BatchLimit
<1> DEFINE j == AfterTurn(p, i, cur)
           s == [i.sync EXCEPT !.offset = i.sync.offset + BatchLimit]
<1>1. i.sync \in Syncs
  BY InfoFields
<1>2. j = [i EXCEPT !.cursor = cur, !.sync = s]
  BY DEF AfterTurn
<1>3. s.on = i.sync.on /\ s.cancel = i.sync.cancel /\ s.sites = i.sync.sites
      /\ s.from = i.sync.from /\ s.offset = i.sync.offset + BatchLimit
  BY <1>1 DEF Syncs
<1>4. j.pending = i.pending /\ j.active = i.active /\ j.sync = s
  <2> HIDE DEF j, s
  <2> QED BY <1>2 DEF Infos
<1> HIDE DEF j, s
<1>5. /\ j.pending = i.pending /\ j.active = i.active
      /\ j.sync.on = i.sync.on /\ j.sync.cancel = i.sync.cancel
      /\ j.sync.sites = i.sync.sites /\ j.sync.from = i.sync.from
      /\ j.sync.offset = i.sync.offset + BatchLimit
  BY <1>3, <1>4
<1> QED BY <1>5 DEF j

\* A PeerInfo stays one.
LEMMA AfterTurnType ==
    ASSUME NEW p \in Peers, NEW i \in Infos, NEW cur \in Cursors
    PROVE  AfterTurn(p, i, cur) \in Infos
<1> DEFINE j == AfterTurn(p, i, cur)
<1>1. CASE IsLast(p, i.sync)
  <2>1. j = [i EXCEPT !.cursor = cur, !.pending = {}, !.sync = NoSync, !.active = TRUE]
    BY <1>1 DEF AfterTurn
  <2> HIDE DEF j
  <2>2. j \in Infos
    BY <2>1, InfoTypes DEF Infos
  <2> QED BY <2>2 DEF j
<1>2. CASE ~IsLast(p, i.sync)
  <2> DEFINE s == [i.sync EXCEPT !.offset = i.sync.offset + BatchLimit]
  <2>1. j = [i EXCEPT !.cursor = cur, !.sync = s]
    BY <1>2 DEF AfterTurn
  <2>2. i.sync \in Syncs /\ i.sync.offset \in Nat
    BY InfoFields
  <2>3. s \in Syncs
    BY <2>2 DEF Syncs
  <2> HIDE DEF j, s
  <2>4. j \in Infos
    BY <2>1, <2>3 DEF Infos
  <2> QED BY <2>4 DEF j
<1> QED BY <1>1, <1>2

---------------------------------------------------------------------------
(* What the actions do, entry by entry.                                    *)

\* At first the state is within its types.
LEMMA InitTypes == Init => PeerTypeOK
<1> SUFFICES ASSUME Init PROVE PeerTypeOK
  OBVIOUS
<1> USE DEF Init
<1>1. \A p \in Peers : data[p] \in SUBSET Changes
  BY DEF Changes, Peers
<1>2. /\ data \in [Peers -> SUBSET Changes] /\ hist \in [Peers -> SUBSET Changes]
      /\ saved \in [Peers -> Cursors] /\ cursor \in [Peers -> Cursors]
      /\ job \in [Peers -> Jobs] /\ epoch \in [Clients -> Nat]
  BY <1>1, NoCursorFacts, InfoTypes DEF Cursors
<1>3. Table(info, Infos)
  BY InfoTypes DEF Table
<1>4. Table(strays, SUBSET Infos) /\ Table(open, BOOLEAN)
  BY DEF Table
<1>5. Table(inbox, Seq(Messages))
  BY EmptySeq DEF Table
<1> QED BY <1>2, <1>3, <1>4, <1>5 DEF PeerTypeOK

\* A transaction of an application is the next of its site.
LEMMA WriteEffect ==
    ASSUME PeerTypeOK, NEW p \in Peers, Write(p)
    PROVE  LET n == Cardinality({c \in data[p] : c.site = p})
           IN  /\ n \in Nat /\ n < Writes[p] /\ [site |-> p, version |-> n + 1] \in Changes
               /\ PeerTypeOK'
               /\ data'[p] = data[p] \cup {[site |-> p, version |-> n + 1]}
               /\ \A r \in Peers : r # p => data'[r] = data[r]
<1> DEFINE own == {c \in data[p] : c.site = p}
           n == Cardinality(own)
           new == [site |-> p, version |-> n + 1]
<1>1. n \in Nat
  BY StateTypes, ChangesAreFinite, FS_Subset, FS_CardinalityType
<1>2. n < Writes[p] /\ data' = [data EXCEPT ![p] = data[p] \cup {new}]
  BY DEF Write
<1> HIDE DEF n
<1>3. n + 1 \in 1 .. Writes[p]
  BY <1>1, <1>2
<1>4. new \in Changes
  BY <1>3, IsAChange
<1> HIDE DEF new
<1>5. data' \in [Peers -> SUBSET Changes]
  BY <1>2, <1>4, StateTypes DEF PeerTypeOK
<1>6. UNCHANGED <<hist, saved, memory, net, ghosts>>
  BY DEF Write
<1>7. PeerTypeOK'
  BY <1>5, <1>6 DEF PeerTypeOK, memory, net, ghosts
<1>8. data'[p] = data[p] \cup {new} /\ \A r \in Peers : r # p => data'[r] = data[r]
  BY <1>2, StateDomains
<1> QED BY <1>1, <1>2, <1>4, <1>7, <1>8 DEF n, new

\* Local changes are in the tables.
LEMMA LocalChangesFacts ==
    ASSUME PeerTypeOK, NEW p \in Peers
    PROVE  LocalChanges(p) \in SUBSET Changes /\ LocalChanges(p) \subseteq data[p]
BY StateTypes DEF LocalChanges

\* What reading the local changes does.
LEMMA CheckLocalEffect ==
    ASSUME PeerTypeOK, NEW p \in Peers, CheckLocal(p)
    PROVE  /\ PeerTypeOK'
           /\ cursor'[p] = Advance(cursor[p], LocalChanges(p))
           /\ job'[p] = [step |-> "read", changes |-> LocalChanges(p), peer |-> p]
           /\ \A r \in Peers : r # p => cursor'[r] = cursor[r] /\ job'[r] = job[r]
<1>1. cursor[p] \in Cursors /\ LocalChanges(p) \in SUBSET Changes
  BY StateTypes, LocalChangesFacts
<1>2. Advance(cursor[p], LocalChanges(p)) \in Cursors
  BY <1>1, AdvanceFacts
<1>3. [step |-> "read", changes |-> LocalChanges(p), peer |-> p] \in Jobs
  BY <1>1 DEF Jobs
<1>4. /\ cursor' = [cursor EXCEPT ![p] = Advance(cursor[p], LocalChanges(p))]
      /\ job' = [job EXCEPT ![p] = [step |-> "read", changes |-> LocalChanges(p), peer |-> p]]
      /\ UNCHANGED <<durable, info, strays, net, ghosts>>
  BY DEF CheckLocal
<1>5. PeerTypeOK'
  BY <1>2, <1>3, <1>4 DEF PeerTypeOK, durable, net, ghosts
<1> QED BY <1>4, <1>5, StateDomains

\* What logging them does.
LEMMA LogLocalEffect ==
    ASSUME PeerTypeOK, NEW p \in Peers, LogLocal(p)
    PROVE  /\ PeerTypeOK'
           /\ hist'[p] = hist[p] \cup job[p].changes
           /\ job'[p].step = "known" /\ job'[p].changes = job[p].changes /\ job'[p].peer = job[p].peer
           /\ \A r \in Peers : r # p => hist'[r] = hist[r] /\ job'[r] = job[r]
<1>1. /\ hist' = [hist EXCEPT ![p] = hist[p] \cup job[p].changes]
      /\ job' = [job EXCEPT ![p] = [job[p] EXCEPT !.step = "known"]]
      /\ UNCHANGED <<data, saved, cursor, info, strays, net, strayed, guessed>>
      /\ overlooked' \in BOOLEAN
  BY DEF LogLocal, PeerTypeOK
<1>2. job[p] \in Jobs /\ job[p].changes \in SUBSET Changes
  BY StateTypes
<1>3. [job[p] EXCEPT !.step = "known"] \in Jobs
  BY <1>2 DEF Jobs
<1>4. PeerTypeOK'
  BY <1>1, <1>2, <1>3 DEF PeerTypeOK, net
<1>6. /\ hist'[p] = hist[p] \cup job[p].changes
      /\ job'[p] = [job[p] EXCEPT !.step = "known"]
      /\ \A r \in Peers : r # p => hist'[r] = hist[r] /\ job'[r] = job[r]
  BY <1>1, StateDomains
<1>7. job'[p].step = "known" /\ job'[p].changes = job[p].changes /\ job'[p].peer = job[p].peer
  BY <1>2, <1>6 DEF Jobs
<1> QED BY <1>4, <1>6, <1>7

\* What publishing does.
LEMMA PublishEffect ==
    ASSUME PeerTypeOK, NEW p \in Peers, Publish(p)
    PROVE  LET J == job[p].changes
               from == job[p].peer
               cur == Advance(cursor[p], J)
           IN  /\ PeerTypeOK' /\ cur \in Cursors
               /\ cursor'[p] = cur /\ saved'[p] = cur /\ job'[p] = Idle
               /\ \A r \in Peers : r # p =>
                    cursor'[r] = cursor[r] /\ saved'[r] = saved[r] /\ job'[r] = job[r]
               /\ \A q \in Neighbours(p) :
                    /\ info'[p][q] = AfterBroadcast(p, J, from)[q]
                    /\ Reaches(p, q) => inbox'[q][p] = inbox[q][p] \o Broadcast(p, J, from)[q]
                    /\ ~Reaches(p, q) => inbox'[q][p] = inbox[q][p]
               /\ \A r \in Peers : \A t \in Neighbours(r) :
                    /\ r # p => info'[r][t] = info[r][t]
                    /\ t # p => inbox'[r][t] = inbox[r][t]
<1> DEFINE J == job[p].changes
           from == job[p].peer
           cur == Advance(cursor[p], J)
           row == AfterBroadcast(p, J, from)
           msgs == Broadcast(p, J, from)
<1>1. /\ cursor' = [cursor EXCEPT ![p] = cur]
      /\ saved' = [saved EXCEPT ![p] = cur]
      /\ info' = [info EXCEPT ![p] = row]
      /\ inbox' = Sent(inbox, p, msgs)
      /\ job' = [job EXCEPT ![p] = Idle]
      /\ UNCHANGED <<data, hist, strays, open, epoch, breaks, overlooked, guessed>>
      /\ strayed' \in BOOLEAN
  BY DEF Publish, PeerTypeOK
<1>2. J \in SUBSET Changes /\ cur \in Cursors
  BY StateTypes, AdvanceFacts
<1> HIDE DEF J, from, cur
<1>3. row = [q \in Neighbours(p) |-> row[q]] /\ \A q \in Neighbours(p) : row[q] \in Infos
  BY <1>2, AfterBroadcastRow
<1>4. \A q \in Neighbours(p) : msgs[q] \in Seq(Messages)
  BY <1>2, BroadcastFacts
<1> HIDE DEF row, msgs
<1>5. Table(info', Infos)
  BY <1>1, <1>3, TableRow DEF PeerTypeOK
<1>6. /\ Table(inbox', Seq(Messages))
      /\ \A r \in Peers : \A t \in Neighbours(r) :
            inbox'[r][t] = IF t = p /\ Reaches(p, r) THEN inbox[r][p] \o msgs[r] ELSE inbox[r][t]
  BY <1>1, <1>4, SentFacts
<1>7. PeerTypeOK'
  BY <1>1, <1>2, <1>5, <1>6, InfoTypes DEF PeerTypeOK
<1>8. /\ cursor'[p] = cur /\ saved'[p] = cur /\ job'[p] = Idle
      /\ \A r \in Peers : r # p =>
            cursor'[r] = cursor[r] /\ saved'[r] = saved[r] /\ job'[r] = job[r]
  BY <1>1, StateDomains
<1>9. /\ \A q \in Neighbours(p) : info'[p][q] = row[q]
      /\ \A r \in Peers : \A t \in Neighbours(r) : r # p => info'[r][t] = info[r][t]
  BY <1>1, StateDomains
<1>10. /\ \A q \in Neighbours(p) :
            /\ Reaches(p, q) => inbox'[q][p] = inbox[q][p] \o msgs[q]
            /\ ~Reaches(p, q) => inbox'[q][p] = inbox[q][p]
       /\ \A r \in Peers : \A t \in Neighbours(r) : t # p => inbox'[r][t] = inbox[r][t]
  BY <1>6, NeighbourFacts
<1> QED BY <1>2, <1>7, <1>8, <1>9, <1>10 DEF J, from, cur, row, msgs

\* What p takes from the next message of q, and its PeerInfo of q then.
Received(p, q) ==
    IF info[p][q].known THEN Fresh(Head(inbox[p][q]).changes, cursor[p]) ELSE {}
AfterReceive(p, q) ==
    IF info[p][q].known
    THEN [info[p][q] EXCEPT !.cursor = Advance(info[p][q].cursor, Received(p, q))]
    ELSE info[p][q]

\* What is received is part of the message.
LEMMA ReceivedType ==
    ASSUME PeerTypeOK, NEW p \in Peers, NEW q \in Neighbours(p), Receive(p, q)
    PROVE  /\ inbox[p][q] # <<>> /\ Head(inbox[p][q]).type = "data" /\ job[p].step = "idle"
           /\ Received(p, q) \in SUBSET Changes
           /\ Received(p, q) \subseteq Head(inbox[p][q]).changes
<1>1. inbox[p][q] # <<>> /\ inbox[p][q] \in Seq(Messages)
      /\ Head(inbox[p][q]).type = "data" /\ job[p].step = "idle"
  BY StateTypes DEF Receive, Next1, IsIdle
<1>2. Head(inbox[p][q]).changes \in SUBSET Changes
  BY <1>1, HeadFacts, MessageFields
<1> QED BY <1>1, <1>2 DEF Received, Fresh

\* Receiving moves the cursor kept of the sender.
LEMMA AfterReceiveFacts ==
    ASSUME PeerTypeOK, NEW p \in Peers, NEW q \in Neighbours(p), Receive(p, q)
    PROVE  LET i == info[p][q]
               j == AfterReceive(p, q)
           IN  /\ j \in Infos
               /\ j.known = i.known /\ j.epoch = i.epoch /\ j.active = i.active
               /\ j.pending = i.pending /\ j.sync = i.sync
               /\ j.cursor = IF i.known THEN Advance(i.cursor, Received(p, q)) ELSE i.cursor
<1> DEFINE i == info[p][q]
           cur == Advance(i.cursor, Received(p, q))
           j == AfterReceive(p, q)
<1>1. i \in Infos /\ i.cursor \in Cursors /\ i.known \in BOOLEAN
  BY StateTypes, InfoFields
<1>2. cur \in Cursors
  BY <1>1, ReceivedType, AdvanceFacts
<1>3. j = IF i.known THEN [i EXCEPT !.cursor = cur] ELSE i
  BY DEF AfterReceive
<1> HIDE DEF i, cur, j
<1> QED BY <1>1, <1>2, <1>3 DEF Infos, i, cur, j

\* What receiving does to the tables and the history.
LEMMA ReceiveEffect ==
    ASSUME PeerTypeOK, NEW p \in Peers, NEW q \in Neighbours(p), Receive(p, q)
    PROVE  /\ PeerTypeOK'
           /\ data'[p] = data[p] \cup Received(p, q) /\ hist'[p] = hist[p] \cup Received(p, q)
           /\ \A r \in Peers : r # p => data'[r] = data[r] /\ hist'[r] = hist[r]
<1> DEFINE fresh == Fresh(Head(inbox[p][q]).changes, cursor[p])
           known == info[p][q].known
           new == Received(p, q)
           after == AfterReceive(p, q)
<1>1. /\ inbox[p][q] # <<>> /\ q \in Peers /\ known \in BOOLEAN
      /\ (known => new = fresh) /\ (~known => new = {} /\ after = info[p][q])
  BY StateTypes, NeighbourFacts, InfoFields DEF Receive, Next1, Received, AfterReceive
<1>2. new \in SUBSET Changes
  BY ReceivedType
<1>3. /\ inbox' = Consumed(p, q)
      /\ (known => info' = [info EXCEPT ![p][q] = after])
      /\ (~known => info' = info)
      /\ (new # {} =>
            /\ data' = [data EXCEPT ![p] = data[p] \cup new]
            /\ hist' = [hist EXCEPT ![p] = hist[p] \cup new]
            /\ overlooked' = (overlooked \/ Overlooks(p, new))
            /\ job' = [job EXCEPT ![p] = [step |-> "known", changes |-> new, peer |-> q]])
      /\ (new = {} => UNCHANGED <<data, hist, overlooked, job>>)
      /\ UNCHANGED <<saved, cursor, strays, open, epoch, breaks, strayed, guessed>>
  BY DEF Receive, Apply, Received, AfterReceive
<1>4. after \in Infos
  BY AfterReceiveFacts
<1> HIDE DEF fresh, known, new, after
<1>5. /\ Table(inbox', Seq(Messages))
      /\ \A r \in Peers : \A t \in Neighbours(r) :
            inbox'[r][t] = IF r = p /\ t = q THEN Tail(inbox[p][q]) ELSE inbox[r][t]
  BY <1>1, <1>3, ConsumedFacts
<1>6. Table(info', Infos)
  <2>1. Table(info, Infos)
    BY DEF PeerTypeOK
  <2> QED BY <2>1, <1>1, <1>3, <1>4, TableUpdate
<1>8. /\ data'[p] = data[p] \cup new /\ hist'[p] = hist[p] \cup new
      /\ \A r \in Peers : r # p => data'[r] = data[r] /\ hist'[r] = hist[r]
  <2>1. CASE new # {}
    BY <2>1, <1>3, StateDomains
  <2>2. CASE new = {}
    BY <2>2, <1>3
  <2> QED BY <2>1, <2>2
<1>9. /\ data' \in [Peers -> SUBSET Changes] /\ hist' \in [Peers -> SUBSET Changes]
      /\ job' \in [Peers -> Jobs] /\ overlooked' \in BOOLEAN
  <2>1. CASE new # {}
    <3>1. [step |-> "known", changes |-> new, peer |-> q] \in Jobs
      BY <1>1, <1>2 DEF Jobs
    <3>2. overlooked' \in BOOLEAN
      BY <2>1, <1>3 DEF PeerTypeOK
    <3>3. /\ data' = [data EXCEPT ![p] = data[p] \cup new]
          /\ hist' = [hist EXCEPT ![p] = hist[p] \cup new]
          /\ job' = [job EXCEPT ![p] = [step |-> "known", changes |-> new, peer |-> q]]
      BY <2>1, <1>3
    <3>4. data[p] \cup new \in SUBSET Changes /\ hist[p] \cup new \in SUBSET Changes
      BY <1>2, StateTypes
    <3>5. data' \in [Peers -> SUBSET Changes]
      BY <3>3, <3>4 DEF PeerTypeOK
    <3>6. hist' \in [Peers -> SUBSET Changes]
      BY <3>3, <3>4 DEF PeerTypeOK
    <3>7. job' \in [Peers -> Jobs]
      BY <3>1, <3>3 DEF PeerTypeOK
    <3> QED BY <3>2, <3>5, <3>6, <3>7
  <2>2. CASE new = {}
    BY <2>2, <1>3 DEF PeerTypeOK
  <2> QED BY <2>1, <2>2
<1>10. PeerTypeOK'
  BY <1>3, <1>5, <1>6, <1>9 DEF PeerTypeOK
<1> QED BY <1>8, <1>10 DEF new

\* What it does to PeerInfos and inboxes.
LEMMA ReceiveTables ==
    ASSUME PeerTypeOK, NEW p \in Peers, NEW q \in Neighbours(p), Receive(p, q)
    PROVE  /\ info'[p][q] = AfterReceive(p, q) /\ inbox'[p][q] = Tail(inbox[p][q])
           /\ \A r \in Peers : \A t \in Neighbours(r) : ~(r = p /\ t = q) =>
                info'[r][t] = info[r][t] /\ inbox'[r][t] = inbox[r][t]
<1> DEFINE after == AfterReceive(p, q)
<1>1. /\ inbox[p][q] # <<>> /\ info[p][q].known \in BOOLEAN
      /\ (info[p][q].known => info' = [info EXCEPT ![p][q] = after])
      /\ (~info[p][q].known => info' = info /\ after = info[p][q])
      /\ inbox' = Consumed(p, q)
  BY StateTypes, InfoFields DEF Receive, Next1, Received, AfterReceive
<1>2. /\ inbox'[p][q] = Tail(inbox[p][q])
      /\ \A r \in Peers : \A t \in Neighbours(r) : ~(r = p /\ t = q) => inbox'[r][t] = inbox[r][t]
  BY <1>1, ConsumedFacts
<1> HIDE DEF after
<1>3. /\ info'[p][q] = after
      /\ \A r \in Peers : \A t \in Neighbours(r) : ~(r = p /\ t = q) => info'[r][t] = info[r][t]
  <2>1. CASE info[p][q].known
    BY <2>1, <1>1, StateDomains
  <2>2. CASE ~info[p][q].known
    BY <2>2, <1>1
  <2> QED BY <2>1, <2>2, <1>1
<1> QED BY <1>2, <1>3 DEF after

\* What it leaves to do.
LEMMA ReceiveJob ==
    ASSUME PeerTypeOK, NEW p \in Peers, NEW q \in Neighbours(p), Receive(p, q)
    PROVE  /\ job'[p].step = IF Received(p, q) = {} THEN "idle" ELSE "known"
           /\ Received(p, q) # {} => job'[p].peer = q /\ job'[p].changes = Received(p, q)
           /\ Received(p, q) = {} => job'[p] = job[p]
           /\ \A r \in Peers : r # p => job'[r] = job[r]
<1> DEFINE new == Received(p, q)
<1>1. /\ (new # {} => job' = [job EXCEPT ![p] = [step |-> "known", changes |-> new, peer |-> q]])
      /\ (new = {} => job' = job) /\ job[p].step = "idle"
  BY DEF Receive, Received, IsIdle
<1> HIDE DEF new
<1>2. CASE new = {}
  BY <1>1, <1>2 DEF new
<1>3. CASE new # {}
  <2>1. job'[p] = [step |-> "known", changes |-> new, peer |-> q]
        /\ \A r \in Peers : r # p => job'[r] = job[r]
    BY <1>1, <1>3, StateDomains
  <2> QED BY <1>3, <2>1 DEF new
<1> QED BY <1>2, <1>3

\* What taking up a connection does.
LEMMA OnConnectEffect ==
    ASSUME PeerTypeOK, NEW p \in Peers, NEW q \in Neighbours(p), OnConnect(p, q)
    PROVE  LET old == info[p][q]
               e == Head(inbox[p][q]).epoch
           IN  /\ PeerTypeOK' /\ inbox[p][q] # <<>> /\ Head(inbox[p][q]).type = "connect" /\ e \in Nat
               /\ job[p].step = "idle"
              
               /\ info'[p][q] = NewInfo(e) /\ inbox'[p][q] = Tail(inbox[p][q])
               /\ old.sync.on => strays'[p][q] = strays[p][q] \cup {old}
               /\ ~old.sync.on => strays'[p][q] = strays[p][q]
               /\ Up(p, q) => inbox'[q][p] = Append(inbox[q][p], SyncFrom(cursor[p]))
               /\ ~Up(p, q) => inbox'[q][p] = inbox[q][p]
               /\ \A r \in Peers : \A t \in Neighbours(r) :
                    /\ ~(r = p /\ t = q) => info'[r][t] = info[r][t] /\ strays'[r][t] = strays[r][t]
                    /\ ~(r = p /\ t = q) /\ ~(r = q /\ t = p) => inbox'[r][t] = inbox[r][t]
                    /\ open'[r][t] = (open[r][t] \/ (p # Server /\ r = p /\ t = q))
<1> DEFINE old == info[p][q]
           e == Head(inbox[p][q]).epoch
           g == Consumed(p, q)
           more == Append(inbox[q][p], SyncFrom(cursor[p]))
           fresh == NewInfo(e)
           up == Up(p, q)
<1>1. /\ inbox[p][q] # <<>> /\ inbox[p][q] \in Seq(Messages) /\ Head(inbox[p][q]).type = "connect"
      /\ job[p].step = "idle"
      /\ q \in Peers /\ q # p /\ p \in Neighbours(q) /\ inbox[q][p] \in Seq(Messages)
  BY StateTypes, NeighbourFacts DEF OnConnect, Next1, IsIdle
<1>2. e \in Nat
  BY <1>1, HeadFacts, MessageFields
<1>3. /\ old \in Infos /\ old.sync.on \in BOOLEAN /\ strays[p][q] \in SUBSET Infos
      /\ up \in BOOLEAN /\ open[p][q] \in BOOLEAN
  <2>1. Link(p, q) \in Neighbours(Server) /\ Server \in Peers
    BY NeighbourFacts, ClientFacts, PeersAreNumbers
  <2> QED BY <2>1, StateTypes, InfoFields DEF Up
<1>4. fresh \in Infos
  BY <1>2, InfoTypes
<1>5. more \in Seq(Messages)
  BY <1>1, StateTypes, MessageTypes, AppendFacts
<1>6. /\ open' = [open EXCEPT ![p][q] = open[p][q] \/ p # Server]
      /\ (old.sync.on => strays' = [strays EXCEPT ![p][q] = strays[p][q] \cup {old}])
      /\ (~old.sync.on => strays' = strays)
      /\ info' = [info EXCEPT ![p][q] = fresh]
      /\ (up => inbox' = [g EXCEPT ![q][p] = Append(g[q][p], SyncFrom(cursor[p]))])
      /\ (~up => inbox' = g)
      /\ UNCHANGED <<durable, cursor, job, epoch, breaks, overlooked, guessed>>
      /\ strayed' \in BOOLEAN
  <2> USE DEF OnConnect, Up
  <2>1. CASE up BY <2>1 DEF PeerTypeOK
  <2>2. CASE ~up BY <2>2 DEF PeerTypeOK
  <2> QED BY <2>1, <2>2
<1>7. /\ Table(g, Seq(Messages))
      /\ \A r \in Peers : \A t \in Neighbours(r) :
            g[r][t] = IF r = p /\ t = q THEN Tail(inbox[p][q]) ELSE inbox[r][t]
  BY <1>1, ConsumedFacts
<1> HIDE DEF old, e, g, fresh, up
<1>8. g[q][p] = inbox[q][p]
  BY <1>1, <1>7
<1>9. Table(inbox', Seq(Messages))
  <2> DEFINE S == Seq(Messages)
  <2>1. more \in S /\ Table(g, S)
    BY <1>5, <1>7
  <2>2. CASE up
    <3>1. inbox' = [g EXCEPT ![q][p] = more]
      BY <2>2, <1>6, <1>8
    <3>2. q \in Peers /\ p \in Neighbours(q)
      BY <1>1
    <3>3. Table(inbox', S)
      <4> HIDE DEF S, more
      <4> QED BY <2>1, <3>1, <3>2, TableUpdate
    <3> QED BY <3>3
  <2>3. CASE ~up
    BY <2>1, <2>3, <1>6
  <2> QED BY <2>2, <2>3, <1>3
<1>10. \A r \in Peers : \A t \in Neighbours(r) :
         inbox'[r][t] = IF r = p /\ t = q THEN Tail(inbox[p][q])
                        ELSE IF r = q /\ t = p /\ up THEN more ELSE inbox[r][t]
  <2>1. CASE up
    <3>1. inbox' = [g EXCEPT ![q][p] = more]
      BY <2>1, <1>6, <1>8
    <3>2. DOMAIN g = Peers /\ \A r \in Peers : DOMAIN g[r] = Neighbours(r)
      BY <1>7, TableDomains
    <3> HIDE DEF more
    <3>3. \A r \in Peers : \A t \in Neighbours(r) :
            inbox'[r][t] = IF r = q /\ t = p THEN more ELSE g[r][t]
      BY <3>1, <3>2, <1>1
    <3> QED BY <3>3, <1>1, <1>7, <2>1
  <2>2. CASE ~up
    BY <2>2, <1>6, <1>7
  <2> QED BY <2>1, <2>2, <1>3
<1> HIDE DEF more
<1>11. \A r \in Peers : \A t \in Neighbours(r) :
         /\ info'[r][t] = IF r = p /\ t = q THEN fresh ELSE info[r][t]
         /\ strays'[r][t] = IF r = p /\ t = q /\ old.sync.on
                            THEN strays[p][q] \cup {old} ELSE strays[r][t]
  <2>1. CASE old.sync.on
    <3>1. strays' = [strays EXCEPT ![p][q] = strays[p][q] \cup {old}] /\ info' = [info EXCEPT ![p][q] = fresh]
      BY <2>1, <1>6
    <3>2. \A r \in Peers : \A t \in Neighbours(r) :
            /\ info'[r][t] = IF r = p /\ t = q THEN fresh ELSE info[r][t]
            /\ strays'[r][t] = IF r = p /\ t = q THEN strays[p][q] \cup {old} ELSE strays[r][t]
      BY <3>1, StateDomains
    <3> QED BY <2>1, <3>2
  <2>2. CASE ~old.sync.on
    BY <2>2, <1>6, StateDomains
  <2> QED BY <2>1, <2>2, <1>3
<1>12. Table(info', Infos) /\ Table(strays', SUBSET Infos)
  <2>1. Table(info, Infos) /\ Table(strays, SUBSET Infos)
    BY DEF PeerTypeOK
  <2>2. Table(info', Infos)
    BY <2>1, <1>4, <1>6, TableUpdate
  <2> DEFINE S == SUBSET Infos
             x == strays[p][q] \cup {old}
  <2>3. x \in S /\ Table(strays, S)
    BY <2>1, <1>3
  <2>4. old.sync.on => strays' = [strays EXCEPT ![p][q] = x]
    BY <1>6
  <2> HIDE DEF S, x
  <2>5. Table(strays', S)
    BY <2>3, <2>4, <1>3, <1>6, TableUpdate
  <2> QED BY <2>2, <2>5 DEF S
<1>13. /\ Table(open', BOOLEAN)
       /\ \A r \in Peers : \A t \in Neighbours(r) :
            open'[r][t] = (open[r][t] \/ (p # Server /\ r = p /\ t = q))
  <2> DEFINE S == BOOLEAN
             x == open[p][q] \/ p # Server
  <2>1. x \in S /\ Table(open, S)
    BY DEF PeerTypeOK
  <2>2. open' = [open EXCEPT ![p][q] = x]
    BY <1>6
  <2>3. Table(open', S)
    <3> HIDE DEF S, x
    <3> QED BY <2>1, <2>2, TableUpdate
  <2>4. \A r \in Peers : \A t \in Neighbours(r) :
            open'[r][t] = (open[r][t] \/ (p # Server /\ r = p /\ t = q))
    <3>1. ASSUME NEW r \in Peers, NEW t \in Neighbours(r)
          PROVE  open'[r][t] = (open[r][t] \/ (p # Server /\ r = p /\ t = q))
      <4>0. open[r][t] \in BOOLEAN
        BY StateTypes
      <4>1. CASE r = p /\ t = q
        BY <4>0, <4>1, <2>2, StateDomains
      <4>2. CASE ~(r = p /\ t = q)
        BY <4>0, <4>2, <2>2, StateDomains
      <4> QED BY <4>1, <4>2
    <3> QED BY <3>1
  <2> QED BY <2>3, <2>4
<1>14. PeerTypeOK'
  BY <1>6, <1>9, <1>12, <1>13 DEF PeerTypeOK, durable
<1>15. /\ inbox'[p][q] = Tail(inbox[p][q])
       /\ (up => inbox'[q][p] = more) /\ (~up => inbox'[q][p] = inbox[q][p])
       /\ \A r \in Peers : \A t \in Neighbours(r) :
            ~(r = p /\ t = q) /\ ~(r = q /\ t = p) => inbox'[r][t] = inbox[r][t]
  BY <1>1, <1>10
<1>16. /\ info'[p][q] = fresh
       /\ (old.sync.on => strays'[p][q] = strays[p][q] \cup {old})
       /\ (~old.sync.on => strays'[p][q] = strays[p][q])
       /\ \A r \in Peers : \A t \in Neighbours(r) : ~(r = p /\ t = q) =>
            info'[r][t] = info[r][t] /\ strays'[r][t] = strays[r][t]
  BY <1>11
<1> QED BY <1>1, <1>2, <1>13, <1>14, <1>15, <1>16 DEF old, e, more, fresh, up

\* The PeerInfo of q when the running syncPeer is cancelled, and when one starts.
AfterCancel(p, q) == [info[p][q] EXCEPT !.sync = [info[p][q].sync EXCEPT !.cancel = TRUE]]
Asked(p, q) == {s \in Peers : cursor[p][s] > 0 \/ Head(inbox[p][q]).cursor[s] > 0}
AfterSync(p, q) ==
    LET theirs == Head(inbox[p][q]).cursor
    IN IF info[p][q].known
       THEN [info[p][q] EXCEPT
                !.cursor = theirs,
                !.sync = [NoSync EXCEPT !.on = TRUE, !.sites = Asked(p, q), !.from = theirs]]
       ELSE info[p][q]

\* Cancelling marks the syncPeer and changes nothing else.
LEMMA AfterCancelFacts ==
    ASSUME PeerTypeOK, NEW p \in Peers, NEW q \in Neighbours(p)
    PROVE  LET i == info[p][q]
               j == AfterCancel(p, q)
           IN  /\ j \in Infos
               /\ j.known = i.known /\ j.epoch = i.epoch /\ j.active = i.active
               /\ j.cursor = i.cursor /\ j.pending = i.pending
               /\ j.sync.on = i.sync.on /\ j.sync.cancel = TRUE /\ j.sync.sites = i.sync.sites
               /\ j.sync.from = i.sync.from /\ j.sync.offset = i.sync.offset
<1> DEFINE i == info[p][q]
           s == [i.sync EXCEPT !.cancel = TRUE]
           j == AfterCancel(p, q)
<1>1. i \in Infos /\ i.sync \in Syncs
  BY StateTypes, InfoFields
<1>2. j = [i EXCEPT !.sync = s]
  BY DEF AfterCancel
<1> HIDE DEF i, j
<1>3. s \in Syncs /\ s.on = i.sync.on /\ s.cancel = TRUE /\ s.sites = i.sync.sites
      /\ s.from = i.sync.from /\ s.offset = i.sync.offset
  BY <1>1 DEF Syncs
<1> HIDE DEF s
<1>4. j \in Infos /\ j.known = i.known /\ j.epoch = i.epoch /\ j.active = i.active
      /\ j.cursor = i.cursor /\ j.pending = i.pending /\ j.sync = s
  BY <1>1, <1>2, <1>3 DEF Infos
<1> QED BY <1>3, <1>4 DEF i, j

\* What waiting for a cancelled syncPeer does.
LEMMA CancelEffect ==
    ASSUME PeerTypeOK, NEW p \in Peers, NEW q \in Neighbours(p), Cancel(p, q)
    PROVE  /\ PeerTypeOK'
           /\ job'[p] = [Idle EXCEPT !.step = "waiting", !.peer = q]
           /\ \A r \in Peers : r # p => job'[r] = job[r]
           /\ info'[p][q] = AfterCancel(p, q)
           /\ \A r \in Peers : \A t \in Neighbours(r) : ~(r = p /\ t = q) => info'[r][t] = info[r][t]
<1> DEFINE after == AfterCancel(p, q)
           wait == [Idle EXCEPT !.step = "waiting", !.peer = q]
<1>1. /\ info' = [info EXCEPT ![p][q] = after]
      /\ job' = [job EXCEPT ![p] = wait]
      /\ UNCHANGED <<durable, cursor, strays, net, ghosts>>
  BY DEF Cancel, AfterCancel
<1>2. wait \in Jobs /\ after \in Infos
  BY NeighbourFacts, AfterCancelFacts DEF Idle, Jobs
<1> HIDE DEF wait, after
<1>3. Table(info', Infos)
  <2>1. Table(info, Infos)
    BY DEF PeerTypeOK
  <2> QED BY <2>1, <1>1, <1>2, TableUpdate
<1>4. /\ info'[p][q] = after
      /\ \A r \in Peers : \A t \in Neighbours(r) : ~(r = p /\ t = q) => info'[r][t] = info[r][t]
  BY <1>1, StateDomains
<1>5. job'[p] = wait /\ \A r \in Peers : r # p => job'[r] = job[r]
  BY <1>1, StateDomains
<1>6. PeerTypeOK'
  BY <1>1, <1>2, <1>3 DEF PeerTypeOK, durable, net, ghosts
<1> QED BY <1>4, <1>5, <1>6 DEF wait, after

\* The PeerInfo of a peer that has asked.
LEMMA AfterSyncFacts ==
    ASSUME PeerTypeOK, NEW p \in Peers, NEW q \in Neighbours(p), inbox[p][q] # <<>>
    PROVE  LET i == info[p][q]
               j == AfterSync(p, q)
               theirs == Head(inbox[p][q]).cursor
           IN  /\ j \in Infos /\ theirs \in Cursors
               /\ j.known = i.known /\ j.epoch = i.epoch /\ j.active = i.active
               /\ j.pending = i.pending
               /\ i.known => /\ j.cursor = theirs /\ j.sync.from = theirs
                             /\ j.sync.on = TRUE /\ j.sync.cancel = FALSE /\ j.sync.offset = 0
                             /\ j.sync.sites = Asked(p, q)
               /\ ~i.known => j = i
<1> DEFINE i == info[p][q]
           theirs == Head(inbox[p][q]).cursor
           sites == Asked(p, q)
           s == [NoSync EXCEPT !.on = TRUE, !.sites = sites, !.from = theirs]
           j == AfterSync(p, q)
<1>1. i \in Infos /\ i.known \in BOOLEAN
  BY StateTypes, InfoFields
<1>2. theirs \in Cursors
  BY StateTypes, HeadFacts, MessageFields
<1>3. j = IF i.known THEN [i EXCEPT !.cursor = theirs, !.sync = s] ELSE i
  BY DEF AfterSync
<1>4. sites \in SUBSET Peers
  BY DEF Asked
<1> HIDE DEF i, j, sites, theirs
<1>5. s \in Syncs /\ s.on = TRUE /\ s.cancel = FALSE /\ s.sites = sites
      /\ s.from = theirs /\ s.offset = 0
  BY <1>2, <1>4 DEF Syncs, NoSync
<1> HIDE DEF s
<1>6. j \in Infos /\ j.known = i.known /\ j.epoch = i.epoch /\ j.active = i.active
      /\ j.pending = i.pending /\ (i.known => j.cursor = theirs /\ j.sync = s)
      /\ (~i.known => j = i)
  BY <1>1, <1>2, <1>3, <1>5 DEF Infos
<1> QED BY <1>2, <1>5, <1>6 DEF i, j, sites, theirs

\* What answering a sync does.
LEMMA OnSyncEffect ==
    ASSUME PeerTypeOK, NEW p \in Peers, NEW q \in Neighbours(p), OnSync(p, q)
    PROVE  /\ PeerTypeOK'
           /\ job'[p] = Idle /\ \A r \in Peers : r # p => job'[r] = job[r]
           /\ info'[p][q] = AfterSync(p, q) /\ inbox'[p][q] = Tail(inbox[p][q])
           /\ \A r \in Peers : \A t \in Neighbours(r) : ~(r = p /\ t = q) =>
                info'[r][t] = info[r][t] /\ inbox'[r][t] = inbox[r][t]
<1> DEFINE known == info[p][q].known
           after == AfterSync(p, q)
<1>1. /\ known => info' = [info EXCEPT ![p][q] = after]
      /\ ~known => info' = info /\ after = info[p][q]
      /\ job' = [job EXCEPT ![p] = Idle]
      /\ inbox' = Consumed(p, q)
      /\ UNCHANGED <<durable, cursor, strays, open, epoch, breaks, ghosts>>
      /\ inbox[p][q] # <<>>
  <2> USE DEF OnSync, AfterSync, Next1
  <2>1. inbox[p][q] # <<>> /\ job' = [job EXCEPT ![p] = Idle] /\ inbox' = Consumed(p, q)
        /\ UNCHANGED <<durable, cursor, strays, open, epoch, breaks, ghosts>>
    OBVIOUS
  <2>2. ~known => info' = info /\ after = info[p][q]
    OBVIOUS
  <2>3. known => info' = [info EXCEPT ![p][q] = after]
    BY DEF Asked
  <2> QED BY <2>1, <2>2, <2>3
<1>2. known \in BOOLEAN /\ after \in Infos
  BY <1>1, StateTypes, InfoFields, AfterSyncFacts
<1> HIDE DEF known, after
<1>3. Table(info', Infos)
  <2>1. Table(info, Infos)
    BY DEF PeerTypeOK
  <2> QED BY <2>1, <1>1, <1>2, TableUpdate
<1>4. /\ info'[p][q] = after
      /\ \A r \in Peers : \A t \in Neighbours(r) : ~(r = p /\ t = q) => info'[r][t] = info[r][t]
  <2>1. CASE known
    BY <2>1, <1>1, StateDomains
  <2>2. CASE ~known
    BY <2>2, <1>1
  <2> QED BY <2>1, <2>2, <1>2
<1>5. job'[p] = Idle /\ \A r \in Peers : r # p => job'[r] = job[r]
  BY <1>1, StateDomains
<1>6. /\ Table(inbox', Seq(Messages))
      /\ \A r \in Peers : \A t \in Neighbours(r) :
            inbox'[r][t] = IF r = p /\ t = q THEN Tail(inbox[p][q]) ELSE inbox[r][t]
  BY <1>1, ConsumedFacts
<1>7. PeerTypeOK'
  BY <1>1, <1>3, <1>6, InfoTypes DEF PeerTypeOK, durable, ghosts
<1>8. /\ inbox'[p][q] = Tail(inbox[p][q])
      /\ \A r \in Peers : \A t \in Neighbours(r) : ~(r = p /\ t = q) => inbox'[r][t] = inbox[r][t]
  BY <1>6
<1> QED BY <1>4, <1>5, <1>7, <1>8 DEF after

\* What a turn of syncPeer does.
LEMMA SyncTurnEffect ==
    ASSUME PeerTypeOK, NEW p \in Peers, NEW q \in Neighbours(p), SyncTurn(p, q)
    PROVE  LET i == info[p][q]
               cur == Advance(i.cursor, Told(p, i))
           IN  /\ PeerTypeOK' /\ i.sync.on /\ Told(p, i) \in SUBSET Changes /\ cur \in Cursors
               /\ info'[p][q] = AfterTurn(p, i, cur)
               /\ Reaches(p, q) => inbox'[q][p] = inbox[q][p] \o Turn(p, i)
               /\ ~Reaches(p, q) => inbox'[q][p] = inbox[q][p]
               /\ \A r \in Peers : \A t \in Neighbours(r) :
                    /\ ~(r = p /\ t = q) => info'[r][t] = info[r][t]
                    /\ ~(r = q /\ t = p) => inbox'[r][t] = inbox[r][t]
<1> DEFINE i == info[p][q]
           cur == Advance(i.cursor, Told(p, i))
           after == AfterTurn(p, i, cur)
           turn == Turn(p, i)
<1>1. i \in Infos /\ i.cursor \in Cursors
  BY StateTypes, InfoFields
<1>2. /\ info' = [info EXCEPT ![p][q] = after]
      /\ inbox' = Sent(inbox, p, [Quiet(p) EXCEPT ![q] = turn])
      /\ UNCHANGED <<durable, cursor, job, strays, open, epoch, breaks, overlooked, guessed>>
      /\ i.sync.on /\ strayed' \in BOOLEAN
  BY DEF SyncTurn, PeerTypeOK
<1>3. Told(p, i) \in SUBSET Changes /\ turn \in Seq(Messages)
  BY <1>1, TurnFacts
<1>4. cur \in Cursors
  BY <1>1, <1>3, AdvanceFacts
<1> HIDE DEF i, cur, turn
<1>5. after \in Infos
  BY <1>1, <1>4, AfterTurnType
<1> HIDE DEF after
<1>6. Table(info', Infos)
  <2>1. Table(info, Infos)
    BY DEF PeerTypeOK
  <2> QED BY <2>1, <1>2, <1>5, TableUpdate
<1>7. \A r \in Peers : \A t \in Neighbours(r) :
        info'[r][t] = IF r = p /\ t = q THEN after ELSE info[r][t]
  BY <1>2, StateDomains
<1>8. /\ Table(inbox', Seq(Messages))
      /\ \A r \in Peers : \A t \in Neighbours(r) :
            inbox'[r][t] = IF r = q /\ t = p /\ Reaches(p, q)
                           THEN inbox[q][p] \o turn ELSE inbox[r][t]
  <2> DEFINE each == [Quiet(p) EXCEPT ![q] = turn]
  <2>1. inbox' = Sent(inbox, p, each)
    BY <1>2
  <2>2. \A r \in Neighbours(p) : each[r] = IF r = q THEN turn ELSE <<>>
    BY DEF Quiet
  <2> HIDE DEF each
  <2>3. /\ Table(Sent(inbox, p, each), Seq(Messages))
        /\ \A r \in Peers : \A t \in Neighbours(r) :
            Sent(inbox, p, each)[r][t] = IF r = q /\ t = p /\ Reaches(p, q)
                                         THEN inbox[q][p] \o turn ELSE inbox[r][t]
    BY <2>2, <1>3, SentTo
  <2> QED BY <2>1, <2>3
<1>9. PeerTypeOK'
  BY <1>2, <1>6, <1>8 DEF PeerTypeOK, durable
<1>10. /\ info'[p][q] = after
       /\ \A r \in Peers : \A t \in Neighbours(r) : ~(r = p /\ t = q) => info'[r][t] = info[r][t]
  BY <1>7
<1>11. /\ Reaches(p, q) => inbox'[q][p] = inbox[q][p] \o turn
       /\ ~Reaches(p, q) => inbox'[q][p] = inbox[q][p]
       /\ \A r \in Peers : \A t \in Neighbours(r) : ~(r = q /\ t = p) => inbox'[r][t] = inbox[r][t]
  BY <1>8, NeighbourFacts
<1> QED BY <1>2, <1>3, <1>4, <1>9, <1>10, <1>11 DEF i, cur, after, turn

\* The PeerInfo of q, and the older runs, when the one of i took a turn.
AfterStray(p, q, i) ==
    IF info[p][q].known
    THEN [info[p][q] EXCEPT !.cursor = Advance(info[p][q].cursor, Told(p, i))]
    ELSE info[p][q]
StraysLeft(p, q, i) ==
    (strays[p][q] \ {i}) \cup (IF IsLast(p, i.sync) THEN {} ELSE {AfterTurn(p, i, i.cursor)})

\* A turn of an old syncPeer only moves the cursor kept of the peer.
LEMMA AfterStrayFacts ==
    ASSUME PeerTypeOK, NEW p \in Peers, NEW q \in Neighbours(p), NEW i \in strays[p][q]
    PROVE  LET k == info[p][q]
               j == AfterStray(p, q, i)
           IN  /\ j \in Infos /\ Told(p, i) \in SUBSET Changes
               /\ j.known = k.known /\ j.epoch = k.epoch /\ j.active = k.active
               /\ j.pending = k.pending /\ j.sync = k.sync
               /\ j.cursor = IF k.known THEN Advance(k.cursor, Told(p, i)) ELSE k.cursor
<1> DEFINE k == info[p][q]
           cur == Advance(k.cursor, Told(p, i))
           j == AfterStray(p, q, i)
<1>1. k \in Infos /\ k.cursor \in Cursors /\ k.known \in BOOLEAN /\ i \in Infos
  BY StateTypes, InfoFields
<1>2. Told(p, i) \in SUBSET Changes
  BY <1>1, TurnFacts
<1>3. cur \in Cursors
  BY <1>1, <1>2, AdvanceFacts
<1>4. j = IF k.known THEN [k EXCEPT !.cursor = cur] ELSE k
  BY DEF AfterStray
<1> HIDE DEF k, cur, j
<1>5. /\ j \in Infos /\ j.known = k.known /\ j.epoch = k.epoch /\ j.active = k.active
      /\ j.pending = k.pending /\ j.sync = k.sync
      /\ j.cursor = IF k.known THEN cur ELSE k.cursor
  BY <1>1, <1>3, <1>4 DEF Infos
<1> QED BY <1>2, <1>5 DEF k, cur, j

\* What a turn of an old syncPeer does.
LEMMA StrayTurnEffect ==
    ASSUME PeerTypeOK, NEW p \in Peers, NEW q \in Neighbours(p), StrayTurn(p, q)
    PROVE  \E i \in strays[p][q] :
               /\ PeerTypeOK'
               /\ strayed' = (strayed \/ TurnStrays(p, q, i))
               /\ info'[p][q] = AfterStray(p, q, i) /\ strays'[p][q] = StraysLeft(p, q, i)
               /\ Reaches(p, q) => inbox'[q][p] = inbox[q][p] \o Turn(p, i)
               /\ ~Reaches(p, q) => inbox'[q][p] = inbox[q][p]
               /\ \A r \in Peers : \A t \in Neighbours(r) :
                    /\ ~(r = p /\ t = q) => info'[r][t] = info[r][t] /\ strays'[r][t] = strays[r][t]
                    /\ ~(r = q /\ t = p) => inbox'[r][t] = inbox[r][t]
<1>1. PICK i \in strays[p][q] :
        /\ inbox' = Sent(inbox, p, [Quiet(p) EXCEPT ![q] = Turn(p, i)])
        /\ info' = IF info[p][q].known
                   THEN [info EXCEPT ![p][q].cursor = Advance(@, Told(p, i))] ELSE info
        /\ strays' = [strays EXCEPT ![p][q] =
             (@ \ {i}) \cup (IF IsLast(p, i.sync) THEN {} ELSE {AfterTurn(p, i, i.cursor)})]
        /\ strayed' = (strayed \/ TurnStrays(p, q, i))
        /\ UNCHANGED <<durable, cursor, job, open, epoch, breaks, overlooked, guessed>>
  BY DEF StrayTurn
<1> DEFINE known == info[p][q].known
           after == AfterStray(p, q, i)
           kept == StraysLeft(p, q, i)
           turn == Turn(p, i)
<1>2. /\ known \in BOOLEAN /\ after \in Infos
      /\ i \in Infos /\ i.cursor \in Cursors /\ strays[p][q] \in SUBSET Infos
  BY StateTypes, InfoFields, AfterStrayFacts
<1>3. turn \in Seq(Messages)
  BY <1>2, TurnFacts
<1>4. kept \in SUBSET Infos
  <2>1. AfterTurn(p, i, i.cursor) \in Infos
    BY <1>2, AfterTurnType
  <2> QED BY <2>1, <1>2 DEF StraysLeft
<1>5. /\ known => info' = [info EXCEPT ![p][q] = after]
      /\ ~known => info' = info /\ after = info[p][q]
      /\ strays' = [strays EXCEPT ![p][q] = kept]
      /\ inbox' = Sent(inbox, p, [Quiet(p) EXCEPT ![q] = turn])
      /\ strayed' = (strayed \/ TurnStrays(p, q, i))
      /\ UNCHANGED <<durable, cursor, job, open, epoch, breaks, overlooked, guessed>>
  BY <1>1 DEF AfterStray, StraysLeft
<1> HIDE DEF known, after, kept, turn
<1>6. Table(info', Infos)
  <2>1. Table(info, Infos)
    BY DEF PeerTypeOK
  <2> QED BY <2>1, <1>2, <1>5, TableUpdate
<1>7. Table(strays', SUBSET Infos)
  <2> DEFINE S == SUBSET Infos
  <2>1. Table(strays, S) /\ kept \in S
    BY <1>4 DEF PeerTypeOK
  <2>2. Table(strays', S)
    <3> HIDE DEF S
    <3> QED BY <2>1, <1>5, TableUpdate
  <2> QED BY <2>2
<1>8. /\ Table(inbox', Seq(Messages))
      /\ \A r \in Peers : \A t \in Neighbours(r) :
            inbox'[r][t] = IF r = q /\ t = p /\ Reaches(p, q)
                           THEN inbox[q][p] \o turn ELSE inbox[r][t]
  <2> DEFINE each == [Quiet(p) EXCEPT ![q] = turn]
  <2>1. inbox' = Sent(inbox, p, each)
    BY <1>5
  <2>2. \A r \in Neighbours(p) : each[r] = IF r = q THEN turn ELSE <<>>
    BY DEF Quiet
  <2> HIDE DEF each
  <2>3. /\ Table(Sent(inbox, p, each), Seq(Messages))
        /\ \A r \in Peers : \A t \in Neighbours(r) :
            Sent(inbox, p, each)[r][t] = IF r = q /\ t = p /\ Reaches(p, q)
                                         THEN inbox[q][p] \o turn ELSE inbox[r][t]
    BY <2>2, <1>3, SentTo
  <2> QED BY <2>1, <2>3
<1>9. /\ info'[p][q] = after /\ strays'[p][q] = kept
      /\ \A r \in Peers : \A t \in Neighbours(r) : ~(r = p /\ t = q) =>
            info'[r][t] = info[r][t] /\ strays'[r][t] = strays[r][t]
  <2>1. CASE known
    BY <2>1, <1>5, StateDomains
  <2>2. CASE ~known
    BY <2>2, <1>5, StateDomains
  <2> QED BY <2>1, <2>2, <1>2
<1>10. PeerTypeOK'
  <2>1. strayed' \in BOOLEAN
    BY <1>5 DEF PeerTypeOK
  <2> QED BY <2>1, <1>5, <1>6, <1>7, <1>8 DEF PeerTypeOK, durable
<1>11. /\ Reaches(p, q) => inbox'[q][p] = inbox[q][p] \o turn
       /\ ~Reaches(p, q) => inbox'[q][p] = inbox[q][p]
       /\ \A r \in Peers : \A t \in Neighbours(r) : ~(r = q /\ t = p) => inbox'[r][t] = inbox[r][t]
  BY <1>8, NeighbourFacts
<1> QED BY <1>5, <1>9, <1>10, <1>11 DEF after, kept, turn

\* A way between two peers opens or closes.
LEMMA WayUpdate ==
    ASSUME NEW f, Table(f, BOOLEAN), NEW p \in Peers, NEW q \in Neighbours(p), NEW x, x \in BOOLEAN,
           NEW g, g = [f EXCEPT ![p][q] = x]
    PROVE  Table(g, BOOLEAN)
<1> DEFINE S == BOOLEAN
<1>1. Table(f, S) /\ x \in S
  OBVIOUS
<1>2. Table(g, S)
  <2> HIDE DEF S
  <2> QED BY <1>1, TableUpdate
<1> QED BY <1>2

\* The two inboxes of a connection change.
LEMMA BothInboxes ==
    ASSUME PeerTypeOK, NEW c \in Clients, NEW s, NEW k, s \in Seq(Messages), k \in Seq(Messages)
    PROVE  /\ Table(BothEnds(c, s, k), Seq(Messages))
           /\ BothEnds(c, s, k)[Server][c] = s /\ BothEnds(c, s, k)[c][Server] = k
           /\ \A r \in Peers : \A t \in Neighbours(r) :
                Link(r, t) # c => BothEnds(c, s, k)[r][t] = inbox[r][t]
<1>1. /\ c \in Peers /\ Server \in Peers /\ c # Server
      /\ Server \in Neighbours(c) /\ c \in Neighbours(Server)
  BY ClientFacts, PeersAreNumbers
<1> DEFINE S == Seq(Messages)
           f == [inbox EXCEPT ![Server][c] = s]
           g == [f EXCEPT ![c][Server] = k]
<1>2. Table(inbox, S) /\ s \in S /\ k \in S
  BY DEF PeerTypeOK
<1>3. Table(f, S)
  <2> DEFINE h == f
  <2>1. h = [inbox EXCEPT ![Server][c] = s]
    OBVIOUS
  <2> HIDE DEF S, h
  <2>2. Table(h, S)
    BY <1>1, <1>2, <2>1, TableUpdate
  <2> QED BY <2>2 DEF h
<1>4. Table(g, S)
  <2> DEFINE h == g
  <2>1. h = [f EXCEPT ![c][Server] = k]
    OBVIOUS
  <2> HIDE DEF S, h, f
  <2>2. Table(h, S)
    BY <1>1, <1>2, <1>3, <2>1, TableUpdate
  <2> QED BY <2>2 DEF h
<1>5. /\ g[Server][c] = s /\ g[c][Server] = k
      /\ \A r \in Peers : \A t \in Neighbours(r) :
            ~(r = Server /\ t = c) /\ ~(r = c /\ t = Server) => g[r][t] = inbox[r][t]
  BY <1>1, StateDomains
<1>6. \A r \in Peers : \A t \in Neighbours(r) :
        Link(r, t) # c => ~(r = Server /\ t = c) /\ ~(r = c /\ t = Server)
  BY ClientFacts
<1>7. g = BothEnds(c, s, k)
  BY DEF BothEnds
<1> HIDE DEF f, g
<1> QED BY <1>4, <1>5, <1>6, <1>7

\* Who is at the two ends of a connection.
LEMMA Ends ==
    ASSUME NEW c \in Clients, NEW r \in Peers, NEW t \in Neighbours(r)
    PROVE  Link(r, t) = c <=> (r = Server /\ t = c) \/ (r = c /\ t = Server)
BY NeighbourFacts, ClientFacts DEF Link

\* What opening a stream does.
LEMMA OpenEffect ==
    ASSUME PeerTypeOK, NEW c \in Clients, Open(c)
    PROVE  LET e == epoch[c] + 1
           IN  /\ PeerTypeOK' /\ e \in Nat
               /\ ~open[Server][c]
               /\ \A k \in DOMAIN inbox[c][Server] : inbox[c][Server][k].type # "connect"
               /\ epoch'[c] = e
               /\ \A d \in Clients : /\ d # c => epoch'[d] = epoch[d]
                                     /\ open'[Server][d] = (d = c \/ open[Server][d])
                                     /\ open'[d][Server] = open[d][Server]
               /\ \A r \in Peers : \A t \in Neighbours(r) :
                    /\ Link(r, t) = c => inbox'[r][t] = Append(inbox[r][t], Connect(e))
                    /\ Link(r, t) # c => inbox'[r][t] = inbox[r][t]
<1> DEFINE e == epoch[c] + 1
           a == Append(inbox[Server][c], Connect(e))
           b == Append(inbox[c][Server], Connect(e))
<1>1. /\ c \in Peers /\ Server \in Peers /\ c # Server
      /\ Server \in Neighbours(c) /\ c \in Neighbours(Server)
  BY ClientFacts, PeersAreNumbers
<1>2. epoch[c] \in Nat /\ e \in Nat
  BY DEF PeerTypeOK
<1>3. /\ ~open[Server][c]
      /\ \A m \in Range(inbox[c][Server]) : m.type # "connect"
      /\ epoch' = [epoch EXCEPT ![c] = e]
      /\ open' = [open EXCEPT ![Server][c] = TRUE]
      /\ inbox' = BothEnds(c, Append(inbox[Server][c], Connect(epoch'[c])),
                              Append(inbox[c][Server], Connect(epoch'[c])))
      /\ UNCHANGED <<durable, memory, breaks, ghosts>>
  BY DEF Open
<1>4. epoch'[c] = e
  BY <1>3, StateDomains
<1>5. inbox' = BothEnds(c, a, b)
  BY <1>3, <1>4
<1>6. a \in Seq(Messages) /\ b \in Seq(Messages)
  BY <1>1, <1>2, StateTypes, MessageTypes, AppendFacts
<1> HIDE DEF a, b, e
<1>7. /\ Table(inbox', Seq(Messages))
      /\ inbox'[Server][c] = a /\ inbox'[c][Server] = b
      /\ \A r \in Peers : \A t \in Neighbours(r) : Link(r, t) # c => inbox'[r][t] = inbox[r][t]
  BY <1>5, <1>6, BothInboxes
<1>8. Table(open', BOOLEAN)
  BY <1>1, <1>3, WayUpdate DEF PeerTypeOK
<1>9. epoch' \in [Clients -> Nat]
  BY <1>2, <1>3 DEF PeerTypeOK
<1>10. PeerTypeOK'
  BY <1>3, <1>7, <1>8, <1>9 DEF PeerTypeOK, durable, memory, ghosts
<1>11. \A d \in Clients : /\ d # c => epoch'[d] = epoch[d]
                          /\ open'[Server][d] = (d = c \/ open[Server][d])
                          /\ open'[d][Server] = open[d][Server]
  <2>1. ASSUME NEW d \in Clients
        PROVE  /\ d # c => epoch'[d] = epoch[d]
               /\ open'[Server][d] = (d = c \/ open[Server][d])
               /\ open'[d][Server] = open[d][Server]
    <3>1. d # Server /\ d \in Peers /\ d \in Neighbours(Server) /\ open[Server][d] \in BOOLEAN
      BY <1>1, ClientFacts, StateTypes
    <3>2. (d # c => epoch'[d] = epoch[d]) /\ open'[d][Server] = open[d][Server]
      BY <1>1, <1>3, <3>1, StateDomains
    <3>3. open'[Server][d] = (d = c \/ open[Server][d])
      <4>1. CASE d = c
        BY <4>1, <1>1, <1>3, StateDomains
      <4>2. CASE d # c
        BY <4>2, <1>1, <1>3, <3>1, StateDomains
      <4> QED BY <4>1, <4>2
    <3> QED BY <3>2, <3>3
  <2> QED BY <2>1
<1>12. ASSUME NEW k \in DOMAIN inbox[c][Server] PROVE inbox[c][Server][k].type # "connect"
  <2>1. inbox[c][Server][k] \in Range(inbox[c][Server])
    BY DEF Range
  <2> QED BY <2>1, <1>3
<1>13. ASSUME NEW r \in Peers, NEW t \in Neighbours(r)
       PROVE  /\ Link(r, t) = c => inbox'[r][t] = Append(inbox[r][t], Connect(e))
              /\ Link(r, t) # c => inbox'[r][t] = inbox[r][t]
  <2>1. CASE r = Server /\ t = c
    BY <2>1, <1>7, ClientFacts DEF a
  <2>2. CASE r = c /\ t = Server
    BY <2>2, <1>7, ClientFacts DEF b
  <2>3. CASE Link(r, t) # c
    BY <2>3, <1>7
  <2> QED BY <2>1, <2>2, <2>3, Ends
<1> QED BY <1>2, <1>3, <1>4, <1>10, <1>11, <1>12, <1>13 DEF e

\* What hearing the connect does.
LEMMA HearEffect ==
    ASSUME PeerTypeOK, NEW c \in Clients, Hear(c)
    PROVE  /\ PeerTypeOK'
           /\ \A r \in Peers : \A t \in Neighbours(r) :
                open'[r][t] = (open[r][t] \/ (r = c /\ t = Server))
<1>1. /\ c \in Peers /\ Server \in Peers /\ c # Server /\ Server \in Neighbours(c)
  BY ClientFacts, PeersAreNumbers
<1>2. /\ open' = [open EXCEPT ![c][Server] = TRUE]
      /\ UNCHANGED <<durable, memory, inbox, epoch, breaks, ghosts>>
  BY DEF Hear
<1>3. Table(open', BOOLEAN)
  BY <1>1, <1>2, WayUpdate DEF PeerTypeOK
<1>4. ASSUME NEW r \in Peers, NEW t \in Neighbours(r)
      PROVE  open'[r][t] = (open[r][t] \/ (r = c /\ t = Server))
  <2>1. open[r][t] \in BOOLEAN
    BY StateTypes
  <2>2. CASE r = c /\ t = Server
    BY <2>2, <1>1, <1>2, StateDomains
  <2>3. CASE ~(r = c /\ t = Server)
    BY <2>1, <2>3, <1>1, <1>2, StateDomains
  <2> QED BY <2>2, <2>3
<1> QED BY <1>2, <1>3, <1>4 DEF PeerTypeOK, durable, memory, ghosts

\* What is left in an inbox when the connection breaks.
LEMMA LeftFacts ==
    ASSUME PeerTypeOK, NEW c \in Clients
    PROVE  /\ \A s \in LeftAtServer(c) : s \in Seq(Messages)
           /\ \A s \in LeftAtClient(c) : s \in Seq(Messages)
<1>1. inbox[Server][c] \in Seq(Messages) /\ inbox[c][Server] \in Seq(Messages)
  BY StateTypes, ClientFacts, PeersAreNumbers
<1>2. ASSUME NEW s \in LeftAtServer(c) PROVE s \in Seq(Messages)
  <2>1. PICK k \in 0 .. Len(inbox[Server][c]) : s = Append(SubSeq(inbox[Server][c], 1, k), Close)
    BY <1>2 DEF LeftAtServer
  <2>2. SubSeq(inbox[Server][c], 1, k) \in Seq(Messages)
    BY <1>1, PrefixFacts
  <2> QED BY <2>1, <2>2, AppendFacts, MessageTypes
<1>3. ASSUME NEW s \in LeftAtClient(c) PROVE s \in Seq(Messages)
  BY <1>1, <1>3, PrefixFacts DEF LeftAtClient
<1> QED BY <1>2, <1>3

\* What breaking a connection does.
LEMMA DropEffect ==
    ASSUME PeerTypeOK, NEW c \in Clients, Drop(c)
    PROVE  /\ PeerTypeOK' /\ open[Server][c]
           /\ \A d \in Clients : /\ open'[Server][d] = (d # c /\ open[Server][d])
                                 /\ open'[d][Server] = (d # c /\ open[d][Server])
           /\ inbox'[Server][c] \in LeftAtServer(c)
           /\ inbox'[c][Server] \in LeftAtClient(c)
           /\ \A r \in Peers : \A t \in Neighbours(r) : Link(r, t) # c => inbox'[r][t] = inbox[r][t]
<1>1. /\ c \in Peers /\ Server \in Peers /\ c # Server
      /\ Server \in Neighbours(c) /\ c \in Neighbours(Server)
  BY ClientFacts, PeersAreNumbers
<1>2. /\ open[Server][c] /\ breaks' = breaks + 1
      /\ open' = [open EXCEPT ![Server][c] = FALSE, ![c][Server] = FALSE]
      /\ UNCHANGED <<durable, memory, epoch, ghosts>>
  BY DEF Drop
<1>3. PICK s \in LeftAtServer(c), k \in LeftAtClient(c) :
        inbox' = BothEnds(c, s, k)
  BY DEF Drop
<1>4. s \in Seq(Messages) /\ k \in Seq(Messages)
  BY LeftFacts
<1>5. /\ Table(inbox', Seq(Messages))
      /\ inbox'[Server][c] = s /\ inbox'[c][Server] = k
      /\ \A r \in Peers : \A t \in Neighbours(r) : Link(r, t) # c => inbox'[r][t] = inbox[r][t]
  BY <1>3, <1>4, BothInboxes
<1>6. Table(open', BOOLEAN)
  <2> DEFINE f == [open EXCEPT ![Server][c] = FALSE]
  <2>1. Table(f, BOOLEAN)
    <3> DEFINE h == f
    <3>1. h = [open EXCEPT ![Server][c] = FALSE]
      OBVIOUS
    <3> HIDE DEF h
    <3>2. Table(h, BOOLEAN)
      BY <1>1, <3>1, WayUpdate DEF PeerTypeOK
    <3> QED BY <3>2 DEF h
  <2>2. open' = [f EXCEPT ![c][Server] = FALSE]
    BY <1>2
  <2> HIDE DEF f
  <2> QED BY <1>1, <2>1, <2>2, WayUpdate
<1>7. ASSUME NEW d \in Clients
      PROVE  /\ open'[Server][d] = (d # c /\ open[Server][d])
             /\ open'[d][Server] = (d # c /\ open[d][Server])
  <2>1. d # Server /\ d \in Peers /\ d \in Neighbours(Server) /\ Server \in Neighbours(d)
        /\ open[Server][d] \in BOOLEAN /\ open[d][Server] \in BOOLEAN
    BY <1>1, ClientFacts, StateTypes
  <2>2. CASE d = c
    BY <2>1, <2>2, <1>1, <1>2, StateDomains
  <2>3. CASE d # c
    BY <2>1, <2>3, <1>1, <1>2, StateDomains
  <2> QED BY <2>2, <2>3
<1>8. PeerTypeOK'
  BY <1>2, <1>5, <1>6 DEF PeerTypeOK, durable, memory, ghosts
<1> QED BY <1>2, <1>5, <1>7, <1>8

\* What forgetting a peer does.
LEMMA OnCloseEffect ==
    ASSUME PeerTypeOK, NEW c \in Clients, OnClose(c)
    PROVE  /\ PeerTypeOK' /\ ~info[Server][c].sync.on
           /\ inbox[Server][c] # <<>> /\ Head(inbox[Server][c]).type = "close"
           /\ job[Server].step = "idle" \/ (job[Server].step = "waiting" /\ job[Server].peer = c)
           /\ job'[Server] = Idle /\ \A r \in Peers : r # Server => job'[r] = job[r]
           /\ info'[Server][c] = NoInfo /\ inbox'[Server][c] = Tail(inbox[Server][c])
           /\ \A r \in Peers : \A t \in Neighbours(r) : ~(r = Server /\ t = c) =>
                info'[r][t] = info[r][t] /\ inbox'[r][t] = inbox[r][t]
<1>1. Server \in Peers /\ c \in Neighbours(Server)
  BY ClientFacts, PeersAreNumbers
<1>2. /\ info' = [info EXCEPT ![Server][c] = NoInfo]
      /\ inbox' = Consumed(Server, c)
      /\ job' = [job EXCEPT ![Server] = Idle]
      /\ UNCHANGED <<durable, cursor, strays, open, epoch, breaks, ghosts>>
      /\ ~info[Server][c].sync.on
      /\ inbox[Server][c] # <<>> /\ Head(inbox[Server][c]).type = "close"
      /\ job[Server].step = "idle" \/ (job[Server].step = "waiting" /\ job[Server].peer = c)
  BY DEF OnClose, MayHandle, Next1, IsIdle
<1>3. Table(info', Infos)
  <2>1. Table(info, Infos)
    BY DEF PeerTypeOK
  <2> QED BY <2>1, <1>1, <1>2, InfoTypes, TableUpdate
<1>4. /\ Table(inbox', Seq(Messages))
      /\ \A r \in Peers : \A t \in Neighbours(r) :
            inbox'[r][t] = IF r = Server /\ t = c THEN Tail(inbox[Server][c]) ELSE inbox[r][t]
  BY <1>1, <1>2, ConsumedFacts
<1>5. PeerTypeOK'
  BY <1>2, <1>3, <1>4, InfoTypes DEF PeerTypeOK, durable, ghosts
<1>6. /\ job'[Server] = Idle /\ \A r \in Peers : r # Server => job'[r] = job[r]
      /\ info'[Server][c] = NoInfo
      /\ \A r \in Peers : \A t \in Neighbours(r) :
            ~(r = Server /\ t = c) => info'[r][t] = info[r][t]
  BY <1>1, <1>2, StateDomains
<1>7. /\ inbox'[Server][c] = Tail(inbox[Server][c])
      /\ \A r \in Peers : \A t \in Neighbours(r) :
            ~(r = Server /\ t = c) => inbox'[r][t] = inbox[r][t]
  BY <1>1, <1>4
<1> QED BY <1>2, <1>5, <1>6, <1>7

\* What stopping and starting again does.
LEMMA RestartEffect ==
    ASSUME PeerTypeOK, NEW p \in Peers, Restart(p), TopsIn(saved[p], hist[p])
    PROVE  /\ PeerTypeOK' /\ ReadCursor(p) \in Cursors
           /\ cursor'[p] = ReadCursor(p) /\ job'[p] = Idle
           /\ \A r \in Peers : r # p => cursor'[r] = cursor[r] /\ job'[r] = job[r]
           /\ \A r \in Peers : \A t \in Neighbours(r) :
                /\ r = p => info'[r][t] = NoInfo /\ strays'[r][t] = {}
                /\ r # p => info'[r][t] = info[r][t] /\ strays'[r][t] = strays[r][t]
                /\ open'[r][t] = (open[r][t] /\ r # p /\ t # p)
                /\ r = p => inbox'[r][t] = <<>>
                /\ t = p => inbox'[r][t] \in Left(r, Link(p, r))
                /\ r # p /\ t # p => inbox'[r][t] = inbox[r][t]
<1>1. /\ breaks' = breaks + 1
      /\ cursor' = [cursor EXCEPT ![p] = ReadCursor(p)]
      /\ job' = [job EXCEPT ![p] = Idle]
      /\ info' = [info EXCEPT ![p] = [q \in Neighbours(p) |-> NoInfo]]
      /\ strays' = [strays EXCEPT ![p] = [q \in Neighbours(p) |-> {}]]
      /\ open' = [r \in Peers |-> [q \in Neighbours(r) |-> open[r][q] /\ p \notin {r, q}]]
      /\ guessed' = (guessed \/ Guesses(p))
      /\ UNCHANGED <<durable, epoch, strayed, overlooked>>
  BY DEF Restart
<1>2. PICK box : /\ \A q \in Neighbours(p) : box[q] \in Left(q, Link(p, q))
                 /\ inbox' = [r \in Peers |-> [q \in Neighbours(r) |->
                        IF r = p THEN <<>> ELSE IF q = p THEN box[r] ELSE inbox[r][q]]]
  BY DEF Restart
<1>3. ReadCursor(p) \in Cursors
  BY ReadCursorFacts
<1>4. \A r \in Peers : \A t \in Neighbours(r) :
        /\ r = p => inbox'[r][t] = <<>>
        /\ r # p /\ t = p => inbox'[r][t] = box[r]
        /\ r # p /\ t # p => inbox'[r][t] = inbox[r][t]
  BY <1>2
<1>5. ASSUME NEW r \in Peers, NEW t \in Neighbours(r), t = p
      PROVE  r # p /\ r \in Neighbours(p) /\ inbox'[r][t] \in Left(r, Link(p, r))
  <2>1. r # p /\ r \in Neighbours(p)
    BY <1>5, NeighbourFacts
  <2> QED BY <2>1, <1>5, <1>4, <1>2
<1>6. ASSUME NEW r \in Peers, NEW t \in Neighbours(r), NEW c \in Clients, NEW b \in Left(r, c),
             Link(r, t) = c
      PROVE  b \in Seq(Messages)
  <2>1. (r = Server /\ t = c) \/ (r = c /\ t = Server)
    BY <1>6, Ends
  <2>2. inbox[r][IF r = Server THEN c ELSE Server] \in Seq(Messages)
    BY <2>1, ClientFacts, StateTypes
  <2>3. CASE ~open[Server][c]
    BY <2>3, <2>2 DEF Left
  <2>4. CASE open[Server][c]
    BY <2>4, LeftFacts DEF Left
  <2> QED BY <2>3, <2>4
<1>7. Table(inbox', Seq(Messages))
  <2>1. ASSUME NEW r \in Peers, NEW t \in Neighbours(r) PROVE inbox'[r][t] \in Seq(Messages)
    <3>1. CASE r = p
      BY <3>1, <1>4, EmptySeq
    <3>2. CASE t = p
      <4>1. Link(p, r) \in Clients /\ Link(r, t) = Link(p, r)
        BY <3>2, <1>5, NeighbourFacts
      <4> QED BY <4>1, <3>2, <1>5, <1>6
    <3>3. CASE r # p /\ t # p
      BY <3>3, <1>4, StateTypes
    <3> QED BY <3>1, <3>2, <3>3
  <2>2. inbox' = [r \in Peers |-> [t \in Neighbours(r) |-> inbox'[r][t]]]
    BY <1>2
  <2> QED BY <2>1, <2>2 DEF Table
<1>8. Table(info', Infos) /\ Table(strays', SUBSET Infos)
  <2> DEFINE a == [q \in Neighbours(p) |-> NoInfo]
             b == [q \in Neighbours(p) |-> {}]
  <2>1. a = [q \in Neighbours(p) |-> a[q]] /\ \A q \in Neighbours(p) : a[q] \in Infos
    BY InfoTypes
  <2>2. b = [q \in Neighbours(p) |-> b[q]] /\ \A q \in Neighbours(p) : b[q] \in SUBSET Infos
    OBVIOUS
  <2>3. info' = [info EXCEPT ![p] = a] /\ strays' = [strays EXCEPT ![p] = b]
    BY <1>1
  <2>4. Table(info', Infos)
    <3> HIDE DEF a, b
    <3> QED BY <2>1, <2>3, TableRow DEF PeerTypeOK
  <2> DEFINE S == SUBSET Infos
  <2>5. Table(strays, S) /\ \A q \in Neighbours(p) : b[q] \in S
    BY DEF PeerTypeOK
  <2>6. Table(strays', S)
    <3> HIDE DEF a, b, S
    <3> QED BY <2>2, <2>3, <2>5, TableRow
  <2> QED BY <2>4, <2>6
<1>9. Table(open', BOOLEAN) /\ \A r \in Peers : \A t \in Neighbours(r) :
        open'[r][t] = (open[r][t] /\ r # p /\ t # p)
  BY <1>1 DEF Table
<1>10. PeerTypeOK'
  <2>1. guessed' \in BOOLEAN
    BY <1>1 DEF PeerTypeOK
  <2> QED BY <2>1, <1>1, <1>3, <1>7, <1>8, <1>9, InfoTypes DEF PeerTypeOK, durable
<1>11. /\ cursor'[p] = ReadCursor(p) /\ job'[p] = Idle
       /\ \A r \in Peers : r # p => cursor'[r] = cursor[r] /\ job'[r] = job[r]
       /\ \A r \in Peers : \A t \in Neighbours(r) :
            /\ r = p => info'[r][t] = NoInfo /\ strays'[r][t] = {}
            /\ r # p => info'[r][t] = info[r][t] /\ strays'[r][t] = strays[r][t]
  BY <1>1, StateDomains
<1> QED BY <1>3, <1>4, <1>5, <1>9, <1>10, <1>11

---------------------------------------------------------------------------
(* The history.                                                            *)

\* As many changes as there are versions.
LEMMA OwnCount ==
    ASSUME NEW p, NEW n \in Nat
    PROVE  Cardinality({[site |-> p, version |-> v] : v \in 1 .. n}) = n
<1> DEFINE S == 1 .. n
           T == {[site |-> p, version |-> v] : v \in S}
           f == [v \in S |-> [site |-> p, version |-> v]]
<1>1. f \in Bijection(S, T)
  <2>1. f \in [S -> T]
    OBVIOUS
  <2>2. ASSUME NEW u \in S, NEW v \in S, f[u] = f[v] PROVE u = v
    <3>1. [site |-> p, version |-> u].version = [site |-> p, version |-> v].version
      BY <2>2
    <3> QED BY <3>1
  <2>3. \A t \in T : \E v \in S : f[v] = t
    OBVIOUS
  <2> HIDE DEF f, T, S
  <2> QED BY <2>1, <2>2, <2>3, Fun_IsBij
<1>2. IsFiniteSet(S) /\ Cardinality(S) = n
  BY FS_Interval
<1>3. ExistsBijection(S, T)
  BY <1>1 DEF ExistsBijection
<1> HIDE DEF T, S
<1> QED BY <1>2, <1>3, FS_Bijection DEF T, S

\* The history grows by changes that are in the tables, and that who made them
\* and, at a client, the server have logged.
LEMMA HistoryGrows ==
    ASSUME PeerTypeOK, PeerTypeOK', HistoryInv, NEW p \in Peers,
           \A r \in Peers : r # p => hist'[r] = hist[r] /\ data'[r] = data[r],
           hist[p] \subseteq hist'[p], data[p] \subseteq data'[p], hist'[p] \subseteq data'[p],
           \A d \in data'[p] : d \in data[p] \/ (d.site # p /\ d \in hist'[p]),
           \A d \in hist'[p] : d \in hist[p] \/ d.site = p
                                             \/ (d \in hist[d.site] /\ (p # Server => d \in hist[Server])),
           \A d \in hist'[p] : d \in hist[p] \/ (d.site = p =>
                \A e \in Changes : e.site = p /\ e.version <= d.version => e \in hist'[p])
    PROVE  HistoryInv'
<1>1. ASSUME NEW r \in Peers
      PROVE  /\ (hist[r] \subseteq data[r])' /\ (\A d \in data[r] : d \in hist[r] \/ d.site = r)'
             /\ (\E n \in 0 .. Writes[r] :
                  {d \in data[r] : d.site = r} = {[site |-> r, version |-> v] : v \in 1 .. n})'
             /\ \A d \in hist'[r] :
                  /\ d \in hist'[d.site]
                  /\ r # Server => d.site = r \/ d \in hist'[Server]
                  /\ d.site = r => \A e \in Changes : e.site = r /\ e.version <= d.version => e \in hist'[r]
  <2>0. \A d \in hist'[r] : d.site \in Peers
    <3>1. hist'[r] \in SUBSET Changes
      BY DEF PeerTypeOK
    <3> QED BY <3>1, ChangeFacts
  <2>1. hist'[r] \subseteq data'[r] /\ \A d \in data'[r] : d \in hist'[r] \/ d.site = r
    BY DEF HistoryInv
  <2>2. {d \in data'[r] : d.site = r} = {d \in data[r] : d.site = r}
    BY DEF HistoryInv
  <2>3. PICK n \in 0 .. Writes[r] :
          {d \in data[r] : d.site = r} = {[site |-> r, version |-> v] : v \in 1 .. n}
    BY DEF HistoryInv
  <2>4. \A t \in Peers : hist[t] \subseteq hist'[t]
    OBVIOUS
  <2>5. ASSUME NEW d \in hist'[r]
        PROVE  /\ d \in hist'[d.site]
               /\ r # Server => d.site = r \/ d \in hist'[Server]
               /\ d.site = r => \A e \in Changes : e.site = r /\ e.version <= d.version => e \in hist'[r]
    <3>1. CASE d \in hist[r]
      <4>1. /\ d.site \in Peers /\ d \in hist[d.site]
            /\ r # Server => d.site = r \/ d \in hist[Server]
            /\ d.site = r => \A e \in Changes : e.site = r /\ e.version <= d.version => e \in hist[r]
        BY <3>1, <2>0 DEF HistoryInv
      <4> QED BY <4>1, <2>4, PeersAreNumbers
    <3>2. CASE d \notin hist[r]
      <4>1. r = p
        BY <3>2
      <4>2. d \in hist'[d.site] /\ (r # Server => d.site = r \/ d \in hist'[Server])
        BY <3>2, <4>1, <2>0, <2>4, PeersAreNumbers
      <4> QED BY <3>2, <4>1, <4>2
    <3> QED BY <3>1, <3>2
  <2> QED BY <2>1, <2>2, <2>3, <2>5
<1> QED BY <1>1 DEF HistoryInv

\* A transaction keeps HistoryInv.
LEMMA HistoryWrite ==
    ASSUME PeerTypeOK, HistoryInv, NEW p \in Peers, Write(p)
    PROVE  HistoryInv'
<1> DEFINE n == Cardinality({c \in data[p] : c.site = p})
           new == [site |-> p, version |-> n + 1]
<1>1. PICK m \in 0 .. Writes[p] :
        {d \in data[p] : d.site = p} = {[site |-> p, version |-> v] : v \in 1 .. m}
  BY DEF HistoryInv
<1>2. n = m
  <2>0. m \in Nat
    BY DEF Changes
  <2>1. Cardinality({[site |-> p, version |-> v] : v \in 1 .. m}) = m
    BY <2>0, OwnCount
  <2> QED BY <1>1, <2>1
<1>3. n \in Nat /\ n < Writes[p] /\ new \in Changes
      /\ data'[p] = data[p] \cup {new} /\ \A r \in Peers : r # p => data'[r] = data[r]
  BY WriteEffect
<1>4. hist' = hist
  BY DEF Write
<1>5. {d \in data'[p] : d.site = p} = {[site |-> p, version |-> v] : v \in 1 .. m + 1}
  <2>1. {d \in data'[p] : d.site = p} = {d \in data[p] : d.site = p} \cup {new}
    BY <1>3
  <2>2. {[site |-> p, version |-> v] : v \in 1 .. m + 1}
          = {[site |-> p, version |-> v] : v \in 1 .. m} \cup {new}
    <3>1. 1 .. m + 1 = (1 .. m) \cup {m + 1}
      OBVIOUS
    <3> HIDE DEF n
    <3> QED BY <3>1, <1>2
  <2> QED BY <2>1, <2>2, <1>1
<1>6. ASSUME NEW r \in Peers
      PROVE  \E k \in 0 .. Writes[r] :
               {d \in data'[r] : d.site = r} = {[site |-> r, version |-> v] : v \in 1 .. k}
  <2>1. CASE r = p
    <3>1. m + 1 \in 0 .. Writes[p]
      BY <1>2, <1>3
    <3> QED BY <2>1, <3>1, <1>5
  <2>2. CASE r # p
    BY <2>2, <1>3 DEF HistoryInv
  <2> QED BY <2>1, <2>2
<1> HIDE DEF n
<1>7. \A r \in Peers : hist'[r] \subseteq data'[r] /\ \A d \in data'[r] : d \in hist'[r] \/ d.site = r
  BY <1>3, <1>4 DEF HistoryInv
<1> QED BY <1>4, <1>6, <1>7 DEF HistoryInv

\* Logging local changes keeps HistoryInv: they are a prefix of the site's.
LEMMA HistoryLogLocal ==
    ASSUME PeerTypeOK, HistoryInv, JobInv, NEW p \in Peers, LogLocal(p)
    PROVE  HistoryInv'
<1> DEFINE J == job[p].changes
<1>1. job[p].step = "read" /\ data' = data
  BY DEF LogLocal
<1>2. /\ job[p].peer = p /\ J \subseteq data[p]
      /\ \A c \in J : c.site = p /\ c \in Covered(p)
      /\ \A d \in Covered(p) : d.site = p => d \in hist[p] \cup J
  BY <1>1 DEF JobInv, JobOk, Unlogged
<1>3. J \in SUBSET Changes /\ cursor[p] \in Cursors
  BY StateTypes
<1>4. hist'[p] = hist[p] \cup J /\ \A r \in Peers : r # p => hist'[r] = hist[r]
  BY LogLocalEffect
<1>5. ASSUME NEW d \in J, d.site = p, NEW e \in Changes, e.site = p, e.version <= d.version
      PROVE  e \in hist[p] \cup J
  <2>1. e \in Covered(p)
    BY <1>2, <1>3, <1>5, BelowIsClosed DEF Covered, Closed
  <2> QED BY <2>1, <1>2, <1>5
<1> HIDE DEF J
<1>6. data' = data /\ PeerTypeOK'
  BY <1>1, LogLocalEffect
<1>7. /\ \A r \in Peers : r # p => hist'[r] = hist[r] /\ data'[r] = data[r]
      /\ hist[p] \subseteq hist'[p] /\ data[p] \subseteq data'[p] /\ hist'[p] \subseteq data'[p]
      /\ \A d \in data'[p] : d \in data[p]
      /\ \A d \in hist'[p] : d \in hist[p] \/ d.site = p
      /\ \A d \in hist'[p] : d \in hist[p] \/ (d.site = p =>
            \A e \in Changes : e.site = p /\ e.version <= d.version => e \in hist'[p])
  BY <1>2, <1>4, <1>5, <1>6 DEF HistoryInv
<1> QED BY <1>6, <1>7, HistoryGrows

\* What p receives from q and did not know.
LEMMA ReceivedFacts ==
    ASSUME PeerTypeOK, MessageInv, NEW p \in Peers, NEW q \in Neighbours(p), Receive(p, q)
    PROVE  /\ q \in Peers /\ 1 \in DOMAIN inbox[p][q] /\ Head(inbox[p][q]) = inbox[p][q][1]
           /\ Head(inbox[p][q]).changes \subseteq hist[q]
           /\ Received(p, q) \subseteq hist[q]
<1>1. inbox[p][q] # <<>> /\ inbox[p][q] \in Seq(Messages) /\ q \in Peers
  BY StateTypes, NeighbourFacts DEF Receive, Next1
<1>2. 1 \in DOMAIN inbox[p][q] /\ Head(inbox[p][q]) = inbox[p][q][1]
  BY <1>1, HeadFacts
<1>3. Head(inbox[p][q]).changes \subseteq hist[q]
  BY <1>1, <1>2 DEF MessageInv, MessagesOk
<1> QED BY <1>1, <1>2, <1>3 DEF Fresh, Received

\* Receiving keeps HistoryInv: the sender has logged what it sent.
LEMMA HistoryReceive ==
    ASSUME PeerTypeOK, HistoryInv, MessageInv, NEW p \in Peers, NEW q \in Neighbours(p), Receive(p, q)
    PROVE  HistoryInv'
<1> DEFINE new == Received(p, q)
<1>1. new \in SUBSET Changes /\ new \subseteq hist[q] /\ q \in Peers
  BY ReceivedType, ReceivedFacts
<1>2. /\ data'[p] = data[p] \cup new /\ hist'[p] = hist[p] \cup new
      /\ \A r \in Peers : r # p => hist'[r] = hist[r] /\ data'[r] = data[r]
  BY ReceiveEffect
<1> HIDE DEF new
<1>3. \A d \in new : d.site \in Peers /\ d \in hist[d.site] /\ (p # Server => d \in hist[Server])
  BY <1>1, NeighbourFacts, ChangeFacts DEF HistoryInv
<1>4. \A d \in new : d.site = p => d \in hist[p] /\ d \in data[p]
  BY <1>3 DEF HistoryInv
<1>5. /\ \A r \in Peers : r # p => hist'[r] = hist[r] /\ data'[r] = data[r]
      /\ hist[p] \subseteq hist'[p] /\ data[p] \subseteq data'[p] /\ hist'[p] \subseteq data'[p]
      /\ \A d \in data'[p] : d \in data[p] \/ (d.site # p /\ d \in hist'[p])
      /\ \A d \in hist'[p] : d \in hist[p] \/ d.site = p
                                \/ (d \in hist[d.site] /\ (p # Server => d \in hist[Server]))
      /\ \A d \in hist'[p] : d \in hist[p] \/ d.site # p
  BY <1>2, <1>3, <1>4 DEF HistoryInv
<1>6. PeerTypeOK'
  BY ReceiveEffect
<1> QED BY <1>5, <1>6, HistoryGrows

\* Only three actions write to the tables or the history.
LEMMA StepsOfHistory ==
    ASSUME [Next]_vars
    PROVE  \/ UNCHANGED <<data, hist>>
           \/ \E p \in Peers : Write(p) \/ LogLocal(p)
           \/ \E p \in Peers : \E q \in Neighbours(p) : Receive(p, q)
<1> USE DEF durable
<1>1. CASE UNCHANGED vars
  BY <1>1 DEF vars
<1>2. CASE System
  <2>1. ASSUME NEW p \in Peers, CheckLocal(p) \/ Publish(p) PROVE UNCHANGED <<data, hist>>
    BY <2>1 DEF CheckLocal, Publish
  <2>2. ASSUME NEW p \in Peers, NEW q \in Neighbours(p),
               OnConnect(p, q) \/ Cancel(p, q) \/ OnSync(p, q) \/ SyncTurn(p, q) \/ StrayTurn(p, q)
        PROVE  UNCHANGED <<data, hist>>
    BY <2>2 DEF OnConnect, Cancel, OnSync, SyncTurn, StrayTurn
  <2>3. ASSUME NEW c \in Clients, Open(c) \/ Hear(c) \/ OnClose(c) PROVE UNCHANGED <<data, hist>>
    BY <2>3 DEF Open, Hear, OnClose
  <2> QED BY <1>2, <2>1, <2>2, <2>3 DEF System
<1>3. CASE Next /\ ~System
  BY <1>3 DEF Next, Restart, Drop, vars
<1> QED BY <1>1, <1>2, <1>3

\* Steps that leave tables and history alone, and those that do not.
LEMMA HistoryStep ==
    ASSUME PeerTypeOK, HistoryInv, JobInv, MessageInv, [Next]_vars
    PROVE  HistoryInv'
<1>1. CASE UNCHANGED <<data, hist>>
  BY <1>1 DEF HistoryInv
<1>2. ASSUME NEW p \in Peers, Write(p) PROVE HistoryInv'
  BY <1>2, HistoryWrite
<1>3. ASSUME NEW p \in Peers, LogLocal(p) PROVE HistoryInv'
  BY <1>3, HistoryLogLocal
<1>4. ASSUME NEW p \in Peers, NEW q \in Neighbours(p), Receive(p, q) PROVE HistoryInv'
  BY <1>4, HistoryReceive
<1> QED BY <1>1, <1>2, <1>3, <1>4, StepsOfHistory

---------------------------------------------------------------------------
(* The callbacks.                                                          *)

\* Tables and histories only grow.
LEMMA HistoriesGrow ==
    ASSUME PeerTypeOK, [Next]_vars
    PROVE  \A r \in Peers : hist[r] \subseteq hist'[r] /\ data[r] \subseteq data'[r]
<1>1. CASE UNCHANGED <<data, hist>>
  BY <1>1
<1>2. ASSUME NEW p \in Peers, Write(p)
      PROVE  \A r \in Peers : hist[r] \subseteq hist'[r] /\ data[r] \subseteq data'[r]
  <2>1. hist' = hist
    BY <1>2 DEF Write
  <2>2. data[p] \subseteq data'[p] /\ \A r \in Peers : r # p => data'[r] = data[r]
    BY <1>2, WriteEffect
  <2> QED BY <2>1, <2>2
<1>3. ASSUME NEW p \in Peers, LogLocal(p)
      PROVE  \A r \in Peers : hist[r] \subseteq hist'[r] /\ data[r] \subseteq data'[r]
  <2>1. data' = data
    BY <1>3 DEF LogLocal
  <2>2. hist[p] \subseteq hist'[p] /\ \A r \in Peers : r # p => hist'[r] = hist[r]
    BY <1>3, LogLocalEffect
  <2> QED BY <2>1, <2>2
<1>4. ASSUME NEW p \in Peers, NEW q \in Neighbours(p), Receive(p, q)
      PROVE  \A r \in Peers : hist[r] \subseteq hist'[r] /\ data[r] \subseteq data'[r]
  <2>1. /\ hist[p] \subseteq hist'[p] /\ data[p] \subseteq data'[p]
        /\ \A r \in Peers : r # p => data'[r] = data[r] /\ hist'[r] = hist[r]
    BY <1>4, ReceiveEffect
  <2> QED BY <2>1
<1> QED BY <1>1, <1>2, <1>3, <1>4, StepsOfHistory

\* A peer whose callback, cursor and all_peers stay.
LEMMA JobKept ==
    ASSUME NEW r \in Peers, JobOk(r), job'[r] = job[r], cursor'[r] = cursor[r], saved'[r] = saved[r],
           \A t \in Peers : hist[t] \subseteq hist'[t] /\ data[t] \subseteq data'[t],
           job[r].peer \in Peers
    PROVE  JobOk(r)'
<1>1. Unlogged(r)' = Unlogged(r) /\ Covered(r)' = Covered(r)
  BY DEF Unlogged, Covered
<1>2. hist[r] \cup Unlogged(r) \subseteq hist'[r] \cup Unlogged(r)
  OBVIOUS
<1>3. TopsIn(cursor'[r], hist'[r] \cup Unlogged(r)) /\ TopsIn(saved'[r], hist'[r])
  <2>1. TopsIn(cursor[r], hist[r] \cup Unlogged(r)) /\ TopsIn(saved[r], hist[r])
    BY DEF JobOk
  <2> QED BY <2>1, <1>2, TopsInMore
<1>4. \A d \in Covered(r) : d.site = r => d \in hist'[r] \cup Unlogged(r)
  BY <1>2 DEF JobOk
<1>5. \A c \in job[r].changes : job[r].peer = r =>
        /\ c.site = r /\ c \in Covered(r)
        /\ \A d \in Covered(r) : d.site = r /\ c.version <= d.version => d \in job[r].changes
  BY DEF JobOk
<1>6. /\ job[r].step \in {"idle", "waiting"} => job[r].changes = {}
      /\ job[r].step = "read" => job[r].peer = r /\ job[r].changes \subseteq data'[r]
      /\ job[r].step = "known" =>
            /\ job[r].changes \subseteq hist'[r]
            /\ job[r].peer # r => job[r].peer \in Neighbours(r) /\ job[r].changes \subseteq hist'[job[r].peer]
  BY DEF JobOk
<1> QED BY <1>1, <1>3, <1>4, <1>5, <1>6 DEF JobOk

\* A peer whose callback ended without a change of the cursor.
LEMMA JobEnded ==
    ASSUME NEW r \in Peers, JobOk(r), job[r].step \in {"idle", "waiting"},
           job'[r].step \in {"idle", "waiting"}, job'[r].changes = {},
           cursor'[r] = cursor[r], saved'[r] = saved[r], hist'[r] = hist[r]
    PROVE  JobOk(r)'
BY DEF JobOk, Unlogged, Covered

\* Reading the local changes keeps JobOk.
LEMMA JobCheckLocal ==
    ASSUME PeerTypeOK, HistoryInv, NEW p \in Peers, JobOk(p), CheckLocal(p)
    PROVE  JobOk(p)'
<1> DEFINE L == LocalChanges(p)
           cur == cursor[p]
           new == Advance(cur, L)
<1>1. /\ job[p].step = "idle" /\ data' = data /\ hist' = hist /\ saved' = saved
      /\ L = {c \in data[p] : c.site = p /\ c.version > cur[p]}
  BY DEF CheckLocal, IsIdle, durable, LocalChanges
<1>2. L \in SUBSET Changes /\ L \subseteq data[p] /\ cur \in Cursors /\ data[p] \in SUBSET Changes
  BY LocalChangesFacts, StateTypes
<1>3. cursor'[p] = new /\ job'[p] = [step |-> "read", changes |-> L, peer |-> p]
  BY CheckLocalEffect
<1> HIDE DEF L
<1>4. /\ L \subseteq Below(new) /\ Below(cur) \subseteq Below(new)
      /\ \A d \in Below(new) : d \in Below(cur) \/ \E c \in L : c.site = d.site /\ d.version <= c.version
  BY <1>2, AdvanceCovers
<1>5. PICK n \in 0 .. Writes[p] : {d \in data[p] : d.site = p} = {[site |-> p, version |-> v] : v \in 1 .. n}
  BY DEF HistoryInv
<1>6. ASSUME NEW d \in Below(new), d.site = p, d \notin Below(cur)
      PROVE  d \in L
  <2>1. d \in Changes /\ d.version \in Nat /\ d.version >= 1 /\ d = [site |-> p, version |-> d.version]
    BY <1>6, ChangeFacts DEF Below
  <2>2. PICK c \in L : c.site = p /\ d.version <= c.version
    BY <1>4, <1>6
  <2>3. c \in Changes /\ c \in data[p] /\ c.version \in Nat
    BY <1>2, ChangeFacts
  <2>4. PICK v \in 1 .. n : c = [site |-> p, version |-> v]
    BY <1>5, <2>2, <2>3
  <2>5. n \in Nat
    BY DEF PeerConstants
  <2>6. d.version \in 1 .. n
    BY <2>1, <2>2, <2>4, <2>5
  <2>7. d \in data[p]
    BY <1>5, <2>1, <2>6
  <2>8. cur[p] \in Nat
    BY <1>2 DEF Cursors
  <2>9. d.version > cur[p]
    BY <1>6, <2>1, <2>8 DEF Below
  <2> QED BY <1>1, <1>6, <2>7, <2>9
<1>7. ASSUME NEW c \in L
      PROVE  /\ c.site = p /\ c \in Below(new)
             /\ \A d \in Below(new) : d.site = p /\ c.version <= d.version => d \in L
  <2>1. c.site = p /\ c.version > cur[p] /\ c \in Changes
    BY <1>1, <1>2
  <2>2. ASSUME NEW d \in Below(cur), d.site = p PROVE ~(c.version <= d.version)
    <3>1. d.version <= cur[p] /\ d.version \in Nat /\ c.version \in Nat /\ cur[p] \in Nat
      BY <2>1, <2>2, <1>2, ChangeFacts DEF Below, Cursors
    <3> QED BY <3>1, <2>1
  <2> QED BY <1>4, <1>6, <2>1, <2>2
<1>8. \A d \in Below(cur) : d.site = p => d \in hist[p]
  BY <1>1 DEF JobOk, Unlogged, Covered
<1>9. TopsIn(new, hist[p] \cup L)
  <2>1. TopsIn(cur, hist[p])
    <3>1. Unlogged(p) = {}
      BY <1>1 DEF Unlogged
    <3> QED BY <3>1 DEF JobOk
  <2> QED BY <2>1, <1>2, TopsOfAdvance
<1>10. Unlogged(p)' = L /\ Covered(p)' = Below(new)
  BY <1>3 DEF Unlogged, Covered
<1> HIDE DEF new, cur
<1>11. \A d \in Below(new) : d.site = p => d \in hist[p] \cup L
  BY <1>6, <1>8
<1>12. TopsIn(saved'[p], hist'[p]) /\ hist'[p] = hist[p] /\ data'[p] = data[p]
  BY <1>1 DEF JobOk
<1> QED BY <1>2, <1>3, <1>7, <1>9, <1>10, <1>11, <1>12 DEF JobOk

\* Logging them keeps JobOk.
LEMMA JobLogLocal ==
    ASSUME PeerTypeOK, NEW p \in Peers, JobOk(p), LogLocal(p)
    PROVE  JobOk(p)'
<1> DEFINE J == job[p].changes
<1>1. /\ job[p].step = "read" /\ cursor' = cursor /\ saved' = saved /\ data' = data
      /\ hist'[p] = hist[p] \cup J
      /\ job'[p].step = "known" /\ job'[p].changes = J /\ job'[p].peer = job[p].peer
  <2>1. job[p].step = "read" /\ cursor' = cursor /\ saved' = saved /\ data' = data
    BY DEF LogLocal
  <2> QED BY <2>1, LogLocalEffect
<1>2. /\ job[p].peer = p
      /\ \A c \in J :
        /\ c.site = p /\ c \in Covered(p)
        /\ \A d \in Covered(p) : d.site = p /\ c.version <= d.version => d \in J
      /\ \A d \in Covered(p) : d.site = p => d \in hist[p] \cup J
      /\ TopsIn(cursor[p], hist[p] \cup J) /\ TopsIn(saved[p], hist[p])
  BY <1>1 DEF JobOk, Unlogged
<1> HIDE DEF J
<1>3. Unlogged(p)' = {} /\ Covered(p)' = Covered(p)
  BY <1>1 DEF Unlogged, Covered
<1>4. hist'[p] \cup {} = hist'[p] /\ TopsIn(saved'[p], hist'[p]) /\ TopsIn(cursor'[p], hist'[p])
  BY <1>1, <1>2, TopsInMore
<1> QED BY <1>1, <1>2, <1>3, <1>4 DEF JobOk

\* Publishing keeps JobOk.
LEMMA JobPublish ==
    ASSUME PeerTypeOK, HistoryInv, NEW p \in Peers, JobOk(p), Publish(p)
    PROVE  JobOk(p)'
<1> DEFINE J == job[p].changes
           cur == cursor[p]
           new == Advance(cur, J)
<1>1. /\ job[p].step = "known" /\ hist' = hist /\ data' = data
      /\ J \subseteq hist[p] /\ J \in SUBSET Changes /\ cur \in Cursors
      /\ \A d \in Below(cur) : d.site = p => d \in hist[p]
      /\ TopsIn(cur, hist[p])
  <2>1. job[p].step = "known" /\ hist' = hist /\ data' = data
    BY DEF Publish
  <2>2. Unlogged(p) = {}
    BY <2>1 DEF Unlogged
  <2> QED BY <2>1, <2>2, StateTypes DEF JobOk, Covered
<1>2. cursor'[p] = new /\ saved'[p] = new /\ job'[p] = Idle
  BY PublishEffect
<1>3. \A d \in Below(new) : d \in Below(cur) \/ \E c \in J : c.site = d.site /\ d.version <= c.version
  BY <1>1, AdvanceCovers
<1>4. TopsIn(new, hist[p] \cup J) /\ hist[p] \cup J = hist[p]
  BY <1>1, TopsOfAdvance
<1> HIDE DEF new, cur, J
<1>5. ASSUME NEW d \in Below(new), d.site = p PROVE d \in hist[p]
  <2>1. CASE d \in Below(cur)
    BY <1>1, <1>5, <2>1
  <2>2. CASE d \notin Below(cur)
    <3>1. PICK c \in J : c.site = d.site /\ d.version <= c.version
      BY <1>3, <2>2
    <3>2. d \in Changes
      BY DEF Below
    <3> QED BY <1>1, <1>5, <3>1, <3>2 DEF HistoryInv
  <2> QED BY <2>1, <2>2
<1>6. /\ job'[p].step = "idle" /\ job'[p].changes = {} /\ Unlogged(p)' = {} /\ Covered(p)' = Below(new)
      /\ hist'[p] = hist[p] /\ hist[p] \cup {} = hist[p]
  BY <1>1, <1>2 DEF Idle, Unlogged, Covered
<1> QED BY <1>2, <1>4, <1>5, <1>6 DEF JobOk

\* Receiving keeps JobOk.
LEMMA JobReceive ==
    ASSUME PeerTypeOK, MessageInv, NEW p \in Peers, NEW q \in Neighbours(p), JobOk(p), Receive(p, q)
    PROVE  JobOk(p)'
<1> DEFINE new == Received(p, q)
<1>1. /\ job[p].step = "idle" /\ cursor' = cursor /\ saved' = saved
      /\ new \subseteq hist[q] /\ q # p /\ q \in Peers
      /\ hist'[p] = hist[p] \cup new /\ hist'[q] = hist[q]
      /\ data'[p] = data[p] \cup new
  <2>1. job[p].step = "idle" /\ cursor' = cursor /\ saved' = saved
    BY DEF Receive, IsIdle
  <2> QED BY <2>1, ReceivedFacts, ReceiveEffect, NeighbourFacts
<1>2. /\ job'[p].step = IF new = {} THEN "idle" ELSE "known"
      /\ new # {} => job'[p].peer = q /\ job'[p].changes = new
      /\ new = {} => job'[p] = job[p]
  BY ReceiveJob
<1> HIDE DEF new
<1>3. /\ Unlogged(p) = {} /\ Unlogged(p)' = {} /\ Covered(p)' = Covered(p)
      /\ hist[p] \cup {} = hist[p] /\ hist'[p] \cup {} = hist'[p]
  BY <1>1, <1>2 DEF Unlogged, Covered
<1>4. TopsIn(saved'[p], hist'[p]) /\ TopsIn(cursor'[p], hist'[p])
  <2>1. TopsIn(saved[p], hist[p]) /\ TopsIn(cursor[p], hist[p])
    BY <1>3 DEF JobOk
  <2> QED BY <1>1, <2>1, TopsInMore
<1>5. \A d \in Covered(p)' : d.site = p => d \in hist'[p]
  BY <1>1, <1>3 DEF JobOk
<1>6. CASE new = {}
  <2>1. job'[p].changes = {} /\ job'[p].step = "idle"
    BY <1>1, <1>2, <1>6 DEF JobOk
  <2> QED BY <1>3, <1>4, <1>5, <2>1 DEF JobOk
<1>7. CASE new # {}
  <2>1. job'[p].step = "known" /\ job'[p].peer = q /\ job'[p].changes = new
    BY <1>2, <1>7
  <2> QED BY <1>1, <1>3, <1>4, <1>5, <2>1 DEF JobOk
<1> QED BY <1>6, <1>7

\* Starting again keeps JobOk: the cursor read back names logged changes.
LEMMA JobRestart ==
    ASSUME PeerTypeOK, HistoryInv, NEW p \in Peers, JobOk(p), Restart(p)
    PROVE  JobOk(p)'
<1> DEFINE new == ReadCursor(p)
<1>1. hist' = hist /\ data' = data /\ saved' = saved /\ TopsIn(saved[p], hist[p])
  BY DEF Restart, durable, JobOk
<1>2. cursor'[p] = new /\ job'[p] = Idle /\ new \in Cursors
  BY <1>1, RestartEffect
<1>3. TopsIn(new, hist[p])
  BY <1>1, ReadCursorFacts
<1> HIDE DEF new
<1>4. ASSUME NEW d \in Below(new), d.site = p PROVE d \in hist[p]
  <2>1. d \in Changes /\ d.version <= new[p] /\ d.version \in Nat /\ d.version >= 1 /\ new[p] \in Nat
    BY <1>2, <1>4, ChangeFacts DEF Below, Cursors
  <2> DEFINE top == [site |-> p, version |-> new[p]]
  <2>2. top \in hist[p]
    BY <1>3, <2>1 DEF TopsIn
  <2>3. top.site = p /\ top.version = new[p]
    OBVIOUS
  <2> HIDE DEF top
  <2> QED BY <1>4, <2>1, <2>2, <2>3 DEF HistoryInv
<1>5. /\ job'[p].step = "idle" /\ job'[p].changes = {} /\ Unlogged(p)' = {} /\ Covered(p)' = Below(new)
      /\ hist'[p] = hist[p] /\ hist[p] \cup {} = hist[p]
  BY <1>1, <1>2 DEF Idle, Unlogged, Covered
<1> QED BY <1>1, <1>2, <1>3, <1>4, <1>5 DEF JobOk

\* The actions of a step.
LEMMA Steps ==
    ASSUME [Next]_vars
    PROVE  \/ \E p \in Peers : Write(p) \/ CheckLocal(p) \/ LogLocal(p) \/ Publish(p) \/ Restart(p)
           \/ \E p \in Peers : \E q \in Neighbours(p) :
                \/ Receive(p, q) \/ OnConnect(p, q) \/ Cancel(p, q) \/ OnSync(p, q)
                \/ SyncTurn(p, q) \/ StrayTurn(p, q)
           \/ \E c \in Clients : Open(c) \/ Hear(c) \/ OnClose(c) \/ Drop(c)
           \/ UNCHANGED vars
<1>1. CASE UNCHANGED vars BY <1>1
<1>2. CASE Next BY <1>2 DEF Next, System
<1> QED BY <1>1, <1>2

\* The types are kept by every step.
LEMMA TypesStep ==
    ASSUME PeerTypeOK, JobInv, [Next]_vars
    PROVE  PeerTypeOK'
<1>1. ASSUME NEW p \in Peers,
             Write(p) \/ CheckLocal(p) \/ LogLocal(p) \/ Publish(p) \/ Restart(p)
      PROVE  PeerTypeOK'
  <2>1. TopsIn(saved[p], hist[p])
    BY DEF JobInv, JobOk
  <2> QED BY <1>1, <2>1, WriteEffect, CheckLocalEffect, LogLocalEffect, PublishEffect, RestartEffect
<1>2. ASSUME NEW p \in Peers, NEW q \in Neighbours(p),
             \/ Receive(p, q) \/ OnConnect(p, q) \/ Cancel(p, q) \/ OnSync(p, q)
             \/ SyncTurn(p, q) \/ StrayTurn(p, q)
      PROVE  PeerTypeOK'
  BY <1>2, ReceiveEffect, OnConnectEffect, CancelEffect, OnSyncEffect, SyncTurnEffect, StrayTurnEffect
<1>3. ASSUME NEW c \in Clients, Open(c) \/ Hear(c) \/ OnClose(c) \/ Drop(c)
      PROVE  PeerTypeOK'
  BY <1>3, OpenEffect, HearEffect, OnCloseEffect, DropEffect
<1>4. CASE UNCHANGED vars
  BY <1>4 DEF vars, durable, memory, net, ghosts, PeerTypeOK, Table
<1> QED BY <1>1, <1>2, <1>3, <1>4, Steps

\* Callbacks and cursors stay in step with the history.
LEMMA JobStep ==
    ASSUME PeerTypeOK, HistoryInv, JobInv, MessageInv, [Next]_vars
    PROVE  JobInv'
<1>1. SUFFICES ASSUME NEW r \in Peers PROVE JobOk(r)'
  BY DEF JobInv
<1>2. JobOk(r) /\ job[r].peer \in Peers
  BY StateTypes DEF JobInv
<1>3. \A t \in Peers : hist[t] \subseteq hist'[t] /\ data[t] \subseteq data'[t]
  BY HistoriesGrow
<1>4. ASSUME job'[r] = job[r], cursor'[r] = cursor[r], saved'[r] = saved[r] PROVE JobOk(r)'
  BY <1>2, <1>3, <1>4, JobKept
<1>5. ASSUME NEW p \in Peers,
             Write(p) \/ CheckLocal(p) \/ LogLocal(p) \/ Publish(p) \/ Restart(p)
      PROVE  JobOk(r)'
  <2>1. CASE Write(p)
    BY <1>4, <2>1 DEF Write, memory
  <2>2. CASE CheckLocal(p)
    <3>1. CASE r = p BY <1>2, <2>2, <3>1, JobCheckLocal
    <3>2. CASE r # p
      <4>1. saved' = saved
        BY <2>2 DEF CheckLocal, durable
      <4> QED BY <1>4, <2>2, <3>2, <4>1, CheckLocalEffect
    <3> QED BY <3>1, <3>2
  <2>3. CASE LogLocal(p)
    <3>1. CASE r = p BY <1>2, <2>3, <3>1, JobLogLocal
    <3>2. CASE r # p
      <4>1. saved' = saved /\ cursor' = cursor
        BY <2>3 DEF LogLocal
      <4> QED BY <1>4, <2>3, <3>2, <4>1, LogLocalEffect
    <3> QED BY <3>1, <3>2
  <2>4. CASE Publish(p)
    <3>1. CASE r = p BY <1>2, <2>4, <3>1, JobPublish
    <3>2. CASE r # p BY <1>4, <2>4, <3>2, PublishEffect
    <3> QED BY <3>1, <3>2
  <2>5. CASE Restart(p)
    <3>1. CASE r = p BY <1>2, <2>5, <3>1, JobRestart
    <3>2. CASE r # p
      <4>1. saved' = saved /\ TopsIn(saved[p], hist[p])
        BY <2>5 DEF Restart, durable, JobInv, JobOk
      <4> QED BY <1>4, <2>5, <3>2, <4>1, RestartEffect
    <3> QED BY <3>1, <3>2
  <2> QED BY <1>5, <2>1, <2>2, <2>3, <2>4, <2>5
<1>6. ASSUME NEW p \in Peers, NEW q \in Neighbours(p),
             \/ Receive(p, q) \/ OnConnect(p, q) \/ Cancel(p, q) \/ OnSync(p, q)
             \/ SyncTurn(p, q) \/ StrayTurn(p, q)
      PROVE  JobOk(r)'
  <2>1. CASE Receive(p, q)
    <3>1. CASE r = p BY <1>2, <2>1, <3>1, JobReceive
    <3>2. CASE r # p
      <4>1. saved' = saved /\ cursor' = cursor
        BY <2>1 DEF Receive
      <4> QED BY <1>4, <2>1, <3>2, <4>1, ReceiveJob
    <3> QED BY <3>1, <3>2
  <2>2. CASE OnConnect(p, q)
    BY <1>4, <2>2 DEF OnConnect, durable
  <2>3. CASE SyncTurn(p, q)
    BY <1>4, <2>3 DEF SyncTurn, durable
  <2>4. CASE StrayTurn(p, q)
    BY <1>4, <2>4 DEF StrayTurn, durable
  <2>5. CASE Cancel(p, q)
    <3>1. saved' = saved /\ cursor' = cursor /\ hist' = hist /\ job[p].step = "idle"
      BY <2>5 DEF Cancel, durable, IsIdle
    <3>2. job'[p].step = "waiting" /\ job'[p].changes = {} /\ \A t \in Peers : t # p => job'[t] = job[t]
      BY <2>5, CancelEffect DEF Idle
    <3> QED BY <1>2, <1>4, <3>1, <3>2, JobEnded
  <2>6. CASE OnSync(p, q)
    <3>1. saved' = saved /\ cursor' = cursor /\ hist' = hist /\ job[p].step \in {"idle", "waiting"}
      BY <2>6 DEF OnSync, durable, MayHandle, IsIdle
    <3>2. job'[p].step = "idle" /\ job'[p].changes = {} /\ \A t \in Peers : t # p => job'[t] = job[t]
      BY <2>6, OnSyncEffect DEF Idle
    <3> QED BY <1>2, <1>4, <3>1, <3>2, JobEnded
  <2> QED BY <1>6, <2>1, <2>2, <2>3, <2>4, <2>5, <2>6
<1>7. ASSUME NEW c \in Clients, Open(c) \/ Hear(c) \/ OnClose(c) \/ Drop(c)
      PROVE  JobOk(r)'
  <2>1. CASE OnClose(c)
    <3>1. saved' = saved /\ cursor' = cursor /\ hist' = hist /\ job[Server].step \in {"idle", "waiting"}
      BY <2>1 DEF OnClose, durable, MayHandle, IsIdle
    <3>2. /\ job'[Server].step = "idle" /\ job'[Server].changes = {}
          /\ \A t \in Peers : t # Server => job'[t] = job[t]
      BY <2>1, OnCloseEffect DEF Idle
    <3> QED BY <1>2, <1>4, <3>1, <3>2, JobEnded
  <2>2. CASE Open(c) \/ Hear(c) \/ Drop(c)
    BY <1>4, <2>2 DEF Open, Hear, Drop, durable, memory
  <2> QED BY <1>7, <2>1, <2>2
<1>8. CASE UNCHANGED vars
  BY <1>4, <1>8 DEF vars, durable, memory
<1> QED BY <1>5, <1>6, <1>7, <1>8, Steps

---------------------------------------------------------------------------
(* What comes into an inbox.                                               *)

\* The messages of an inbox.
LEMMA RangeFacts ==
    ASSUME NEW box \in Seq(Messages)
    PROVE  /\ \A k \in DOMAIN box : box[k] \in Range(box)
           /\ \A m \in Range(box) : m \in Messages /\ \E k \in DOMAIN box : m = box[k]
           /\ box = <<>> => Range(box) = {}
           /\ box # <<>> => Head(box) \in Range(box) /\ Range(Tail(box)) \subseteq Range(box)
<1>1. box # <<>> => Head(box) \in Range(box) /\ Range(Tail(box)) \subseteq Range(box)
  <2>1. ASSUME box # <<>> PROVE Head(box) \in Range(box) /\ Range(Tail(box)) \subseteq Range(box)
    <3>1. /\ Head(box) = box[1] /\ Len(box) \in Nat \ {0} /\ DOMAIN box = 1 .. Len(box)
          /\ DOMAIN Tail(box) = 1 .. Len(box) - 1
          /\ \A k \in 1 .. Len(box) - 1 : Tail(box)[k] = box[k + 1]
      BY <2>1, HeadFacts
    <3>2. \A k \in 1 .. Len(box) - 1 : k + 1 \in 1 .. Len(box)
      BY <3>1
    <3>3. 1 \in DOMAIN box
      BY <3>1
    <3> QED BY <3>1, <3>2, <3>3 DEF Range
  <2> QED BY <2>1
<1>2. box = <<>> => Range(box) = {}
  BY BoxFacts DEF Range
<1>3. \A m \in Range(box) : m \in Messages /\ \E k \in DOMAIN box : m = box[k]
  BY BoxFacts DEF Range
<1>4. \A k \in DOMAIN box : box[k] \in Range(box)
  BY DEF Range
<1> QED BY <1>1, <1>2, <1>3, <1>4

\* The messages after one has come.
LEMMA RangeOfAppend ==
    ASSUME NEW box \in Seq(Messages), NEW m \in Messages
    PROVE  Range(Append(box, m)) = Range(box) \cup {m}
<1> DEFINE n == Len(box)
           more == Append(box, m)
<1>1. /\ n \in Nat /\ \A k \in 1 .. n : more[k] = box[k] /\ more[n + 1] = m
      /\ DOMAIN box = 1 .. n /\ DOMAIN more = 1 .. n + 1
  BY AppendFacts
<1> HIDE DEF n, more
<1>2. 1 .. n + 1 = (1 .. n) \cup {n + 1}
  BY <1>1
<1>3. more[n + 1] = m /\ \A k \in 1 .. n : more[k] = box[k]
  <2>1. DEFINE b == box
  <2>2. more[n + 1] = m
    BY AppendFacts DEF more, n
  <2> QED BY <1>1, <2>2
<1>4. Range(more) = Range(box) \cup {m}
  BY <1>1, <1>2, <1>3 DEF Range
<1> QED BY <1>4 DEF more

\* The messages after some have come.
LEMMA RangeOfConcat ==
    ASSUME NEW box \in Seq(Messages), NEW more \in Seq(Messages)
    PROVE  Range(box \o more) = Range(box) \cup Range(more)
<1> DEFINE n == Len(box)
           l == Len(more)
           all == box \o more
<1>1. /\ n \in Nat /\ l \in Nat
      /\ (\A k \in 1 .. n : all[k] = box[k])
      /\ (\A k \in 1 .. l : all[n + k] = more[k])
      /\ DOMAIN box = 1 .. n /\ DOMAIN all = 1 .. n + l
  BY ConcatFacts
<1>2. DOMAIN more = 1 .. l
  BY BoxFacts
<1> HIDE DEF n, l, all
<1>3. ASSUME NEW k \in 1 .. n + l, k > n PROVE k - n \in 1 .. l /\ all[k] = more[k - n]
  <2>1. k - n \in 1 .. l /\ n + (k - n) = k
    BY <1>1, <1>3
  <2> QED BY <1>1, <2>1
<1>4. ASSUME NEW k \in 1 .. l PROVE n + k \in 1 .. n + l
  BY <1>1
<1>5. ASSUME NEW k \in 1 .. n PROVE k \in 1 .. n + l
  BY <1>1
<1>6. \A k \in 1 .. n + l : k \in 1 .. n \/ k > n
  BY <1>1
<1>7. Range(all) \subseteq Range(box) \cup Range(more)
  BY <1>1, <1>2, <1>3, <1>6 DEF Range
<1>8. Range(box) \subseteq Range(all) /\ Range(more) \subseteq Range(all)
  BY <1>1, <1>2, <1>4, <1>5 DEF Range
<1> QED BY <1>7, <1>8 DEF all

\* The messages of what is left.
LEMMA RangeOfPrefix ==
    ASSUME NEW box \in Seq(Messages), NEW n \in 0 .. Len(box)
    PROVE  Range(SubSeq(box, 1, n)) \subseteq Range(box)
<1> DEFINE part == SubSeq(box, 1, n)
<1>1. /\ \A k \in 1 .. n : part[k] = box[k]
      /\ DOMAIN box = 1 .. Len(box) /\ DOMAIN part = 1 .. n /\ Len(box) \in Nat
  BY PrefixFacts
<1>2. \A k \in 1 .. n : k \in 1 .. Len(box)
  BY <1>1
<1> HIDE DEF part
<1>3. Range(part) \subseteq Range(box)
  BY <1>1, <1>2 DEF Range
<1> QED BY <1>3 DEF part

\* The one message of changes there may be.
LEMMA RangeOfNonEmpty ==
    ASSUME NEW changes \in SUBSET Changes
    PROVE  \A m \in Range(NonEmpty(changes)) : m = Data(changes)
<1>1. CASE changes = {}
  <2>1. NonEmpty(changes) = <<>>
    BY <1>1, NonEmptyFacts
  <2>2. Range(<<>>) = {}
    BY DEF Range
  <2> QED BY <2>1, <2>2
<1>2. CASE changes # {}
  <2>1. NonEmpty(changes) = <<Data(changes)>>
    BY <1>2, NonEmptyFacts
  <2> DEFINE d == Data(changes)
  <2> HIDE DEF d
  <2>2. \A m \in Range(<<d>>) : m = d
    BY DEF Range
  <2> QED BY <2>1, <2>2 DEF d
<1> QED BY <1>1, <1>2

\* What p may send to q at once, and what q's message to p may be when it arrives.
Sendable(p, q) ==
    {d \in Changes :
        \/ job[p].step = "known" /\ d \in job[p].changes
        \/ \E i \in Runs(p, q) :
            d \in i.pending \/ (i.sync.on /\ d \in Rows(p, i.sync.sites, i.sync.from))}
Arrives(p, q, m) ==
    \/ m = Close
    \/ m = Connect(epoch'[Link(p, q)])
    \/ m = SyncFrom(cursor[q]) /\ job[q].step = "idle"
    \/ \E changes \in SUBSET Sendable(q, p) : m = Data(changes)

\* A turn sends what p may send.
LEMMA ToldIsSendable ==
    ASSUME PeerTypeOK, NEW p \in Peers, NEW q \in Neighbours(p), NEW i \in Runs(p, q), i.sync.on
    PROVE  /\ Told(p, i) \subseteq Sendable(p, q) /\ Turn(p, i) \in Seq(Messages)
           /\ \A m \in Range(Turn(p, i)) : \E changes \in SUBSET Sendable(p, q) : m = Data(changes)
<1>1. i \in Infos
  BY StateTypes DEF Runs
<1>2. i.sync \in Syncs /\ i.pending \in SUBSET Changes
  BY <1>1, InfoFields
<1> DEFINE B == Batch(p, i.sync)
           P == i.pending
<1>3. B \in SUBSET Changes /\ B \subseteq Rows(p, i.sync.sites, i.sync.from)
  BY <1>2, RowsFacts
<1>4. B \subseteq Sendable(p, q) /\ P \subseteq Sendable(p, q)
  BY <1>2, <1>3 DEF Sendable
<1>5. Told(p, i) \subseteq Sendable(p, q)
  BY <1>4 DEF Told
<1>6. Turn(p, i) \in Seq(Messages)
  BY <1>1, TurnFacts
<1>7. Range(Turn(p, i)) \subseteq Range(NonEmpty(B)) \cup Range(NonEmpty(P))
  <2>1. NonEmpty(B) \in Seq(Messages) /\ NonEmpty(P) \in Seq(Messages)
    BY <1>2, <1>3, NonEmptyFacts
  <2>2. <<>> \in Seq(Messages) /\ Range(<<>>) = {}
    BY DEF Range
  <2>3. Range(NonEmpty(B) \o NonEmpty(P)) = Range(NonEmpty(B)) \cup Range(NonEmpty(P))
    BY <2>1, RangeOfConcat
  <2>4. Range(NonEmpty(B) \o <<>>) = Range(NonEmpty(B)) \cup {}
    <3> DEFINE none == <<>>
    <3>1. none \in Seq(Messages) /\ Range(none) = {}
      BY <2>2
    <3> HIDE DEF none
    <3>2. Range(NonEmpty(B) \o none) = Range(NonEmpty(B)) \cup Range(none)
      BY <2>1, <3>1, RangeOfConcat
    <3> QED BY <3>1, <3>2 DEF none
  <2>5. CASE IsLast(p, i.sync)
    <3>1. Turn(p, i) = NonEmpty(B) \o NonEmpty(P)
      BY <2>5 DEF Turn
    <3> QED BY <2>3, <3>1
  <2>6. CASE ~IsLast(p, i.sync)
    <3>1. Turn(p, i) = NonEmpty(B) \o <<>>
      BY <2>6 DEF Turn
    <3> QED BY <2>4, <3>1
  <2> QED BY <2>5, <2>6
<1>8. (\A m \in Range(NonEmpty(B)) : m = Data(B)) /\ (\A m \in Range(NonEmpty(P)) : m = Data(P))
  BY <1>2, <1>3, RangeOfNonEmpty
<1> HIDE DEF B, P
<1> QED BY <1>4, <1>5, <1>6, <1>7, <1>8

\* So does a broadcast.
LEMMA BroadcastIsSendable ==
    ASSUME PeerTypeOK, NEW p \in Peers, NEW q \in Neighbours(p), job[p].step = "known", NEW except
    PROVE  /\ Broadcast(p, job[p].changes, except)[q] \in Seq(Messages)
           /\ \A m \in Range(Broadcast(p, job[p].changes, except)[q]) :
                \E changes \in SUBSET Sendable(p, q) : m = Data(changes)
<1> DEFINE J == job[p].changes
           P == info[p][q].pending
           F == Fresh(J, info[p][q].cursor)
           msgs == Broadcast(p, J, except)[q]
<1>1. J \in SUBSET Changes /\ info[p][q] \in Infos
  BY StateTypes
<1>2. P \in SUBSET Changes
  BY <1>1, InfoFields
<1>3. F \in SUBSET Changes /\ F \subseteq J
  BY <1>1, FreshFacts
<1>4. msgs \in Seq(Messages) /\ (~Listening(p, q, except) => msgs = <<>>)
      /\ (Listening(p, q, except) => msgs = NonEmpty(P) \o NonEmpty(F))
  BY <1>1, BroadcastFacts
<1>5. F \subseteq Sendable(p, q) /\ P \subseteq Sendable(p, q)
  BY <1>2, <1>3 DEF Sendable, Runs
<1>6. (\A m \in Range(NonEmpty(F)) : m = Data(F)) /\ (\A m \in Range(NonEmpty(P)) : m = Data(P))
  BY <1>2, <1>3, RangeOfNonEmpty
<1>7. Range(NonEmpty(P) \o NonEmpty(F)) = Range(NonEmpty(P)) \cup Range(NonEmpty(F))
  <2>1. NonEmpty(P) \in Seq(Messages) /\ NonEmpty(F) \in Seq(Messages)
    BY <1>2, <1>3, NonEmptyFacts
  <2> QED BY <2>1, RangeOfConcat
<1>8. Range(<<>>) = {}
  BY DEF Range
<1>9. \A m \in Range(msgs) : m = Data(P) \/ m = Data(F)
  BY <1>4, <1>6, <1>7, <1>8
<1> HIDE DEF msgs, P, F
<1> QED BY <1>4, <1>5, <1>9 DEF msgs, J

\* What a broken connection leaves was there, or is the close.
LEMMA LeftIsThere ==
    ASSUME PeerTypeOK, NEW r \in Peers, NEW t \in Neighbours(r),
           NEW box, box \in Left(r, Link(r, t))
    PROVE  \A m \in Range(box) : m \in Range(inbox[r][t]) \/ m = Close
<1> DEFINE c == Link(r, t)
           old == inbox[r][t]
<1>1. c \in Clients /\ old \in Seq(Messages) /\ Close \in Messages
      /\ (r = Server => c = t) /\ (r # Server => t = Server /\ c = r)
  BY NeighbourFacts, StateTypes, MessageTypes
<1>2. \A k \in 0 .. Len(old) : Range(SubSeq(old, 1, k)) \subseteq Range(old)
        /\ Range(Append(SubSeq(old, 1, k), Close)) \subseteq Range(old) \cup {Close}
  <2>1. ASSUME NEW k \in 0 .. Len(old)
        PROVE  Range(SubSeq(old, 1, k)) \subseteq Range(old)
               /\ Range(Append(SubSeq(old, 1, k), Close)) \subseteq Range(old) \cup {Close}
    <3> HIDE DEF old
    <3>1. SubSeq(old, 1, k) \in Seq(Messages)
      BY <1>1, PrefixFacts
    <3>2. Range(SubSeq(old, 1, k)) \subseteq Range(old)
      BY <1>1, RangeOfPrefix
    <3>3. Range(Append(SubSeq(old, 1, k), Close)) = Range(SubSeq(old, 1, k)) \cup {Close}
      BY <1>1, <3>1, RangeOfAppend
    <3> QED BY <3>2, <3>3
  <2> QED BY <2>1
<1>3. CASE ~open[Server][c]
  BY <1>1, <1>3 DEF Left
<1>4. CASE open[Server][c] /\ r = Server
  <2>1. box \in LeftAtServer(c)
    BY <1>4 DEF Left
  <2>2. \E k \in 0 .. Len(old) : box = Append(SubSeq(old, 1, k), Close)
    BY <1>1, <1>4, <2>1 DEF LeftAtServer
  <2> QED BY <1>2, <2>2
<1>5. CASE open[Server][c] /\ r # Server
  <2>1. box \in LeftAtClient(c)
    BY <1>5 DEF Left
  <2>2. \E k \in 0 .. Len(old) : box = SubSeq(old, 1, k)
    BY <1>1, <1>5, <2>1 DEF LeftAtClient
  <2> QED BY <1>2, <2>2
<1> QED BY <1>3, <1>4, <1>5

\* Every message of an inbox was there or arrives.
LEMMA ArrivalStep ==
    ASSUME PeerTypeOK, JobInv, MessageInv, [Next]_vars, NEW r \in Peers, NEW t \in Neighbours(r)
    PROVE  \A m \in Range(inbox'[r][t]) : m \in Range(inbox[r][t]) \/ Arrives(r, t, m)
<1> DEFINE old == inbox[r][t]
           new == inbox'[r][t]
           Goal == \A m \in Range(new) : m \in Range(old) \/ Arrives(r, t, m)
<1>1. old \in Seq(Messages) /\ t \in Peers /\ r \in Neighbours(t) /\ Close \in Messages
  BY StateTypes, NeighbourFacts, MessageTypes
<1>2. ASSUME new = old PROVE Goal
  BY <1>2
<1>3. ASSUME new = Tail(old), old # <<>> PROVE Goal
  BY <1>1, <1>3, RangeFacts
<1>4. ASSUME NEW msgs \in Seq(Messages), new = old \o msgs,
             \A m \in Range(msgs) : \E changes \in SUBSET Sendable(t, r) : m = Data(changes)
      PROVE  Goal
  <2>1. Range(new) = Range(old) \cup Range(msgs)
    BY <1>1, <1>4, RangeOfConcat
  <2> QED BY <1>4, <2>1 DEF Arrives
<1>5. ASSUME new \in Left(r, Link(r, t)) PROVE Goal
  BY <1>5, LeftIsThere DEF Arrives
<1> HIDE DEF old, new, Goal
<1>6. ASSUME NEW p \in Peers,
             Write(p) \/ CheckLocal(p) \/ LogLocal(p) \/ Publish(p) \/ Restart(p)
      PROVE  Goal
  <2>1. CASE Write(p) \/ CheckLocal(p) \/ LogLocal(p)
    BY <1>2, <2>1 DEF Write, CheckLocal, LogLocal, net, old, new
  <2>2. CASE Publish(p)
    <3>1. job[p].step = "known"
      BY <2>2 DEF Publish
    <3>2. CASE t = p /\ Reaches(p, r)
      <4> DEFINE msgs == Broadcast(p, job[p].changes, job[p].peer)[r]
      <4>1. new = old \o msgs
        BY <1>1, <2>2, <3>2, PublishEffect DEF old, new
      <4>2. r \in Neighbours(p)
        BY <1>1, <3>2
      <4>3. msgs \in Seq(Messages) /\ \A m \in Range(msgs) : \E changes \in SUBSET Sendable(p, r) : m = Data(changes)
        BY ONLY PeerTypeOK, p \in Peers, <4>2, <3>1, BroadcastIsSendable
      <4> HIDE DEF msgs
      <4> QED BY <1>4, <3>2, <4>1, <4>3
    <3>3. CASE ~(t = p /\ Reaches(p, r))
      <4>1. new = old
        BY <1>1, <2>2, <3>3, PublishEffect DEF old, new
      <4> QED BY <1>2, <4>1
    <3> QED BY <3>2, <3>3
  <2>3. CASE Restart(p)
    <3>1. TopsIn(saved[p], hist[p])
      BY DEF JobInv, JobOk
    <3>2. CASE r = p
      <4>1. new = <<>>
        BY <2>3, <3>1, <3>2, RestartEffect DEF new
      <4>2. Range(<<>>) = {}
        BY DEF Range
      <4> QED BY <4>1, <4>2 DEF Goal
    <3>3. CASE r # p /\ t = p
      <4>1. new \in Left(r, Link(p, r))
        BY <2>3, <3>1, <3>3, RestartEffect DEF new
      <4>2. Link(p, r) = Link(r, t)
        BY <3>3, NeighbourFacts
      <4> QED BY <1>5, <4>1, <4>2
    <3>4. CASE r # p /\ t # p
      <4>1. new = old
        BY <2>3, <3>1, <3>4, RestartEffect DEF old, new
      <4> QED BY <1>2, <4>1
    <3> QED BY <3>2, <3>3, <3>4
  <2> QED BY <1>6, <2>1, <2>2, <2>3
<1>7. ASSUME NEW p \in Peers, NEW q \in Neighbours(p),
             \/ Receive(p, q) \/ OnConnect(p, q) \/ Cancel(p, q) \/ OnSync(p, q)
             \/ SyncTurn(p, q) \/ StrayTurn(p, q)
      PROVE  Goal
  <2>1. CASE Receive(p, q) \/ OnSync(p, q)
    <3>1. inbox[p][q] # <<>> /\ inbox'[p][q] = Tail(inbox[p][q])
          /\ (~(r = p /\ t = q) => inbox'[r][t] = inbox[r][t])
      <4>1. inbox[p][q] # <<>>
        BY <2>1 DEF Receive, OnSync, Next1
      <4> QED BY <2>1, <4>1, ReceiveTables, OnSyncEffect
    <3> QED BY <1>2, <1>3, <3>1 DEF old, new
  <2>2. CASE OnConnect(p, q)
    <3>1. CASE r = p /\ t = q
      BY <1>3, <2>2, <3>1, OnConnectEffect DEF old, new
    <3>2. CASE r = q /\ t = p
      <4> DEFINE more == SyncFrom(cursor[p])
      <4>0. new = Append(old, more) \/ new = old
        BY <2>2, <3>2, OnConnectEffect DEF old, new
      <4>1. job[p].step = "idle"
        BY <2>2, OnConnectEffect
      <4>2. more \in Messages
        BY StateTypes, MessageTypes
      <4> HIDE DEF more
      <4>3. new = Append(old, more) => Range(new) = Range(old) \cup {more}
        BY <1>1, <4>2, RangeOfAppend DEF old
      <4>4. Arrives(r, t, more)
        BY <3>2, <4>1 DEF Arrives, more
      <4> QED BY <4>0, <4>3, <4>4 DEF Goal
    <3>3. CASE ~(r = p /\ t = q) /\ ~(r = q /\ t = p)
      <4>1. new = old
        BY <2>2, <3>3, OnConnectEffect DEF old, new
      <4> QED BY <1>2, <4>1
    <3> QED BY <3>1, <3>2, <3>3
  <2>3. CASE Cancel(p, q)
    BY <1>2, <2>3 DEF Cancel, net, old, new
  <2>4. CASE SyncTurn(p, q) \/ StrayTurn(p, q)
    <3>1. PICK i \in Runs(p, q) :
            /\ i.sync.on
            /\ Reaches(p, q) => inbox'[q][p] = inbox[q][p] \o Turn(p, i)
            /\ ~Reaches(p, q) => inbox'[q][p] = inbox[q][p]
            /\ ~(r = q /\ t = p) => inbox'[r][t] = inbox[r][t]
      <4>1. CASE SyncTurn(p, q)
        <5> DEFINE i == info[p][q]
        <5>1. i.sync.on
          BY <4>1, SyncTurnEffect
        <5>2. /\ Reaches(p, q) => inbox'[q][p] = inbox[q][p] \o Turn(p, i)
              /\ ~Reaches(p, q) => inbox'[q][p] = inbox[q][p]
          BY <4>1, SyncTurnEffect
        <5>3. \A x \in Peers : \A y \in Neighbours(x) :
                /\ ~(x = p /\ y = q) => info'[x][y] = info[x][y]
                /\ ~(x = q /\ y = p) => inbox'[x][y] = inbox[x][y]
          BY ONLY PeerTypeOK, <4>1, SyncTurnEffect
        <5>4. i \in Runs(p, q)
          BY DEF Runs
        <5> HIDE DEF i
        <5> QED BY <5>1, <5>2, <5>3, <5>4
      <4>2. CASE StrayTurn(p, q)
        <5>1. PICK i \in strays[p][q] :
                /\ Reaches(p, q) => inbox'[q][p] = inbox[q][p] \o Turn(p, i)
                /\ ~Reaches(p, q) => inbox'[q][p] = inbox[q][p]
                /\ \A x \in Peers : \A y \in Neighbours(x) :
                    ~(x = q /\ y = p) => inbox'[x][y] = inbox[x][y]
          BY <4>2, StrayTurnEffect
        <5>2. i.sync.on /\ i \in Runs(p, q)
          BY DEF MessageInv, RunsOk, Runs
        <5> QED BY <5>1, <5>2
      <4> QED BY <2>4, <4>1, <4>2
    <3>2. CASE r = q /\ t = p /\ Reaches(p, q)
      <4>1. Turn(p, i) \in Seq(Messages)
            /\ \A m \in Range(Turn(p, i)) : \E changes \in SUBSET Sendable(p, q) : m = Data(changes)
        BY <3>1, ToldIsSendable
      <4>2. new = old \o Turn(p, i)
        BY <3>1, <3>2 DEF old, new
      <4> QED BY <1>4, <3>2, <4>1, <4>2
    <3>3. CASE ~(r = q /\ t = p /\ Reaches(p, q))
      BY <1>2, <3>1, <3>3 DEF old, new
    <3> QED BY <3>2, <3>3
  <2> QED BY <1>7, <2>1, <2>2, <2>3, <2>4
<1>8. ASSUME NEW c \in Clients, Open(c) \/ Hear(c) \/ OnClose(c) \/ Drop(c)
      PROVE  Goal
  <2>1. CASE Open(c)
    <3>1. CASE Link(r, t) = c
      <4> DEFINE e == epoch[c] + 1
                 more == Connect(e)
      <4>1. new = Append(old, more) /\ epoch'[c] = e /\ e \in Nat
        BY <2>1, <3>1, OpenEffect DEF old, new
      <4>2. more \in Messages
        BY <4>1, MessageTypes
      <4>3. Arrives(r, t, more)
        BY <3>1, <4>1 DEF Arrives
      <4> HIDE DEF more
      <4>4. Range(new) = Range(old) \cup {more}
        BY <1>1, <4>1, <4>2, RangeOfAppend DEF old
      <4> QED BY <4>3, <4>4 DEF Goal
    <3>2. CASE Link(r, t) # c
      BY <1>2, <2>1, <3>2, OpenEffect DEF old, new
    <3> QED BY <3>1, <3>2
  <2>2. CASE Hear(c)
    BY <1>2, <2>2 DEF Hear, old, new
  <2>3. CASE OnClose(c)
    <3>1. CASE r = Server /\ t = c
      BY <1>3, <2>3, <3>1, OnCloseEffect DEF old, new
    <3>2. CASE ~(r = Server /\ t = c)
      BY <1>2, <2>3, <3>2, OnCloseEffect DEF old, new
    <3> QED BY <3>1, <3>2
  <2>4. CASE Drop(c)
    <3>1. CASE Link(r, t) = c
      <4>1. new \in Left(r, c)
        <5>1. /\ open[Server][c] /\ inbox'[Server][c] \in LeftAtServer(c)
              /\ inbox'[c][Server] \in LeftAtClient(c)
          BY <2>4, DropEffect
        <5>2. (r = Server /\ t = c) \/ (r = c /\ t = Server)
          BY <3>1, Ends
        <5>3. c # Server
          BY ClientFacts
        <5> QED BY <5>1, <5>2, <5>3 DEF Left, new
      <4> QED BY <1>5, <3>1, <4>1
    <3>2. CASE Link(r, t) # c
      BY <1>2, <2>4, <3>2, DropEffect DEF old, new
    <3> QED BY <3>1, <3>2
  <2> QED BY <1>8, <2>1, <2>2, <2>3, <2>4
<1>9. CASE UNCHANGED vars
  BY <1>2, <1>9 DEF vars, net, old, new
<1> QED BY <1>6, <1>7, <1>8, <1>9, Steps DEF Goal, old, new

\* What may be sent is logged.
LEMMA SendableIsLogged ==
    ASSUME PeerTypeOK, JobInv, MessageInv, NEW p \in Peers, NEW q \in Neighbours(p)
    PROVE  Sendable(p, q) \subseteq hist[p]
BY DEF Sendable, JobInv, JobOk, MessageInv, RunsOk, Rows, RowsOf

\* Whatever arrives is in the history of its sender.
LEMMA MessagesStep ==
    ASSUME PeerTypeOK, PeerTypeOK', JobInv, MessageInv, [Next]_vars, NEW p \in Peers, NEW q \in Neighbours(p)
    PROVE  MessagesOk(p, q)'
<1>1. /\ q \in Peers /\ p \in Neighbours(q) /\ hist[q] \subseteq hist'[q]
      /\ inbox[p][q] \in Seq(Messages) /\ inbox'[p][q] \in Seq(Messages)
  <2>1. Table(inbox, Seq(Messages)) /\ Table(inbox', Seq(Messages))
    BY DEF PeerTypeOK
  <2> QED BY <2>1, NeighbourFacts, HistoriesGrow DEF Table
<1>2. ASSUME NEW m \in Range(inbox'[p][q])
      PROVE  /\ m.changes \subseteq hist'[q] /\ TopsIn(m.cursor, hist'[q])
             /\ m.type # "data" => m.changes = {}
  <2>1. CASE m \in Range(inbox[p][q])
    <3>1. PICK k \in DOMAIN inbox[p][q] : m = inbox[p][q][k]
      BY <2>1, <1>1, RangeFacts
    <3>2. /\ m.changes \subseteq hist[q] /\ TopsIn(m.cursor, hist[q])
          /\ m.type # "data" => m.changes = {}
      BY <3>1 DEF MessageInv, MessagesOk
    <3> QED BY <3>2, <1>1, TopsInMore
  <2>2. CASE m = Close \/ m = Connect(epoch'[Link(p, q)])
    <3>1. m.changes = {} /\ m.cursor = NoCursor
      BY <2>2 DEF Close, Connect
    <3> QED BY <3>1, NoCursorFacts
  <2>3. CASE m = SyncFrom(cursor[q]) /\ job[q].step = "idle"
    <3>1. m.changes = {} /\ m.cursor = cursor[q]
      BY <2>3 DEF SyncFrom
    <3>2. Unlogged(q) = {} /\ hist[q] \cup {} = hist[q]
      BY <2>3 DEF Unlogged
    <3>3. TopsIn(cursor[q], hist[q] \cup Unlogged(q))
      BY <1>1 DEF JobInv, JobOk
    <3>4. TopsIn(cursor[q], hist[q])
      BY <3>2, <3>3
    <3> QED BY <3>1, <3>4, <1>1, TopsInMore
  <2>4. CASE \E changes \in SUBSET Sendable(q, p) : m = Data(changes)
    <3>1. PICK changes \in SUBSET Sendable(q, p) : m = Data(changes)
      BY <2>4
    <3>2. m.changes = changes /\ m.cursor = NoCursor /\ m.type = "data"
      BY <3>1 DEF Data
    <3>3. Sendable(q, p) \subseteq hist[q]
      BY <1>1, SendableIsLogged
    <3> QED BY <3>2, <3>3, <1>1, NoCursorFacts
  <2> QED BY <2>1, <2>2, <2>3, <2>4, ArrivalStep DEF Arrives
<1>3. \A k \in DOMAIN inbox'[p][q] : inbox'[p][q][k] \in Range(inbox'[p][q])
  BY DEF Range
<1> QED BY <1>2, <1>3 DEF MessagesOk

\* The exchanges p has with q, when nothing but their cursors or counters change.
LEMMA RunsKept ==
    ASSUME NEW p \in Peers, NEW q \in Neighbours(p), RunsOk(p, q), hist[p] \subseteq hist'[p],
           strays'[p][q] = strays[p][q],
           info'[p][q].known = info[p][q].known, info'[p][q].active = info[p][q].active,
           info'[p][q].pending = info[p][q].pending, info'[p][q].sync.on = info[p][q].sync.on
    PROVE  RunsOk(p, q)'
BY DEF RunsOk, Runs

\* A new or forgotten PeerInfo keeps RunsOk.
LEMMA RunsNew ==
    ASSUME NEW p \in Peers, NEW q \in Neighbours(p), RunsOk(p, q), hist[p] \subseteq hist'[p],
           \A i \in strays'[p][q] : i \in Runs(p, q) /\ i.sync.on,
           info'[p][q].active = FALSE, info'[p][q].pending = {}, info'[p][q].sync.on = FALSE
    PROVE  RunsOk(p, q)'
BY DEF RunsOk, Runs

\* Publishing keeps RunsOk: what becomes pending is logged.
LEMMA RunsPublish ==
    ASSUME PeerTypeOK, NEW p \in Peers, JobOk(p), NEW q \in Neighbours(p), RunsOk(p, q), Publish(p)
    PROVE  RunsOk(p, q)'
<1> DEFINE J == job[p].changes
           from == job[p].peer
           i == info[p][q]
           j == AfterBroadcast(p, J, from)[q]
<1>1. job[p].step = "known" /\ strays' = strays /\ hist' = hist
  BY DEF Publish
<1>2. J \subseteq hist[p] /\ J \in SUBSET Changes
  BY <1>1, StateTypes DEF JobOk
<1>3. info'[p][q] = j
  BY PublishEffect
<1>4. /\ j.known = i.known /\ j.active = i.active /\ j.sync = i.sync
      /\ j.pending = IF Waiting(p, q, from) THEN i.pending \cup J
                     ELSE IF Listening(p, q, from) THEN {} ELSE i.pending
  <2> HIDE DEF J, from
  <2>1. j.known = i.known /\ j.active = i.active /\ j.sync = i.sync
    BY <1>2, AfterBroadcastSame
  <2>2. Waiting(p, q, from) => j.pending = i.pending \cup J
    BY <1>2, AfterBroadcastWaiting
  <2>3. Listening(p, q, from) => j.pending = {}
    BY <1>2, AfterBroadcastListening
  <2>4. ~Waiting(p, q, from) /\ ~Listening(p, q, from) => j.pending = i.pending
    BY <1>2, AfterBroadcastOthers
  <2> HIDE DEF i, j
  <2> QED BY <2>1, <2>2, <2>3, <2>4
<1>5. i.active => ~Waiting(p, q, from)
  BY DEF Waiting
<1>6. /\ i.pending \subseteq hist[p] /\ (i.active => i.pending = {})
      /\ (~i.known => ~i.sync.on /\ ~i.active)
      /\ \A k \in strays[p][q] : k.pending \subseteq hist[p] /\ k.sync.on
  BY DEF RunsOk, Runs
<1> HIDE DEF J, from, i, j
<1>7. /\ j.pending \subseteq hist[p] /\ (j.active => j.pending = {})
      /\ (~j.known => ~j.sync.on /\ ~j.active)
  BY <1>2, <1>4, <1>5, <1>6
<1> QED BY <1>1, <1>3, <1>6, <1>7 DEF RunsOk, Runs

\* A turn keeps RunsOk.
LEMMA RunsSyncTurn ==
    ASSUME PeerTypeOK, NEW p \in Peers, NEW q \in Neighbours(p), RunsOk(p, q), SyncTurn(p, q)
    PROVE  RunsOk(p, q)'
<1> DEFINE i == info[p][q]
           cur == Advance(i.cursor, Told(p, i))
           j == AfterTurn(p, i, cur)
<1>1. strays' = strays /\ hist' = hist /\ i.sync.on
  BY DEF SyncTurn, durable
<1>2. cur \in Cursors /\ i \in Infos
  BY StateTypes, SyncTurnEffect
<1>6. info'[p][q] = j
  BY SyncTurnEffect
<1> HIDE DEF cur
<1>3. /\ j.known = i.known
      /\ IsLast(p, i.sync) => j.pending = {} /\ j.sync = NoSync /\ j.active = TRUE
      /\ ~IsLast(p, i.sync) => /\ j.pending = i.pending /\ j.active = i.active
                               /\ j.sync.on = i.sync.on
  <2> HIDE DEF i
  <2>1. j.known = i.known
    BY <1>2, AfterTurnSame
  <2>2. IsLast(p, i.sync) => j.pending = {} /\ j.sync = NoSync /\ j.active = TRUE
    BY <1>2, AfterTurnLast
  <2>3. ~IsLast(p, i.sync) => j.pending = i.pending /\ j.active = i.active /\ j.sync.on = i.sync.on
    BY <1>2, AfterTurnMore
  <2> QED BY <2>1, <2>2, <2>3
<1>4. /\ i.pending \subseteq hist[p] /\ (i.active => i.pending = {}) /\ i.known
      /\ \A k \in strays[p][q] : k.pending \subseteq hist[p] /\ k.sync.on
  BY <1>1 DEF RunsOk, Runs
<1> HIDE DEF i, j
<1>5. /\ j.pending \subseteq hist[p] /\ (j.active => j.pending = {}) /\ j.known
  BY <1>3, <1>4
<1> QED BY <1>1, <1>4, <1>5, <1>6 DEF RunsOk, Runs

\* So does a turn of an old syncPeer.
LEMMA RunsStrayTurn ==
    ASSUME PeerTypeOK, NEW p \in Peers, NEW q \in Neighbours(p), RunsOk(p, q), StrayTurn(p, q)
    PROVE  RunsOk(p, q)'
<1>1. hist' = hist
  BY DEF StrayTurn, durable
<1>2. PICK i \in strays[p][q] :
        /\ info'[p][q] = AfterStray(p, q, i)
        /\ strays'[p][q] = StraysLeft(p, q, i)
  BY StrayTurnEffect
<1>3. /\ info'[p][q].known = info[p][q].known /\ info'[p][q].active = info[p][q].active
      /\ info'[p][q].pending = info[p][q].pending /\ info'[p][q].sync = info[p][q].sync
  BY <1>2, AfterStrayFacts
<1>4. \A k \in strays'[p][q] : k.pending \subseteq hist[p] /\ k.sync.on
  <2> DEFINE k == AfterTurn(p, i, i.cursor)
  <2>1. \A m \in strays[p][q] : m.pending \subseteq hist[p] /\ m.sync.on
    BY DEF RunsOk, Runs
  <2>2. i \in Infos /\ i.cursor \in Cursors
    BY StateTypes, InfoFields
  <2>3. ~IsLast(p, i.sync) => k.pending = i.pending /\ k.sync.on = i.sync.on
    BY <2>2, AfterTurnMore
  <2> HIDE DEF k
  <2>4. strays'[p][q] = (strays[p][q] \ {i}) \cup (IF IsLast(p, i.sync) THEN {} ELSE {k})
    BY <1>2 DEF StraysLeft, k
  <2> QED BY <2>1, <2>3, <2>4
<1>5. /\ info[p][q].pending \subseteq hist[p] /\ (info[p][q].active => info[p][q].pending = {})
      /\ (~info[p][q].known => ~info[p][q].sync.on /\ ~info[p][q].active)
  BY DEF RunsOk, Runs
<1> QED BY <1>1, <1>3, <1>4, <1>5 DEF RunsOk, Runs

\* Whatever is kept for sending is logged.
LEMMA RunsStep ==
    ASSUME PeerTypeOK, JobInv, MessageInv, [Next]_vars, NEW r \in Peers, NEW t \in Neighbours(r)
    PROVE  RunsOk(r, t)'
<1>1. RunsOk(r, t) /\ JobOk(r) /\ hist[r] \subseteq hist'[r]
  BY HistoriesGrow DEF MessageInv, JobInv
<1>2. ASSUME info'[r][t] = info[r][t], strays'[r][t] = strays[r][t] PROVE RunsOk(r, t)'
  BY <1>1, <1>2, RunsKept
<1>3. \A i \in strays[r][t] : i \in Runs(r, t) /\ i.sync.on
  BY <1>1 DEF RunsOk, Runs
<1>4. ASSUME NEW p \in Peers,
             Write(p) \/ CheckLocal(p) \/ LogLocal(p) \/ Publish(p) \/ Restart(p)
      PROVE  RunsOk(r, t)'
  <2>1. CASE Write(p) \/ CheckLocal(p) \/ LogLocal(p)
    BY <1>2, <2>1 DEF Write, CheckLocal, LogLocal, memory
  <2>2. CASE Publish(p)
    <3>1. CASE r = p BY <1>1, <2>2, <3>1, RunsPublish
    <3>2. CASE r # p
      <4>1. strays' = strays
        BY <2>2 DEF Publish
      <4> QED BY <1>2, <2>2, <3>2, <4>1, PublishEffect
    <3> QED BY <3>1, <3>2
  <2>3. CASE Restart(p)
    <3>1. TopsIn(saved[p], hist[p])
      BY DEF JobInv, JobOk
    <3>2. CASE r = p
      <4>1. info'[r][t] = NoInfo /\ strays'[r][t] = {}
        BY <2>3, <3>1, <3>2, RestartEffect
      <4> QED BY <1>1, <4>1, NoInfoFields, RunsNew
    <3>3. CASE r # p
      BY <1>2, <2>3, <3>1, <3>3, RestartEffect
    <3> QED BY <3>2, <3>3
  <2> QED BY <1>4, <2>1, <2>2, <2>3
<1>5. ASSUME NEW p \in Peers, NEW q \in Neighbours(p),
             \/ Receive(p, q) \/ OnConnect(p, q) \/ Cancel(p, q) \/ OnSync(p, q)
             \/ SyncTurn(p, q) \/ StrayTurn(p, q)
      PROVE  RunsOk(r, t)'
  <2>1. CASE r = p /\ t = q
    <3>1. CASE Receive(p, q)
      <4>1. strays' = strays /\ info'[r][t] = AfterReceive(p, q)
        <5>1. strays' = strays
          BY <3>1 DEF Receive
        <5> QED BY <2>1, <3>1, <5>1, ReceiveTables
      <4>2. /\ info'[r][t].known = info[r][t].known /\ info'[r][t].active = info[r][t].active
            /\ info'[r][t].pending = info[r][t].pending /\ info'[r][t].sync = info[r][t].sync
        BY <2>1, <3>1, <4>1, AfterReceiveFacts
      <4> QED BY <1>1, <4>1, <4>2, RunsKept
    <3>2. CASE OnConnect(p, q)
      <4>1. /\ info'[r][t] = NewInfo(Head(inbox[p][q]).epoch)
            /\ info[r][t].sync.on => strays'[r][t] = strays[r][t] \cup {info[r][t]}
            /\ ~info[r][t].sync.on => strays'[r][t] = strays[r][t]
        BY <2>1, <3>2, OnConnectEffect
      <4>2. \A i \in strays'[r][t] : i \in Runs(r, t) /\ i.sync.on
        BY <1>3, <4>1 DEF Runs
      <4>3. info'[r][t].active = FALSE /\ info'[r][t].pending = {} /\ info'[r][t].sync.on = FALSE
        <5>1. ASSUME NEW e PROVE NewInfo(e).active = FALSE /\ NewInfo(e).pending = {} /\ NewInfo(e).sync.on = FALSE
          BY NewInfoFields, NoInfoFields
        <5> QED BY <4>1, <5>1
      <4> QED BY <1>1, <4>2, <4>3, RunsNew
    <3>3. CASE Cancel(p, q)
      <4>1. strays' = strays /\ info'[r][t] = AfterCancel(p, q)
        <5>1. strays' = strays
          BY <3>3 DEF Cancel
        <5> QED BY <2>1, <3>3, <5>1, CancelEffect
      <4>2. /\ info'[r][t].known = info[r][t].known /\ info'[r][t].active = info[r][t].active
            /\ info'[r][t].pending = info[r][t].pending /\ info'[r][t].sync.on = info[r][t].sync.on
        <5>1. LET i == info[p][q]
                  j == AfterCancel(p, q)
              IN  j.known = i.known /\ j.active = i.active /\ j.pending = i.pending /\ j.sync.on = i.sync.on
          BY AfterCancelFacts
        <5> QED BY <2>1, <4>1, <5>1
      <4> QED BY <1>1, <4>1, <4>2, RunsKept
    <3>4. CASE OnSync(p, q)
      <4>1. strays' = strays /\ inbox[p][q] # <<>>
        BY <3>4 DEF OnSync, Next1
      <4>2. info'[r][t] = AfterSync(p, q)
        BY <2>1, <3>4, OnSyncEffect
      <4>3. /\ info'[r][t].known = info[r][t].known /\ info'[r][t].active = info[r][t].active
            /\ info'[r][t].pending = info[r][t].pending
            /\ ~info[r][t].known => info'[r][t] = info[r][t]
        <5>1. LET i == info[p][q]
                  j == AfterSync(p, q)
              IN  /\ j.known = i.known /\ j.active = i.active /\ j.pending = i.pending
                  /\ ~i.known => j = i
          BY <4>1, AfterSyncFacts
        <5> QED BY <2>1, <4>2, <5>1
      <4>4. CASE ~info[r][t].known
        BY <1>2, <4>1, <4>3, <4>4
      <4>5. CASE info[r][t].known
        <5>1. /\ info[r][t].pending \subseteq hist[r]
              /\ info[r][t].active => info[r][t].pending = {}
              /\ \A i \in strays[r][t] : i.pending \subseteq hist[r] /\ i.sync.on
          BY <1>1 DEF RunsOk, Runs
        <5> QED BY <1>1, <4>1, <4>3, <4>5, <5>1 DEF RunsOk, Runs
      <4> QED BY <4>4, <4>5
    <3>5. CASE SyncTurn(p, q)
      BY <1>1, <2>1, <3>5, RunsSyncTurn
    <3>6. CASE StrayTurn(p, q)
      BY <1>1, <2>1, <3>6, RunsStrayTurn
    <3> QED BY <1>5, <3>1, <3>2, <3>3, <3>4, <3>5, <3>6
  <2>2. CASE ~(r = p /\ t = q)
    <3>1. info'[r][t] = info[r][t]
      <4>1. CASE Receive(p, q) \/ OnSync(p, q)
        BY <2>2, <4>1, ReceiveTables, OnSyncEffect
      <4>4. CASE OnConnect(p, q)
        BY <2>2, <4>4, OnConnectEffect
      <4>5. CASE Cancel(p, q)
        <5>1. \A x \in Peers : \A y \in Neighbours(x) : ~(x = p /\ y = q) => info'[x][y] = info[x][y]
          BY ONLY PeerTypeOK, p \in Peers, q \in Neighbours(p), <4>5, CancelEffect
        <5> QED BY <2>2, <5>1
      <4>2. CASE SyncTurn(p, q)
        <5>1. \A x \in Peers : \A y \in Neighbours(x) :
                /\ ~(x = p /\ y = q) => info'[x][y] = info[x][y]
                /\ ~(x = q /\ y = p) => inbox'[x][y] = inbox[x][y]
          BY ONLY PeerTypeOK, p \in Peers, q \in Neighbours(p), <4>2, SyncTurnEffect
        <5> QED BY <2>2, <5>1
      <4>3. CASE StrayTurn(p, q)
        BY <2>2, <4>3, StrayTurnEffect
      <4> QED BY <1>5, <4>1, <4>2, <4>3, <4>4, <4>5
    <3>2. strays'[r][t] = strays[r][t]
      <4>1. CASE Receive(p, q) \/ Cancel(p, q) \/ OnSync(p, q) \/ SyncTurn(p, q)
        BY <4>1 DEF Receive, Cancel, OnSync, SyncTurn
      <4>2. CASE OnConnect(p, q) \/ StrayTurn(p, q)
        BY <2>2, <4>2, OnConnectEffect, StrayTurnEffect
      <4> QED BY <1>5, <4>1, <4>2
    <3> QED BY <1>2, <3>1, <3>2
  <2> QED BY <2>1, <2>2
<1>6. ASSUME NEW c \in Clients, Open(c) \/ Hear(c) \/ OnClose(c) \/ Drop(c)
      PROVE  RunsOk(r, t)'
  <2>1. CASE Open(c) \/ Hear(c) \/ Drop(c)
    BY <1>2, <2>1 DEF Open, Hear, Drop, memory
  <2>2. CASE OnClose(c)
    <3>1. strays' = strays
      BY <2>2 DEF OnClose
    <3>2. CASE r = Server /\ t = c
      <4>1. info'[r][t] = NoInfo
        BY <2>2, <3>2, OnCloseEffect
      <4>2. \A i \in strays'[r][t] : i \in Runs(r, t) /\ i.sync.on
        BY <1>3, <3>1
      <4> QED BY <1>1, <4>1, <4>2, NoInfoFields, RunsNew
    <3>3. CASE ~(r = Server /\ t = c)
      BY <1>2, <2>2, <3>1, <3>3, OnCloseEffect
    <3> QED BY <3>2, <3>3
  <2> QED BY <1>6, <2>1, <2>2
<1>7. CASE UNCHANGED vars
  BY <1>2, <1>7 DEF vars, memory
<1> QED BY <1>4, <1>5, <1>6, <1>7, Steps

\* What a peer has, what it works on and what it sends agree.
Local == PeerTypeOK /\ HistoryInv /\ JobInv /\ MessageInv

\* Local holds at first.
LEMMA InitLocal == Init => Local
<1> SUFFICES ASSUME Init PROVE Local
  OBVIOUS
<1>1. PeerTypeOK
  BY InitTypes
<1>2. \A p \in Peers : /\ hist[p] = data[p] /\ cursor[p] = saved[p] /\ job[p] = Idle
                       /\ saved[p] = [NoCursor EXCEPT ![p] = Initial[p]]
                       /\ Initial[p] \in 0 .. Writes[p] /\ Initial[p] \in Nat /\ Writes[p] \in Nat
  BY DEF Init, PeerConstants
<1>0. \A p \in Peers : data[p] = {[site |-> p, version |-> v] : v \in 1 .. Initial[p]}
  BY DEF Init
<1>3. \A p \in Peers : \A q \in Neighbours(p) :
        info[p][q] = NoInfo /\ strays[p][q] = {} /\ inbox[p][q] = <<>>
  BY DEF Init
<1>4. ASSUME NEW p \in Peers, NEW d \in data[p]
      PROVE  d.site = p /\ d.version \in 1 .. Initial[p]
  <2>1. PICK v \in 1 .. Initial[p] : d = [site |-> p, version |-> v]
    BY <1>0, <1>4
  <2> QED BY <2>1
<1>5. ASSUME NEW p \in Peers, NEW d \in Changes, d.site = p, d.version <= Initial[p]
      PROVE  d \in data[p]
  <2>1. d.version \in 1 .. Initial[p] /\ d = [site |-> p, version |-> d.version]
    BY <1>2, <1>5, ChangeFacts
  <2> QED BY <1>0, <2>1
<1>6. HistoryInv
  <2>1. ASSUME NEW p \in Peers
        PROVE  /\ hist[p] \subseteq data[p]
               /\ \A d \in data[p] : d \in hist[p] \/ d.site = p
               /\ \E n \in 0 .. Writes[p] :
                    {d \in data[p] : d.site = p} = {[site |-> p, version |-> v] : v \in 1 .. n}
               /\ \A d \in hist[p] :
                    /\ d \in hist[d.site]
                    /\ p # Server => d.site = p \/ d \in hist[Server]
                    /\ d.site = p => \A e \in Changes : e.site = p /\ e.version <= d.version => e \in hist[p]
    <3>1. {d \in data[p] : d.site = p} = {[site |-> p, version |-> v] : v \in 1 .. Initial[p]}
      BY <1>0, <1>4
    <3>2. ASSUME NEW d \in hist[p], NEW e \in Changes, e.site = p, e.version <= d.version
          PROVE  e \in hist[p]
      <4>1. d.version \in 1 .. Initial[p] /\ e.version \in Nat
        BY <1>2, <1>4, <3>2, ChangeFacts
      <4>2. e.version <= Initial[p]
        BY <1>2, <3>2, <4>1
      <4> QED BY <1>2, <1>5, <3>2, <4>2
    <3> QED BY <1>2, <1>4, <3>1, <3>2
  <2> QED BY <2>1 DEF HistoryInv
<1>7. JobInv
  <2>1. ASSUME NEW p \in Peers PROVE JobOk(p)
    <3>0. DOMAIN NoCursor = Peers /\ \A s \in Peers : NoCursor[s] = 0
      BY DEF NoCursor
    <3>1. cursor[p] = [NoCursor EXCEPT ![p] = Initial[p]] /\ saved[p] = cursor[p]
      BY <1>2
    <3>2. cursor[p][p] = Initial[p] /\ \A s \in Peers : s # p => cursor[p][s] = 0
      BY <3>0, <3>1
    <3>3. ASSUME NEW d \in Covered(p), d.site = p PROVE d \in hist[p]
      <4>1. d \in Changes /\ d.version <= Initial[p]
        BY <3>2, <3>3 DEF Covered, Below
      <4> QED BY <1>2, <1>5, <3>3, <4>1
    <3>4. TopsIn(cursor[p], hist[p])
      <4>1. ASSUME NEW s \in Peers, cursor[p][s] > 0 PROVE [site |-> s, version |-> cursor[p][s]] \in hist[p]
        <5>1. s = p /\ Initial[p] \in 1 .. Initial[p]
          BY <1>2, <3>2, <4>1
        <5>2. [site |-> p, version |-> Initial[p]] \in data[p]
          BY <1>0, <5>1
        <5> QED BY <1>2, <3>2, <5>1, <5>2
      <4> QED BY <4>1 DEF TopsIn
    <3>5. job[p].step = "idle" /\ job[p].changes = {} /\ Unlogged(p) = {} /\ hist[p] \cup {} = hist[p]
      <4>1. job[p] = Idle
        BY <1>2
      <4>2. job[p].step = "idle" /\ job[p].changes = {}
        BY <4>1 DEF Idle
      <4> QED BY <4>2 DEF Unlogged
    <3> QED BY <3>1, <3>3, <3>4, <3>5 DEF JobOk
  <2> QED BY <2>1 DEF JobInv
<1>8. MessageInv
  <2>1. ASSUME NEW p \in Peers, NEW q \in Neighbours(p) PROVE MessagesOk(p, q) /\ RunsOk(p, q)
    <3>1. DOMAIN inbox[p][q] = {}
      BY <1>3
    <3>2. MessagesOk(p, q)
      BY <3>1 DEF MessagesOk
    <3>3. Runs(p, q) = {NoInfo} /\ strays[p][q] = {} /\ info[p][q] = NoInfo
      BY <1>3 DEF Runs
    <3> QED BY <3>2, <3>3, NoInfoFields DEF RunsOk
  <2> QED BY <2>1 DEF MessageInv
<1> QED BY <1>1, <1>6, <1>7, <1>8 DEF Local

\* Every step keeps Local.
LEMMA LocalStep == Local /\ [Next]_vars => Local'
<1> SUFFICES ASSUME Local, [Next]_vars PROVE Local'
  OBVIOUS
<1>1. PeerTypeOK /\ HistoryInv /\ JobInv /\ MessageInv
  BY DEF Local
<1>2. PeerTypeOK'
  BY <1>1, TypesStep
<1>3. HistoryInv'
  BY <1>1, HistoryStep
<1>4. JobInv'
  BY <1>1, JobStep
<1>5. MessageInv'
  BY <1>1, <1>2, MessagesStep, RunsStep DEF MessageInv
<1> QED BY <1>2, <1>3, <1>4, <1>5 DEF Local

\* What a peer has, works on and sends agree at all times.
THEOREM LocalInvariance == Spec => []Local
<1>1. Init => Local
  BY InitLocal
<1>2. Local /\ [Next]_vars => Local'
  BY LocalStep
<1> QED BY <1>1, <1>2, PTL DEF Spec

\* PeerInv of PeerSync: what p reads back from its database after a stop is in
\* its history, and what waits for a peer does not wait for an active one.
THEOREM PeerSafety == Spec => []PeerInv
<1>1. Local => PeerInv
  <2> SUFFICES ASSUME Local PROVE PeerInv
    OBVIOUS
  <2>1. PeerTypeOK /\ HistoryInv /\ JobInv /\ MessageInv
    BY DEF Local
  <2>2. SavedCursorIsApplied
    <3>1. ASSUME NEW p \in Peers, NEW s \in Peers, saved[p][s] > 0
          PROVE  Holds(p, s, saved[p][s]) /\ [site |-> s, version |-> saved[p][s]] \in hist[p]
      <4>1. [site |-> s, version |-> saved[p][s]] \in hist[p]
        BY <2>1, <3>1 DEF JobInv, JobOk, TopsIn
      <4>2. hist[p] \subseteq data[p]
        BY <2>1 DEF HistoryInv
      <4> QED BY <4>1, <4>2 DEF Holds
    <3> QED BY <3>1 DEF SavedCursorIsApplied
  <2>3. ActiveHasNothingPending
    BY <2>1 DEF MessageInv, RunsOk, ActiveHasNothingPending
  <2> QED BY <2>1, <2>2, <2>3 DEF PeerInv
<1> QED BY <1>1, LocalInvariance, PTL

---------------------------------------------------------------------------
(* Inboxes.                                                                *)

\* The first message is handled.
LEMMA TailIndex ==
    ASSUME NEW box \in Seq(Messages), box # <<>>
    PROVE  /\ Len(box) \in Nat \ {0} /\ Len(Tail(box)) = Len(box) - 1
           /\ DOMAIN box = 1 .. Len(box) /\ DOMAIN Tail(box) = 1 .. Len(box) - 1
           /\ Head(box) = box[1] /\ 1 \in DOMAIN box
           /\ \A k \in DOMAIN Tail(box) : k + 1 \in DOMAIN box /\ Tail(box)[k] = box[k + 1]
           /\ \A k \in DOMAIN box : k # 1 => k - 1 \in DOMAIN Tail(box) /\ Tail(box)[k - 1] = box[k]
<1> DEFINE n == Len(box)
           t == Tail(box)
<1>1. /\ n \in Nat \ {0} /\ Len(t) = n - 1
      /\ DOMAIN box = 1 .. n /\ DOMAIN t = 1 .. n - 1
      /\ Head(box) = box[1]
      /\ \A k \in 1 .. n - 1 : t[k] = box[k + 1]
  BY HeadFacts
<1> HIDE DEF n, t
<1>2. ASSUME NEW k \in 1 .. n - 1 PROVE k + 1 \in 1 .. n
  BY <1>1
<1>3. ASSUME NEW k \in 1 .. n, k # 1 PROVE k - 1 \in 1 .. n - 1 /\ t[k - 1] = box[k]
  <2>1. k - 1 \in 1 .. n - 1 /\ (k - 1) + 1 = k
    BY <1>1, <1>3
  <2>2. t[k - 1] = box[(k - 1) + 1]
    BY <1>1, <2>1
  <2> QED BY <2>1, <2>2
<1>4. 1 \in 1 .. n
  BY <1>1
<1> QED BY <1>1, <1>2, <1>3, <1>4 DEF n, t

\* The controls behind the head.
LEMMA TailControls ==
    ASSUME NEW box \in Seq(Messages), box # <<>>
    PROVE  /\ Controls(box) = {} => Controls(Tail(box)) = {}
           /\ ~Control(Head(box)) /\ Controls(Tail(box)) = {} => Controls(box) = {}
<1> DEFINE t == Tail(box)
<1>1. /\ Head(box) = box[1]
      /\ \A k \in DOMAIN t : k + 1 \in DOMAIN box /\ t[k] = box[k + 1]
      /\ \A k \in DOMAIN box : k # 1 => k - 1 \in DOMAIN t /\ t[k - 1] = box[k]
  BY TailIndex
<1> HIDE DEF t
<1>2. ASSUME Controls(box) = {} PROVE Controls(t) = {}
  <2>1. \A k \in DOMAIN box : ~Control(box[k])
    BY <1>2 DEF Controls
  <2>2. \A k \in DOMAIN t : ~Control(t[k])
    BY <1>1, <2>1
  <2> QED BY <2>2 DEF Controls
<1>3. ASSUME ~Control(Head(box)), Controls(t) = {} PROVE Controls(box) = {}
  <2>1. \A k \in DOMAIN t : ~Control(t[k])
    BY <1>3 DEF Controls
  <2>2. \A k \in DOMAIN box : ~Control(box[k])
    BY <1>1, <1>3, <2>1
  <2> QED BY <2>2 DEF Controls
<1> QED BY <1>2, <1>3 DEF t

\* The connect of connection e stays the last control until it is handled.
LEMMA TailAnnounced ==
    ASSUME NEW box \in Seq(Messages), box # <<>>, NEW e \in Nat, Announced(box, e)
    PROVE  /\ Head(box) # Connect(e) => Announced(Tail(box), e)
           /\ Head(box) = Connect(e) => Controls(Tail(box)) = {}
           /\ Control(Head(box)) => Head(box).epoch <= e
           /\ Control(Head(box)) /\ Head(box).epoch = e => Head(box) = Connect(e)
<1> DEFINE t == Tail(box)
<1>1. /\ Head(box) = box[1] /\ 1 \in DOMAIN box
      /\ \A k \in DOMAIN t : k + 1 \in DOMAIN box /\ t[k] = box[k + 1]
      /\ \A k \in DOMAIN box : k # 1 => k - 1 \in DOMAIN t /\ t[k - 1] = box[k]
      /\ DOMAIN box = 1 .. Len(box) /\ DOMAIN t = 1 .. Len(box) - 1 /\ Len(box) \in Nat
  BY TailIndex
<1>2. PICK k \in Controls(box) :
        /\ box[k] = Connect(e)
        /\ \A j \in Controls(box) \ {k} : j < k /\ box[j].epoch < e
  BY DEF Announced
<1>3. \A j \in DOMAIN box : box[j].epoch \in Nat
  BY MessageFields, BoxFacts
<1>4. Connect(e).epoch = e
  BY DEF Connect
<1> HIDE DEF t
<1>5. \A j \in DOMAIN box : j \in Nat
  BY <1>1
<1>6. Control(Head(box)) => 1 \in Controls(box)
  BY <1>1 DEF Controls
<1>7. \A j \in Controls(box) : j \in DOMAIN box /\ Control(box[j])
  BY DEF Controls
<1>8. Control(Head(box)) => Head(box).epoch <= e /\ (Head(box).epoch = e => Head(box) = Connect(e))
  <2>1. SUFFICES ASSUME Control(Head(box))
                 PROVE  Head(box).epoch <= e /\ (Head(box).epoch = e => Head(box) = Connect(e))
    OBVIOUS
  <2>2. 1 \in Controls(box) /\ box[1].epoch \in Nat
    BY <1>1, <1>3, <1>6, <2>1
  <2>3. CASE k = 1
    <3>1. Head(box) = Connect(e)
      BY <1>1, <1>2, <2>3
    <3> QED BY <3>1, <1>4
  <2>4. CASE k # 1
    <3>1. box[1].epoch < e
      BY <1>2, <2>2, <2>4
    <3> QED BY <1>1, <2>2, <3>1
  <2> QED BY <2>3, <2>4
<1>9. ASSUME Head(box) = Connect(e) PROVE Controls(t) = {}
  <2>1. Control(Connect(e))
    BY DEF Control, Connect
  <2>2. 1 \in Controls(box)
    BY <1>6, <1>9, <2>1
  <2>3. k = 1
    BY <1>1, <1>2, <1>3, <1>4, <1>9, <2>2
  <2>4. ASSUME NEW j \in DOMAIN t PROVE ~Control(t[j])
    <3>1. j \in Nat /\ j >= 1 /\ j + 1 \in DOMAIN box /\ t[j] = box[j + 1]
      BY <1>1
    <3>2. Control(t[j]) => j + 1 \in Controls(box) \ {k} /\ j + 1 < 1
      BY <1>2, <2>3, <3>1 DEF Controls
    <3> QED BY <3>1, <3>2
  <2> QED BY <2>4 DEF Controls
<1>10. ASSUME Head(box) # Connect(e) PROVE Announced(t, e)
  <2>1. k # 1 /\ k \in DOMAIN box /\ k \in Nat
    BY <1>1, <1>2, <1>5, <1>7, <1>10
  <2> DEFINE l == k - 1
  <2>2. l \in DOMAIN t /\ t[l] = box[k] /\ l \in Int /\ k = l + 1
    BY <1>1, <2>1
  <2> HIDE DEF l
  <2>3. l \in Controls(t)
    BY <1>2, <1>7, <2>2 DEF Controls
  <2>4. ASSUME NEW j \in Controls(t) \ {l} PROVE j < l /\ t[j].epoch < e
    <3>1. j \in DOMAIN t /\ Control(t[j]) /\ j \in Nat
      BY <1>1 DEF Controls
    <3>2. j + 1 \in DOMAIN box /\ t[j] = box[j + 1]
      BY <1>1, <3>1
    <3>3. j + 1 \in Controls(box) \ {k}
      BY <2>2, <2>4, <3>1, <3>2 DEF Controls
    <3>4. j + 1 < k /\ box[j + 1].epoch < e
      BY <1>2, <3>3
    <3> QED BY <2>2, <3>1, <3>2, <3>4
  <2> QED BY <1>2, <2>2, <2>3, <2>4 DEF Announced
<1> QED BY <1>8, <1>9, <1>10 DEF t

\* An inbox that ends in a control does so behind its head.
LEMMA TailEnd ==
    ASSUME NEW box \in Seq(Messages), box # <<>>, EndsInControl(box)
    PROVE  /\ EndsInControl(Tail(box))
           /\ Controls(Tail(box)) = {} => Tail(box) = <<>>
<1> DEFINE t == Tail(box)
           n == Len(box)
<1>1. /\ n \in Nat \ {0} /\ Len(t) = n - 1 /\ DOMAIN box = 1 .. n /\ DOMAIN t = 1 .. n - 1
      /\ \A k \in DOMAIN box : k # 1 => k - 1 \in DOMAIN t /\ t[k - 1] = box[k]
  BY TailIndex
<1>2. Control(box[n])
  BY DEF EndsInControl
<1>3. t \in Seq(Messages) /\ (t = <<>> <=> n - 1 = 0)
  <2>1. t \in Seq(Messages)
    BY HeadFacts
  <2> QED BY <1>1, <2>1, BoxFacts
<1> HIDE DEF t, n
<1>4. t # <<>> => n \in DOMAIN box /\ n # 1
  BY <1>1, <1>3
<1>5. t # <<>> => n - 1 \in DOMAIN t /\ Control(t[n - 1])
  BY <1>1, <1>2, <1>4
<1> QED BY <1>1, <1>5 DEF EndsInControl, Controls, t

\* Data and syncs behind the head.
LEMMA TailData ==
    ASSUME NEW box \in Seq(Messages), box # <<>>
    PROVE  /\ DataFirst(box) => DataFirst(Tail(box))
           /\ HasData(Tail(box)) => HasData(box)
           /\ HasSync(Tail(box)) => HasSync(box)
           /\ DataFirst(box) /\ Control(Head(box)) => ~HasData(box)
<1> DEFINE t == Tail(box)
<1>1. /\ Head(box) = box[1] /\ 1 \in DOMAIN box
      /\ \A k \in DOMAIN t : k + 1 \in DOMAIN box /\ t[k] = box[k + 1]
      /\ DOMAIN box = 1 .. Len(box) /\ DOMAIN t = 1 .. Len(box) - 1 /\ Len(box) \in Nat
  BY TailIndex
<1> HIDE DEF t
<1>2. ASSUME DataFirst(box), NEW k \in DOMAIN t, t[k].type = "data", NEW j \in 1 .. k
      PROVE  ~Control(t[j])
  <2>1. k \in Nat /\ j \in Nat /\ j \in DOMAIN t /\ j + 1 \in 1 .. k + 1
    BY <1>1
  <2>2. k + 1 \in DOMAIN box /\ box[k + 1].type = "data" /\ t[j] = box[j + 1]
    BY <1>1, <1>2, <2>1
  <2> QED BY <1>2, <2>1, <2>2 DEF DataFirst
<1>3. HasData(t) => HasData(box)
  BY <1>1 DEF HasData
<1>4. HasSync(t) => HasSync(box)
  BY <1>1 DEF HasSync
<1>5. ASSUME DataFirst(box), Control(Head(box)), NEW k \in DOMAIN box PROVE box[k].type # "data"
  <2>1. 1 \in 1 .. k
    BY <1>1
  <2> QED BY <1>1, <1>5, <2>1 DEF DataFirst
<1> QED BY <1>2, <1>3, <1>4, <1>5 DEF DataFirst, HasData, t

\* The current syncs behind the head.
LEMMA TailSyncs ==
    ASSUME NEW box \in Seq(Messages), box # <<>>
    PROVE  /\ \A k \in CurrentSyncs(Tail(box)) : k + 1 \in CurrentSyncs(box)
           /\ \A k \in CurrentSyncs(box) : k # 1 => k - 1 \in CurrentSyncs(Tail(box))
           /\ OneSync(box) => OneSync(Tail(box))
<1> DEFINE t == Tail(box)
           n == Len(box)
<1>1. /\ n \in Nat \ {0} /\ Len(t) = n - 1 /\ DOMAIN box = 1 .. n /\ DOMAIN t = 1 .. n - 1
      /\ \A k \in DOMAIN t : k + 1 \in DOMAIN box /\ t[k] = box[k + 1]
      /\ \A k \in DOMAIN box : k # 1 => k - 1 \in DOMAIN t /\ t[k - 1] = box[k]
  BY TailIndex
<1> HIDE DEF t, n
<1>2. ASSUME NEW k \in CurrentSyncs(t) PROVE k + 1 \in CurrentSyncs(box)
  <2>1. k \in DOMAIN t /\ t[k].type = "sync" /\ \A j \in k .. n - 1 : ~Control(t[j])
    BY <1>1 DEF CurrentSyncs
  <2>2. k \in Nat /\ k + 1 \in DOMAIN box /\ box[k + 1].type = "sync"
    BY <1>1, <2>1
  <2>3. ASSUME NEW j \in k + 1 .. n PROVE ~Control(box[j])
    <3>1. j \in 1 .. n /\ j # 1 /\ j - 1 \in k .. n - 1
      BY <1>1, <2>1, <2>2
    <3> QED BY <1>1, <2>1, <3>1
  <2> QED BY <2>2, <2>3 DEF CurrentSyncs, n
<1>3. ASSUME NEW k \in CurrentSyncs(box), k # 1 PROVE k - 1 \in CurrentSyncs(t)
  <2>1. k \in DOMAIN box /\ box[k].type = "sync" /\ \A j \in k .. n : ~Control(box[j])
    BY DEF CurrentSyncs, n
  <2>2. k \in Nat /\ k - 1 \in DOMAIN t /\ t[k - 1].type = "sync"
    BY <1>1, <1>3, <2>1
  <2>3. ASSUME NEW j \in k - 1 .. n - 1 PROVE ~Control(t[j])
    <3>1. j \in 1 .. n - 1 /\ j + 1 \in k .. n
      BY <1>1, <2>1, <2>2, <1>3
    <3> QED BY <1>1, <2>1, <3>1
  <2> QED BY <1>1, <2>2, <2>3 DEF CurrentSyncs
<1>4. ASSUME OneSync(box), NEW j \in CurrentSyncs(t), NEW k \in CurrentSyncs(t) PROVE j = k
  <2>1. j \in Int /\ k \in Int
    BY <1>1 DEF CurrentSyncs
  <2>2. j + 1 = k + 1
    BY <1>2, <1>4 DEF OneSync
  <2> QED BY <2>1, <2>2
<1> QED BY <1>2, <1>3, <1>4 DEF OneSync, t

\* Messages come in at the end.
Extends(new, box) == Len(box) <= Len(new) /\ \A k \in 1 .. Len(box) : new[k] = box[k]

\* The places of an inbox into which messages came.
LEMMA ExtendsFacts ==
    ASSUME NEW box \in Seq(Messages), NEW new \in Seq(Messages), Extends(new, box)
    PROVE  /\ Len(box) \in Nat /\ Len(new) \in Nat
           /\ DOMAIN box = 1 .. Len(box) /\ DOMAIN new = 1 .. Len(new)
           /\ \A k \in DOMAIN box : k \in DOMAIN new /\ new[k] = box[k] /\ k <= Len(box)
           /\ \A k \in DOMAIN new : k \in DOMAIN box \/ k > Len(box)
<1>1. /\ Len(box) \in Nat /\ Len(new) \in Nat
      /\ DOMAIN box = 1 .. Len(box) /\ DOMAIN new = 1 .. Len(new)
  BY BoxFacts
<1>2. Len(box) <= Len(new) /\ \A k \in 1 .. Len(box) : new[k] = box[k]
  BY DEF Extends
<1>3. \A k \in 1 .. Len(box) : k \in 1 .. Len(new) /\ k <= Len(box)
  BY <1>1, <1>2
<1>4. \A k \in 1 .. Len(new) : k \in 1 .. Len(box) \/ k > Len(box)
  BY <1>1
<1> QED BY <1>1, <1>2, <1>3, <1>4

\* One message comes in at the end.
LEMMA AppendExtends ==
    ASSUME NEW box \in Seq(Messages), NEW m \in Messages
    PROVE  /\ Append(box, m) \in Seq(Messages) /\ Extends(Append(box, m), box)
           /\ Len(Append(box, m)) = Len(box) + 1 /\ Append(box, m)[Len(box) + 1] = m
           /\ \A k \in DOMAIN Append(box, m) : k > Len(box) => k = Len(box) + 1
<1> DEFINE new == Append(box, m)
<1>1. /\ new \in Seq(Messages) /\ Len(box) \in Nat /\ Len(new) = Len(box) + 1
      /\ \A k \in 1 .. Len(box) : new[k] = box[k]
      /\ DOMAIN new = 1 .. Len(box) + 1
  BY AppendFacts
<1>2. new[Len(box) + 1] = m
  BY AppendFacts
<1> HIDE DEF new
<1>3. Extends(new, box)
  BY <1>1 DEF Extends
<1>4. \A k \in DOMAIN new : k > Len(box) => k = Len(box) + 1
  BY <1>1
<1> QED BY <1>1, <1>2, <1>3, <1>4 DEF new

\* Some messages come in at the end.
LEMMA ConcatExtends ==
    ASSUME NEW box \in Seq(Messages), NEW more \in Seq(Messages)
    PROVE  /\ box \o more \in Seq(Messages) /\ Extends(box \o more, box)
           /\ \A k \in DOMAIN (box \o more) : k > Len(box) =>
                k - Len(box) \in DOMAIN more /\ (box \o more)[k] = more[k - Len(box)]
<1> DEFINE new == box \o more
           n == Len(box)
           l == Len(more)
<1>1. /\ new \in Seq(Messages) /\ n \in Nat /\ l \in Nat /\ Len(new) = n + l
      /\ \A k \in 1 .. n : new[k] = box[k]
      /\ \A k \in 1 .. l : new[n + k] = more[k]
      /\ DOMAIN new = 1 .. n + l
  BY ConcatFacts
<1>2. DOMAIN more = 1 .. l
  BY BoxFacts
<1> HIDE DEF new, n, l
<1>3. ASSUME NEW k \in DOMAIN new, k > n PROVE k - n \in DOMAIN more /\ new[k] = more[k - n]
  <2>1. k - n \in 1 .. l /\ n + (k - n) = k
    BY <1>1, <1>3
  <2> QED BY <1>1, <1>2, <2>1
<1>4. Extends(new, box)
  BY <1>1 DEF Extends, n
<1> QED BY <1>1, <1>3, <1>4 DEF new, n

\* What comes in and is no control leaves the controls as they are.
LEMMA ExtendControls ==
    ASSUME NEW box \in Seq(Messages), NEW new \in Seq(Messages), Extends(new, box),
           \A k \in DOMAIN new : k > Len(box) => ~Control(new[k])
    PROVE  /\ Controls(new) = Controls(box)
           /\ \A e \in Nat : Announced(box, e) => Announced(new, e)
           /\ CurrentSyncs(box) \subseteq CurrentSyncs(new)
<1>1. /\ Len(box) \in Nat /\ Len(new) \in Nat
      /\ DOMAIN box = 1 .. Len(box) /\ DOMAIN new = 1 .. Len(new)
      /\ \A k \in DOMAIN box : k \in DOMAIN new /\ new[k] = box[k] /\ k <= Len(box)
      /\ \A k \in DOMAIN new : k \in DOMAIN box \/ k > Len(box)
  BY ExtendsFacts
<1>2. Controls(new) = Controls(box)
  BY <1>1 DEF Controls
<1>3. \A k \in Controls(box) : new[k] = box[k]
  BY <1>1 DEF Controls
<1>4. \A e \in Nat : Announced(box, e) => Announced(new, e)
  BY <1>2, <1>3 DEF Announced
<1>5. ASSUME NEW k \in CurrentSyncs(box) PROVE k \in CurrentSyncs(new)
  <2>1. k \in DOMAIN box /\ box[k].type = "sync" /\ \A j \in k .. Len(box) : ~Control(box[j])
    BY DEF CurrentSyncs
  <2>2. ASSUME NEW j \in k .. Len(new) PROVE ~Control(new[j])
    <3>1. j \in DOMAIN new /\ (j \in DOMAIN box => j \in k .. Len(box))
      BY <1>1, <2>1
    <3> QED BY <1>1, <2>1, <3>1
  <2> QED BY <1>1, <2>1, <2>2 DEF CurrentSyncs
<1> QED BY <1>2, <1>4, <1>5

\* Data leave the controls and the syncs as they are.
LEMMA ExtendByData ==
    ASSUME NEW box \in Seq(Messages), NEW new \in Seq(Messages), Extends(new, box),
           \A k \in DOMAIN new : k > Len(box) => new[k].type = "data"
    PROVE  /\ Controls(new) = Controls(box)
           /\ CurrentSyncs(new) = CurrentSyncs(box)
           /\ OneSync(box) => OneSync(new)
           /\ HasSync(new) => HasSync(box)
           /\ Controls(box) = {} => DataFirst(new)
<1>1. /\ Len(box) \in Nat /\ Len(new) \in Nat
      /\ DOMAIN box = 1 .. Len(box) /\ DOMAIN new = 1 .. Len(new)
      /\ \A k \in DOMAIN box : k \in DOMAIN new /\ new[k] = box[k] /\ k <= Len(box)
      /\ \A k \in DOMAIN new : k \in DOMAIN box \/ k > Len(box)
  BY ExtendsFacts
<1>2. \A k \in DOMAIN new : k > Len(box) => ~Control(new[k])
  BY DEF Control
<1>3. Controls(new) = Controls(box) /\ CurrentSyncs(box) \subseteq CurrentSyncs(new)
  BY <1>2, ExtendControls
<1>4. ASSUME NEW k \in CurrentSyncs(new) PROVE k \in CurrentSyncs(box)
  <2>1. k \in DOMAIN new /\ new[k].type = "sync" /\ \A j \in k .. Len(new) : ~Control(new[j])
    BY DEF CurrentSyncs
  <2>2. k \in DOMAIN box
    BY <1>1, <2>1
  <2>3. ASSUME NEW j \in k .. Len(box) PROVE ~Control(box[j])
    <3>1. j \in DOMAIN box
      BY <1>1, <2>2
    <3>2. j \in k .. Len(new)
      BY <1>1, <2>2, <3>1
    <3> QED BY <1>1, <2>1, <3>1, <3>2
  <2> QED BY <1>1, <2>1, <2>2, <2>3 DEF CurrentSyncs
<1>5. CurrentSyncs(new) = CurrentSyncs(box)
  BY <1>3, <1>4
<1>6. HasSync(new) => HasSync(box)
  <2>1. "data" # "sync"
    OBVIOUS
  <2> QED BY <1>1, <2>1 DEF HasSync
<1>7. ASSUME Controls(box) = {} PROVE DataFirst(new)
  <2>1. \A k \in DOMAIN new : ~Control(new[k])
    BY <1>3, <1>7 DEF Controls
  <2>2. \A k \in DOMAIN new : \A j \in 1 .. k : j \in DOMAIN new
    BY <1>1
  <2> QED BY <2>1, <2>2 DEF DataFirst
<1> QED BY <1>3, <1>5, <1>6, <1>7 DEF OneSync

\* What comes in and is no data leaves the data first.
LEMMA ExtendDataFirst ==
    ASSUME NEW box \in Seq(Messages), NEW new \in Seq(Messages), Extends(new, box),
           \A k \in DOMAIN new : k > Len(box) => new[k].type # "data"
    PROVE  /\ DataFirst(box) => DataFirst(new)
           /\ HasData(new) => HasData(box)
<1>1. /\ Len(box) \in Nat /\ Len(new) \in Nat
      /\ DOMAIN box = 1 .. Len(box) /\ DOMAIN new = 1 .. Len(new)
      /\ \A k \in DOMAIN box : k \in DOMAIN new /\ new[k] = box[k] /\ k <= Len(box)
      /\ \A k \in DOMAIN new : k \in DOMAIN box \/ k > Len(box)
  BY ExtendsFacts
<1>2. ASSUME NEW k \in DOMAIN new, new[k].type = "data"
      PROVE  k \in DOMAIN box /\ box[k].type = "data" /\ \A j \in 1 .. k : j \in DOMAIN box /\ new[j] = box[j]
  <2>1. k \in DOMAIN box
    BY <1>1, <1>2
  <2>2. \A j \in 1 .. k : j \in DOMAIN box
    BY <1>1, <2>1
  <2> QED BY <1>1, <1>2, <2>1, <2>2
<1>3. HasData(new) => HasData(box)
  BY <1>2 DEF HasData
<1>4. DataFirst(box) => DataFirst(new)
  BY <1>2 DEF DataFirst
<1> QED BY <1>3, <1>4

\* A sync comes in.
LEMMA AppendSync ==
    ASSUME NEW box \in Seq(Messages), NEW cur \in Cursors
    PROVE  LET new == Append(box, SyncFrom(cur))
           IN  /\ Controls(new) = Controls(box)
               /\ \A e \in Nat : Announced(box, e) => Announced(new, e)
               /\ DataFirst(box) => DataFirst(new)
               /\ HasData(new) => HasData(box)
               /\ CurrentSyncs(new) # {}
               /\ EndsInControl(box) => CurrentSyncs(new) = {Len(box) + 1} /\ OneSync(new)
<1> DEFINE m == SyncFrom(cur)
           new == Append(box, m)
<1>1. m \in Messages /\ m.type = "sync" /\ ~Control(m)
  BY MessageTypes DEF SyncFrom, Control
<1> HIDE DEF m
<1>2. /\ new \in Seq(Messages) /\ Extends(new, box) /\ Len(new) = Len(box) + 1
      /\ new[Len(box) + 1] = m
      /\ \A k \in DOMAIN new : k > Len(box) => k = Len(box) + 1
  BY <1>1, AppendExtends
<1> HIDE DEF new
<1>3. /\ Len(box) \in Nat /\ Len(new) \in Nat
      /\ DOMAIN box = 1 .. Len(box) /\ DOMAIN new = 1 .. Len(new)
      /\ \A k \in DOMAIN box : k \in DOMAIN new /\ new[k] = box[k] /\ k <= Len(box)
      /\ \A k \in DOMAIN new : k \in DOMAIN box \/ k > Len(box)
  BY <1>2, ExtendsFacts
<1>4. \A k \in DOMAIN new : k > Len(box) => ~Control(new[k]) /\ new[k].type # "data"
  BY <1>1, <1>2
<1>5. Controls(new) = Controls(box) /\ \A e \in Nat : Announced(box, e) => Announced(new, e)
  BY <1>2, <1>4, ExtendControls
<1>6. (DataFirst(box) => DataFirst(new)) /\ (HasData(new) => HasData(box))
  BY <1>2, <1>4, ExtendDataFirst
<1>7. Len(box) + 1 \in CurrentSyncs(new)
  <2>1. Len(box) + 1 \in DOMAIN new
    BY <1>2, <1>3
  <2>2. \A j \in Len(box) + 1 .. Len(new) : j = Len(box) + 1
    BY <1>2, <1>3
  <2> QED BY <1>1, <1>2, <2>1, <2>2 DEF CurrentSyncs
<1>8. ASSUME EndsInControl(box), NEW k \in CurrentSyncs(new) PROVE k = Len(box) + 1
  <2>1. k \in DOMAIN new /\ \A j \in k .. Len(new) : ~Control(new[j])
    BY DEF CurrentSyncs
  <2>2. CASE k \in DOMAIN box
    <3>1. box # <<>> /\ Len(box) \in DOMAIN box /\ Len(box) \in k .. Len(new)
      BY <1>2, <1>3, <2>2
    <3>2. Control(box[Len(box)]) /\ new[Len(box)] = box[Len(box)]
      BY <1>3, <1>8, <3>1 DEF EndsInControl
    <3> QED BY <2>1, <3>1, <3>2
  <2>3. CASE k \notin DOMAIN box
    BY <1>2, <1>3, <2>1, <2>3
  <2> QED BY <2>2, <2>3
<1>9. EndsInControl(box) => CurrentSyncs(new) = {Len(box) + 1} /\ OneSync(new)
  BY <1>7, <1>8 DEF OneSync
<1> QED BY <1>5, <1>6, <1>7, <1>9 DEF new, m

\* A connect comes in.
LEMMA AppendConnect ==
    ASSUME NEW box \in Seq(Messages), NEW e \in Nat
    PROVE  LET new == Append(box, Connect(e))
           IN  /\ Controls(new) # {} /\ EndsInControl(new) /\ CurrentSyncs(new) = {} /\ OneSync(new)
               /\ DataFirst(box) => DataFirst(new)
               /\ HasData(new) => HasData(box)
               /\ (\A k \in DOMAIN box : box[k].epoch < e) => Announced(new, e)
<1> DEFINE m == Connect(e)
           new == Append(box, m)
           n == Len(box) + 1
<1>1. m \in Messages /\ m.type = "connect" /\ Control(m)
  BY MessageTypes DEF Connect, Control
<1>2. /\ new \in Seq(Messages) /\ Extends(new, box) /\ Len(new) = n
      /\ new[n] = m
      /\ \A k \in DOMAIN new : k > Len(box) => k = n
  BY <1>1, AppendExtends
<1> HIDE DEF new
<1>3. /\ Len(box) \in Nat /\ Len(new) \in Nat
      /\ DOMAIN box = 1 .. Len(box) /\ DOMAIN new = 1 .. Len(new)
      /\ \A k \in DOMAIN box : k \in DOMAIN new /\ new[k] = box[k] /\ k <= Len(box)
      /\ \A k \in DOMAIN new : k \in DOMAIN box \/ k > Len(box)
  BY <1>2, ExtendsFacts
<1>4. \A k \in DOMAIN new : k > Len(box) => new[k].type # "data"
  BY <1>1, <1>2
<1>5. (DataFirst(box) => DataFirst(new)) /\ (HasData(new) => HasData(box))
  BY <1>2, <1>4, ExtendDataFirst
<1> HIDE DEF m
<1>6. n \in DOMAIN new /\ n \in Nat /\ \A k \in DOMAIN new : k = n \/ (k \in DOMAIN box /\ k < n)
  BY <1>2, <1>3
<1> HIDE DEF n
<1>7. n \in Controls(new) /\ EndsInControl(new)
  BY <1>1, <1>2, <1>6 DEF Controls, EndsInControl
<1>8. CurrentSyncs(new) = {}
  <2>1. ASSUME NEW k \in CurrentSyncs(new) PROVE FALSE
    <3>1. k \in DOMAIN new /\ \A j \in k .. Len(new) : ~Control(new[j])
      BY DEF CurrentSyncs
    <3>2. n \in k .. Len(new)
      BY <1>2, <1>3, <1>6, <3>1
    <3> QED BY <1>1, <1>2, <3>1, <3>2
  <2> QED BY <2>1
<1>9. ASSUME \A k \in DOMAIN box : box[k].epoch < e PROVE Announced(new, e)
  <2>1. ASSUME NEW j \in Controls(new) \ {n} PROVE j < n /\ new[j].epoch < e
    <3>1. j \in DOMAIN box /\ j < n /\ new[j] = box[j]
      BY <1>3, <1>6 DEF Controls
    <3> QED BY <1>9, <3>1
  <2> QED BY <1>2, <1>7, <2>1 DEF Announced, m
<1> QED BY <1>5, <1>7, <1>8, <1>9 DEF OneSync, new, m

\* What is left when the connection breaks.
LEMMA LeftData ==
    ASSUME PeerTypeOK, NEW r \in Peers, NEW t \in Neighbours(r),
           NEW box, box \in Left(r, Link(r, t)), DataFirst(inbox[r][t])
    PROVE  DataFirst(box) /\ (HasData(box) => HasData(inbox[r][t]))
<1> DEFINE c == Link(r, t)
           old == inbox[r][t]
<1>1. c \in Clients /\ old \in Seq(Messages) /\ Close \in Messages /\ Close.type # "data"
      /\ (r = Server => c = t) /\ (r # Server => t = Server /\ c = r)
  BY NeighbourFacts, StateTypes, MessageTypes DEF Close
<1>2. ASSUME NEW k \in 0 .. Len(old)
      PROVE  /\ DataFirst(SubSeq(old, 1, k)) /\ (HasData(SubSeq(old, 1, k)) => HasData(old))
             /\ DataFirst(Append(SubSeq(old, 1, k), Close))
             /\ (HasData(Append(SubSeq(old, 1, k), Close)) => HasData(old))
  <2> DEFINE part == SubSeq(old, 1, k)
  <2>0. old \in Seq(Messages) /\ DataFirst(old)
    BY <1>1
  <2> HIDE DEF old
  <2>1. /\ part \in Seq(Messages) /\ \A j \in 1 .. k : part[j] = old[j]
        /\ DOMAIN old = 1 .. Len(old) /\ DOMAIN part = 1 .. k /\ Len(old) \in Nat
    BY <2>0, PrefixFacts
  <2> HIDE DEF part
  <2>2. \A j \in 1 .. k : j \in DOMAIN old /\ \A l \in 1 .. j : l \in 1 .. k
    BY <2>1
  <2>3. DataFirst(part)
    BY <2>0, <2>1, <2>2 DEF DataFirst
  <2>4. HasData(part) => HasData(old)
    BY <2>1, <2>2 DEF HasData
  <2> DEFINE new == Append(part, Close)
  <2>5. /\ new \in Seq(Messages) /\ Extends(new, part) /\ new[Len(part) + 1] = Close
        /\ \A j \in DOMAIN new : j > Len(part) => j = Len(part) + 1
    BY <1>1, <2>1, AppendExtends
  <2> HIDE DEF new
  <2>6. \A j \in DOMAIN new : j > Len(part) => new[j].type # "data"
    BY <1>1, <2>5
  <2>7. DataFirst(new) /\ (HasData(new) => HasData(part))
    BY <2>1, <2>3, <2>5, <2>6, ExtendDataFirst
  <2> QED BY <2>3, <2>4, <2>7 DEF part, new
<1>3. CASE ~open[Server][c]
  BY <1>1, <1>3 DEF Left
<1>4. CASE open[Server][c] /\ r = Server
  <2>1. box \in LeftAtServer(c)
    BY <1>4 DEF Left
  <2>2. \E k \in 0 .. Len(old) : box = Append(SubSeq(old, 1, k), Close)
    BY <1>1, <1>4, <2>1 DEF LeftAtServer
  <2> QED BY <1>2, <2>2
<1>5. CASE open[Server][c] /\ r # Server
  <2>1. box \in LeftAtClient(c)
    BY <1>5 DEF Left
  <2>2. \E k \in 0 .. Len(old) : box = SubSeq(old, 1, k)
    BY <1>1, <1>5, <2>1 DEF LeftAtClient
  <2> QED BY <1>2, <2>2
<1> QED BY <1>3, <1>4, <1>5

---------------------------------------------------------------------------
(* The ends of a connection.                                               *)

\* Messages with changes are put at the end.
LEMMA DataExtends ==
    ASSUME NEW box \in Seq(Messages), NEW more \in Seq(Messages),
           \A k \in DOMAIN more : more[k].type = "data"
    PROVE  /\ box \o more \in Seq(Messages) /\ Extends(box \o more, box)
           /\ \A k \in DOMAIN (box \o more) : k > Len(box) => (box \o more)[k].type = "data"
<1> DEFINE new == box \o more
<1>1. /\ new \in Seq(Messages) /\ Extends(new, box)
      /\ \A k \in DOMAIN new : k > Len(box) =>
            k - Len(box) \in DOMAIN more /\ new[k] = more[k - Len(box)]
  BY ConcatExtends
<1> HIDE DEF new
<1>3. \A k \in DOMAIN new : k > Len(box) => new[k].type = "data"
  BY <1>1
<1> QED BY <1>1, <1>3 DEF new

\* What q sends to p in a step, if it is data only.
Sends(q, p) ==
    \E more \in Seq(Messages) :
        /\ inbox'[p][q] = inbox[p][q] \o more
        /\ \A m \in Range(more) : \E changes \in SUBSET Changes : m = Data(changes)

\* Nothing is data only.
LEMMA NothingSent ==
    ASSUME NEW p \in Peers, NEW q \in Neighbours(p), inbox[p][q] \in Seq(Messages),
           inbox'[p][q] = inbox[p][q]
    PROVE  Sends(q, p)
<1> DEFINE none == <<>>
<1>1. none \in Seq(Messages) /\ Range(none) = {}
  BY DEF Range
<1>2. inbox[p][q] \o none = inbox[p][q]
  OBVIOUS
<1> QED BY <1>1, <1>2 DEF Sends

\* Data come in at the end.
LEMMA SendsExtends ==
    ASSUME NEW p \in Peers, NEW q \in Neighbours(p), inbox[p][q] \in Seq(Messages), Sends(q, p)
    PROVE  /\ inbox'[p][q] \in Seq(Messages) /\ Extends(inbox'[p][q], inbox[p][q])
           /\ \A k \in DOMAIN inbox'[p][q] : k > Len(inbox[p][q]) => inbox'[p][q][k].type = "data"
<1>1. PICK more \in Seq(Messages) :
        /\ inbox'[p][q] = inbox[p][q] \o more
        /\ \A m \in Range(more) : \E changes \in SUBSET Changes : m = Data(changes)
  BY DEF Sends
<1>0. \A k \in DOMAIN more : more[k].type = "data"
  <2>1. \A m \in Range(more) : m.type = "data"
    BY <1>1 DEF Data
  <2> QED BY <2>1 DEF Range
<1> DEFINE new == inbox[p][q] \o more
<1>2. /\ new \in Seq(Messages) /\ Extends(new, inbox[p][q])
      /\ \A k \in DOMAIN new : k > Len(inbox[p][q]) => new[k].type = "data"
  BY <1>0, <1>1, DataExtends
<1>3. new = inbox'[p][q]
  BY <1>1
<1> QED BY <1>2, <1>3

\* What Publish, SyncTurn and StrayTurn send.
LEMMA PublishSends ==
    ASSUME PeerTypeOK, NEW p \in Peers, NEW q \in Neighbours(p), Publish(p)
    PROVE  Sends(p, q)
<1>1. job[p].step = "known" /\ q \in Peers /\ p \in Neighbours(q) /\ inbox[q][p] \in Seq(Messages)
  BY NeighbourFacts, StateTypes DEF Publish
<1> DEFINE msgs == Broadcast(p, job[p].changes, job[p].peer)[q]
<1>2. msgs \in Seq(Messages) /\ \A m \in Range(msgs) : \E changes \in SUBSET Sendable(p, q) : m = Data(changes)
  BY <1>1, BroadcastIsSendable
<1>3. Sendable(p, q) \subseteq Changes
  BY DEF Sendable
<1>4. (Reaches(p, q) => inbox'[q][p] = inbox[q][p] \o msgs) /\ (~Reaches(p, q) => inbox'[q][p] = inbox[q][p])
  BY PublishEffect
<1> HIDE DEF msgs
<1>5. Reaches(p, q) => Sends(p, q)
  BY <1>2, <1>3, <1>4 DEF Sends
<1> QED BY <1>1, <1>4, <1>5, NothingSent

\* A turn sends data only.
LEMMA TurnSends ==
    ASSUME PeerTypeOK, NEW p \in Peers, NEW q \in Neighbours(p), NEW i \in Runs(p, q), i.sync.on,
           Reaches(p, q) => inbox'[q][p] = inbox[q][p] \o Turn(p, i),
           ~Reaches(p, q) => inbox'[q][p] = inbox[q][p]
    PROVE  Sends(p, q)
<1>1. q \in Peers /\ p \in Neighbours(q) /\ inbox[q][p] \in Seq(Messages)
  BY NeighbourFacts, StateTypes
<1> DEFINE msgs == Turn(p, i)
<1>2. msgs \in Seq(Messages) /\ \A m \in Range(msgs) : \E changes \in SUBSET Sendable(p, q) : m = Data(changes)
  BY ToldIsSendable
<1>3. Sendable(p, q) \subseteq Changes
  BY DEF Sendable
<1> HIDE DEF msgs
<1>5. Reaches(p, q) => Sends(p, q)
  BY <1>2, <1>3 DEF Sends, msgs
<1> QED BY <1>1, <1>5, NothingSent

\* A step that leaves the connection of p and q as it is, as p sees it.
Quiet1(p, q) ==
    /\ Controls(inbox'[p][q]) = {} <=> Controls(inbox[p][q]) = {}
    /\ \A e \in Nat : Announced(inbox[p][q], e) => Announced(inbox'[p][q], e)

\* An inbox that stays is quiet.
LEMMA QuietSame ==
    ASSUME NEW p, NEW q, inbox'[p][q] = inbox[p][q]
    PROVE  Quiet1(p, q)
BY DEF Quiet1

\* An inbox into which data come is quiet.
LEMMA QuietSends ==
    ASSUME NEW p \in Peers, NEW q \in Neighbours(p), inbox[p][q] \in Seq(Messages), Sends(q, p)
    PROVE  Quiet1(p, q)
<1>1. /\ inbox'[p][q] \in Seq(Messages) /\ Extends(inbox'[p][q], inbox[p][q])
      /\ \A k \in DOMAIN inbox'[p][q] : k > Len(inbox[p][q]) => inbox'[p][q][k].type = "data"
  BY SendsExtends
<1>2. \A k \in DOMAIN inbox'[p][q] : k > Len(inbox[p][q]) => ~Control(inbox'[p][q][k])
  BY <1>1 DEF Control
<1> DEFINE old == inbox[p][q]
           new == inbox'[p][q]
<1>3. old \in Seq(Messages)
  OBVIOUS
<1> HIDE DEF old, new
<1>4. Controls(new) = Controls(old) /\ \A e \in Nat : Announced(old, e) => Announced(new, e)
  BY <1>1, <1>2, <1>3, ExtendControls DEF old, new
<1> QED BY <1>4 DEF Quiet1, old, new

\* An inbox that loses a head that is no control is quiet.
LEMMA QuietTail ==
    ASSUME NEW p \in Peers, NEW q \in Neighbours(p), inbox[p][q] \in Seq(Messages), inbox[p][q] # <<>>,
           ~Control(Head(inbox[p][q])), inbox'[p][q] = Tail(inbox[p][q])
    PROVE  Quiet1(p, q)
<1> DEFINE old == inbox[p][q]
           new == Tail(old)
<1>1. old \in Seq(Messages) /\ old # <<>> /\ ~Control(Head(old))
  OBVIOUS
<1> HIDE DEF old
<1>2. Controls(new) = {} <=> Controls(old) = {}
  BY <1>1, TailControls
<1>3. \A e : Head(old) # Connect(e)
  BY <1>1 DEF Control, Connect
<1>4. \A e \in Nat : Announced(old, e) => Announced(new, e)
  BY <1>1, <1>3, TailAnnounced
<1> QED BY <1>2, <1>4 DEF Quiet1, old

Calm(p, q) ==
    /\ Quiet1(p, q)
    /\ info'[p][q].known = info[p][q].known /\ info'[p][q].epoch = info[p][q].epoch
    /\ epoch'[Link(p, q)] = epoch[Link(p, q)]
    /\ Up(p, q)' = Up(p, q)
    /\ open[p][q] => open'[p][q]

\* The steps that are not: what opens, takes up or ends the connection.
Turning(p, q) ==
    \/ OnConnect(p, q) \/ (p = Server /\ OnClose(q))
    \/ Open(Link(p, q)) \/ Drop(Link(p, q)) \/ Restart(p) \/ Restart(q)

\* A step leaves the connection as it is, or is one of those that open, take up or end it.
LEMMA CalmStep ==
    ASSUME Local, [Next]_vars, NEW r \in Peers, NEW t \in Neighbours(r)
    PROVE  Calm(r, t) \/ Turning(r, t)
<1> DEFINE c == Link(r, t)
<1>00. PeerTypeOK
  BY DEF Local
<1>0. /\ PeerTypeOK /\ inbox[r][t] \in Seq(Messages) /\ c \in Clients /\ c \in Neighbours(Server)
      /\ t \in Peers /\ r \in Neighbours(t) /\ Server \in Peers
      /\ (r = Server => t = c) /\ (r # Server => r = c /\ t = Server)
  BY <1>00, NeighbourFacts, StateTypes, ClientFacts, PeersAreNumbers
<1>01. /\ \A p \in Peers : JobOk(p)
       /\ \A p \in Peers : \A q \in Neighbours(p) : RunsOk(p, q)
  BY DEF Local, JobInv, MessageInv
<1>1. ASSUME inbox'[r][t] = inbox[r][t], info'[r][t] = info[r][t], epoch' = epoch, open' = open
      PROVE  Calm(r, t)
  BY <1>1, QuietSame DEF Calm, Up
<1>2. ASSUME Sends(t, r), info'[r][t].known = info[r][t].known, info'[r][t].epoch = info[r][t].epoch,
             epoch' = epoch, open' = open
      PROVE  Calm(r, t)
  BY <1>0, <1>2, QuietSends DEF Calm, Up
<1>3. ASSUME NEW p \in Peers,
             Write(p) \/ CheckLocal(p) \/ LogLocal(p) \/ Publish(p) \/ Restart(p)
      PROVE  Calm(r, t) \/ Turning(r, t)
  <2>1. CASE Write(p) \/ CheckLocal(p) \/ LogLocal(p)
    BY <1>1, <2>1 DEF Write, CheckLocal, LogLocal, net, memory
  <2>2. CASE Publish(p)
    <3>0. /\ \A y \in Neighbours(p) : info'[p][y] = AfterBroadcast(p, job[p].changes, job[p].peer)[y]
          /\ \A x \in Peers : \A y \in Neighbours(x) :
                /\ x # p => info'[x][y] = info[x][y]
                /\ y # p => inbox'[x][y] = inbox[x][y]
      BY ONLY <1>00, p \in Peers, <2>2, PublishEffect
    <3>1. epoch' = epoch /\ open' = open
      BY <2>2 DEF Publish
    <3>2. Sends(t, r)
      <4>1. CASE t = p
        BY <1>0, <2>2, <4>1, PublishSends
      <4>2. CASE t # p
        BY <1>0, <3>0, <4>2, NothingSent
      <4> QED BY <4>1, <4>2
    <3>3. info'[r][t].known = info[r][t].known /\ info'[r][t].epoch = info[r][t].epoch
      <4>1. CASE r = p
        <5>1. job[p].changes \in SUBSET Changes
          BY <1>0, StateTypes
        <5>2. info'[r][t] = AfterBroadcast(p, job[p].changes, job[p].peer)[t]
          BY <1>0, <3>0, <4>1
        <5>3. LET j == AfterBroadcast(p, job[p].changes, job[p].peer)[t]
              IN  j.known = info[p][t].known /\ j.epoch = info[p][t].epoch
          BY <1>0, <4>1, <5>1, AfterBroadcastSame
        <5> QED BY <4>1, <5>2, <5>3
      <4>2. CASE r # p
        BY <1>0, <3>0, <4>2
      <4> QED BY <4>1, <4>2
    <3> QED BY <1>2, <3>1, <3>2, <3>3
  <2>3. CASE Restart(p)
    <3>1. CASE p = r \/ p = t
      BY <2>3, <3>1 DEF Turning
    <3>2. CASE p # r /\ p # t
      <4>1. TopsIn(saved[p], hist[p]) /\ epoch' = epoch
        BY <1>01, <2>3 DEF JobOk, Restart
      <4>2. /\ inbox'[r][t] = inbox[r][t] /\ info'[r][t] = info[r][t]
            /\ open'[r][t] = (open[r][t] /\ r # p /\ t # p)
            /\ open'[Server][c] = (open[Server][c] /\ Server # p /\ c # p)
        BY <1>0, <2>3, <3>2, <4>1, RestartEffect
      <4>3. Server # p /\ c # p
        BY <1>0, <3>2
      <4>4. open'[r][t] = open[r][t] /\ open'[Server][c] = open[Server][c]
        <5>1. open[r][t] \in BOOLEAN /\ open[Server][c] \in BOOLEAN
          BY <1>0, StateTypes
        <5> QED BY <3>2, <4>2, <4>3, <5>1
      <4> QED BY <4>1, <4>2, <4>4, QuietSame DEF Calm, Up
    <3> QED BY <3>1, <3>2
  <2> QED BY <1>3, <2>1, <2>2, <2>3
<1>4. ASSUME NEW p \in Peers, NEW q \in Neighbours(p),
             \/ Receive(p, q) \/ OnConnect(p, q) \/ Cancel(p, q) \/ OnSync(p, q)
             \/ SyncTurn(p, q) \/ StrayTurn(p, q)
      PROVE  Calm(r, t) \/ Turning(r, t)
  <2>0. q \in Peers /\ p \in Neighbours(q)
    BY NeighbourFacts
  <2>1. CASE Receive(p, q) \/ OnSync(p, q)
    <3>1. epoch' = epoch /\ open' = open /\ inbox[p][q] # <<>> /\ ~Control(Head(inbox[p][q]))
      BY <2>1 DEF Receive, OnSync, Next1, Control
    <3>2. CASE r = p /\ t = q
      <4>1. inbox'[r][t] = Tail(inbox[r][t])
        BY <1>0, <2>1, <3>2, ReceiveTables, OnSyncEffect
      <4>2. info'[r][t].known = info[r][t].known /\ info'[r][t].epoch = info[r][t].epoch
        <5>1. CASE Receive(p, q)
          <6>1. info'[p][q] = AfterReceive(p, q)
            BY <1>0, <5>1, ReceiveTables
          <6>2. LET j == AfterReceive(p, q)
                IN  j.known = info[p][q].known /\ j.epoch = info[p][q].epoch
            BY <1>0, <5>1, AfterReceiveFacts
          <6> QED BY <3>2, <6>1, <6>2
        <5>2. CASE OnSync(p, q)
          <6>1. info'[p][q] = AfterSync(p, q)
            BY <1>0, <5>2, OnSyncEffect
          <6>2. LET j == AfterSync(p, q)
                IN  j.known = info[p][q].known /\ j.epoch = info[p][q].epoch
            BY ONLY <1>00, p \in Peers, q \in Neighbours(p), <3>1, AfterSyncFacts
          <6> QED BY <3>2, <6>1, <6>2
        <5> QED BY <2>1, <5>1, <5>2
      <4>3. Quiet1(r, t)
        BY <1>0, <3>1, <3>2, <4>1, QuietTail
      <4> QED BY <3>1, <4>2, <4>3 DEF Calm, Up
    <3>3. CASE ~(r = p /\ t = q)
      <4>1. inbox'[r][t] = inbox[r][t] /\ info'[r][t] = info[r][t]
        BY <1>0, <2>1, <3>3, ReceiveTables, OnSyncEffect
      <4> QED BY <1>1, <3>1, <4>1
    <3> QED BY <3>2, <3>3
  <2>2. CASE OnConnect(p, q)
    <3>0. epoch' = epoch
      BY <2>2 DEF OnConnect
    <3>1. CASE r = p /\ t = q
      BY <2>2, <3>1 DEF Turning
    <3>2. CASE ~(r = p /\ t = q)
      <4>1. /\ info'[r][t] = info[r][t]
            /\ open'[r][t] = (open[r][t] \/ (p # Server /\ r = p /\ t = q))
            /\ open'[Server][c] = (open[Server][c] \/ (p # Server /\ Server = p /\ c = q))
        BY <1>0, <2>2, <3>2, OnConnectEffect
      <4>2. open'[r][t] = open[r][t] /\ open'[Server][c] = open[Server][c]
        <5>1. open[r][t] \in BOOLEAN /\ open[Server][c] \in BOOLEAN
          BY <1>0, StateTypes
        <5> QED BY <3>2, <4>1, <5>1
      <4>3. Quiet1(r, t)
        <5>1. CASE r = q /\ t = p
          <6> DEFINE m == SyncFrom(cursor[p])
                     old == inbox[r][t]
          <6>1. inbox'[r][t] = Append(old, m) \/ inbox'[r][t] = old
            BY <1>0, <2>2, <5>1, OnConnectEffect
          <6>2. cursor[p] \in Cursors /\ old \in Seq(Messages)
            BY <1>0, StateTypes
          <6> HIDE DEF old
          <6>3. Controls(Append(old, m)) = Controls(old)
                /\ \A e \in Nat : Announced(old, e) => Announced(Append(old, m), e)
            BY <6>2, AppendSync
          <6> QED BY <6>1, <6>3 DEF Quiet1, old
        <5>2. CASE ~(r = q /\ t = p)
          BY <1>0, <2>2, <3>2, <5>2, OnConnectEffect, QuietSame
        <5> QED BY <5>1, <5>2
      <4> QED BY <3>0, <4>1, <4>2, <4>3 DEF Calm, Up
    <3> QED BY <3>1, <3>2
  <2>3. CASE Cancel(p, q)
    <3>1. inbox' = inbox /\ open' = open /\ epoch' = epoch
      BY <2>3 DEF Cancel, net
    <3>2. info'[r][t].known = info[r][t].known /\ info'[r][t].epoch = info[r][t].epoch
      <4>1. CASE r = p /\ t = q
        <5>1. info'[p][q] = AfterCancel(p, q)
          BY <1>0, <2>3, CancelEffect
        <5>2. LET j == AfterCancel(p, q)
              IN  j.known = info[p][q].known /\ j.epoch = info[p][q].epoch
          BY <1>0, AfterCancelFacts
        <5> QED BY <4>1, <5>1, <5>2
      <4>2. CASE ~(r = p /\ t = q)
        <5>1. \A x \in Peers : \A y \in Neighbours(x) : ~(x = p /\ y = q) => info'[x][y] = info[x][y]
          BY ONLY <1>00, p \in Peers, q \in Neighbours(p), <2>3, CancelEffect
        <5> QED BY <4>2, <5>1
      <4> QED BY <4>1, <4>2
    <3> QED BY <3>1, <3>2, QuietSame DEF Calm, Up
  <2>4. CASE SyncTurn(p, q) \/ StrayTurn(p, q)
    <3>1. epoch' = epoch /\ open' = open
      BY <2>4 DEF SyncTurn, StrayTurn
    <3>2. Sends(t, r) /\ info'[r][t].known = info[r][t].known /\ info'[r][t].epoch = info[r][t].epoch
      <4>1. CASE SyncTurn(p, q)
        <5> DEFINE i == info[p][q]
                   cur == Advance(i.cursor, Told(p, i))
        <5>1. /\ i.sync.on /\ cur \in Cursors
              /\ info'[p][q] = AfterTurn(p, i, cur)
              /\ Reaches(p, q) => inbox'[q][p] = inbox[q][p] \o Turn(p, i)
              /\ ~Reaches(p, q) => inbox'[q][p] = inbox[q][p]
          BY <1>0, <4>1, SyncTurnEffect
        <5>2. \A x \in Peers : \A y \in Neighbours(x) :
                /\ ~(x = p /\ y = q) => info'[x][y] = info[x][y]
                /\ ~(x = q /\ y = p) => inbox'[x][y] = inbox[x][y]
          BY ONLY <1>00, p \in Peers, q \in Neighbours(p), <4>1, SyncTurnEffect
        <5>3. i \in Runs(p, q) /\ i \in Infos
          BY <1>0, StateTypes DEF Runs
        <5> HIDE DEF i, cur
        <5>4. Sends(p, q)
          BY <1>0, <5>1, <5>3, TurnSends
        <5>5. AfterTurn(p, i, cur).known = i.known /\ AfterTurn(p, i, cur).epoch = i.epoch
          BY <5>1, <5>3, AfterTurnSame
        <5>6. Sends(t, r)
          BY <1>0, <5>2, <5>4, NothingSent
        <5> QED BY <5>1, <5>2, <5>5, <5>6 DEF i
      <4>2. CASE StrayTurn(p, q)
        <5>1. PICK i \in strays[p][q] :
                /\ info'[p][q] = AfterStray(p, q, i)
                /\ Reaches(p, q) => inbox'[q][p] = inbox[q][p] \o Turn(p, i)
                /\ ~Reaches(p, q) => inbox'[q][p] = inbox[q][p]
                /\ \A x \in Peers : \A y \in Neighbours(x) :
                    /\ ~(x = p /\ y = q) => info'[x][y] = info[x][y] /\ strays'[x][y] = strays[x][y]
                    /\ ~(x = q /\ y = p) => inbox'[x][y] = inbox[x][y]
          BY ONLY <1>00, p \in Peers, q \in Neighbours(p), <4>2, StrayTurnEffect
        <5>2. i.sync.on /\ i \in Runs(p, q)
          BY <1>01 DEF RunsOk, Runs
        <5>3. Sends(p, q)
          BY <1>0, <5>1, <5>2, TurnSends
        <5>4. LET j == AfterStray(p, q, i)
              IN  j.known = info[p][q].known /\ j.epoch = info[p][q].epoch
          BY <1>0, AfterStrayFacts
        <5>5. Sends(t, r)
          BY <1>0, <5>1, <5>3, NothingSent
        <5>6. info'[r][t] = info[r][t] \/ (r = p /\ t = q)
          BY <5>1
        <5> QED BY <5>1, <5>4, <5>5, <5>6
      <4> QED BY <2>4, <4>1, <4>2
    <3> QED BY <1>2, <3>1, <3>2
  <2> QED BY <1>4, <2>1, <2>2, <2>3, <2>4
<1>5. ASSUME NEW d \in Clients, Open(d) \/ Hear(d) \/ OnClose(d) \/ Drop(d)
      PROVE  Calm(r, t) \/ Turning(r, t)
  <2>1. CASE Open(d)
    <3>1. CASE d = c
      BY <2>1, <3>1 DEF Turning
    <3>2. CASE d # c
      <4>1. inbox'[r][t] = inbox[r][t] /\ epoch'[c] = epoch[c]
            /\ open'[Server][c] = (c = d \/ open[Server][c]) /\ open'[c][Server] = open[c][Server]
        BY <1>0, <2>1, <3>2, OpenEffect
      <4>2. info' = info
        BY <2>1 DEF Open, memory
      <4>3. open'[Server][c] = open[Server][c]
        BY <1>0, <3>2, <4>1, StateTypes
      <4>4. open'[r][t] = open[r][t]
        BY <1>0, <4>1, <4>3
      <4> QED BY <4>1, <4>2, <4>3, <4>4, QuietSame DEF Calm, Up
    <3> QED BY <3>1, <3>2
  <2>2. CASE Hear(d)
    <3>1. inbox' = inbox /\ epoch' = epoch /\ info' = info
      BY <2>2 DEF Hear, memory
    <3>2. /\ open'[r][t] = (open[r][t] \/ (r = d /\ t = Server))
          /\ open'[Server][c] = (open[Server][c] \/ (Server = d /\ c = Server))
      BY <1>0, <2>2, HearEffect
    <3>3. d # Server
      BY ClientFacts
    <3>4. open'[Server][c] = open[Server][c] /\ (open[r][t] => open'[r][t])
      <4>1. open[r][t] \in BOOLEAN /\ open[Server][c] \in BOOLEAN
        BY <1>0, StateTypes
      <4> QED BY <3>2, <3>3, <4>1
    <3> QED BY <3>1, <3>4, QuietSame DEF Calm, Up
  <2>3. CASE OnClose(d)
    <3>1. CASE r = Server /\ t = d
      BY <2>3, <3>1 DEF Turning
    <3>2. CASE ~(r = Server /\ t = d)
      <4>1. inbox'[r][t] = inbox[r][t] /\ info'[r][t] = info[r][t]
        BY <1>0, <2>3, <3>2, OnCloseEffect
      <4>2. epoch' = epoch /\ open' = open
        BY <2>3 DEF OnClose
      <4> QED BY <1>1, <4>1, <4>2
    <3> QED BY <3>1, <3>2
  <2>4. CASE Drop(d)
    <3>1. CASE d = c
      BY <2>4, <3>1 DEF Turning
    <3>2. CASE d # c
      <4>1. /\ inbox'[r][t] = inbox[r][t]
            /\ open'[Server][c] = (c # d /\ open[Server][c])
            /\ open'[c][Server] = (c # d /\ open[c][Server])
        BY <1>0, <2>4, <3>2, DropEffect
      <4>2. info' = info /\ epoch' = epoch
        BY <2>4 DEF Drop, memory
      <4>3. open'[Server][c] = open[Server][c] /\ open'[c][Server] = open[c][Server]
        <5>1. c \in Peers /\ Server \in Neighbours(c)
          BY <1>0, ClientFacts
        <5>2. open[Server][c] \in BOOLEAN /\ open[c][Server] \in BOOLEAN
          BY <1>0, <5>1, StateTypes
        <5> QED BY <3>2, <4>1, <5>2
      <4>4. open'[r][t] = open[r][t]
        BY <1>0, <4>3
      <4> QED BY <4>1, <4>2, <4>3, <4>4, QuietSame DEF Calm, Up
    <3> QED BY <3>1, <3>2
  <2> QED BY <1>5, <2>1, <2>2, <2>3, <2>4
<1>6. CASE UNCHANGED vars
  BY <1>1, <1>6 DEF vars, net, memory
<1> QED BY <1>3, <1>4, <1>5, <1>6, Steps

---------------------------------------------------------------------------
(* Both ends of an open stream have taken it up or will.                   *)

\* The connections a client has made only get more.
LEMMA EpochStep ==
    ASSUME PeerTypeOK, [Next]_vars, NEW c \in Clients
    PROVE  /\ epoch[c] \in Nat /\ epoch'[c] \in Nat /\ epoch[c] <= epoch'[c]
           /\ (\A d \in Clients : ~Open(d)) => epoch' = epoch
<1>1. epoch[c] \in Nat
  BY DEF PeerTypeOK
<1>2. ASSUME NEW d \in Clients, Open(d)
      PROVE  epoch'[c] \in Nat /\ epoch[c] <= epoch'[c]
  <2>1. epoch'[d] = epoch[d] + 1 /\ (c # d => epoch'[c] = epoch[c])
    BY <1>2, OpenEffect
  <2> QED BY <1>1, <2>1
<1>3. (\A d \in Clients : ~Open(d)) => epoch' = epoch
  <2>1. ASSUME NEW p \in Peers, Write(p) \/ CheckLocal(p) \/ LogLocal(p) \/ Publish(p) \/ Restart(p)
        PROVE  epoch' = epoch
    BY <2>1 DEF Write, CheckLocal, LogLocal, Publish, Restart, net
  <2>2. ASSUME NEW p \in Peers, NEW q \in Neighbours(p),
               \/ Receive(p, q) \/ OnConnect(p, q) \/ Cancel(p, q) \/ OnSync(p, q)
               \/ SyncTurn(p, q) \/ StrayTurn(p, q)
        PROVE  epoch' = epoch
    BY <2>2 DEF Receive, OnConnect, Cancel, OnSync, SyncTurn, StrayTurn, net
  <2>3. ASSUME NEW d \in Clients, Hear(d) \/ OnClose(d) \/ Drop(d)
        PROVE  epoch' = epoch
    BY <2>3 DEF Hear, OnClose, Drop
  <2>4. UNCHANGED vars => epoch' = epoch
    BY DEF vars, net
  <2> QED BY <2>1, <2>2, <2>3, <2>4, Steps
<1> QED BY <1>1, <1>2, <1>3

\* The runs whose PeerInfo was replaced were there, or the present one is now
\* replaced.
LEMMA StraysStep ==
    ASSUME Local, [Next]_vars, NEW r \in Peers, NEW t \in Neighbours(r)
    PROVE  \A i \in strays'[r][t] :
              \/ \E j \in strays[r][t] : /\ i.epoch = j.epoch /\ i.pending = j.pending
                                       /\ i.sync.sites = j.sync.sites
              \/ i = info[r][t] /\ i.sync.on /\ OnConnect(r, t)
<1>0. PeerTypeOK
  BY DEF Local
<1> DEFINE Goal == \A i \in strays'[r][t] :
              \/ \E j \in strays[r][t] : /\ i.epoch = j.epoch /\ i.pending = j.pending
                                       /\ i.sync.sites = j.sync.sites
              \/ i = info[r][t] /\ i.sync.on /\ OnConnect(r, t)
<1>1. ASSUME strays'[r][t] = strays[r][t] PROVE Goal
  BY <1>1
<1>2. ASSUME strays'[r][t] = {} PROVE Goal
  BY <1>2
<1> HIDE DEF Goal
<1>3. ASSUME NEW p \in Peers,
             Write(p) \/ CheckLocal(p) \/ LogLocal(p) \/ Publish(p) \/ Restart(p)
      PROVE  Goal
  <2>1. CASE Restart(p)
    <3>1. TopsIn(saved[p], hist[p])
      BY DEF Local, JobInv, JobOk
    <3>2. strays'[r][t] = {} \/ strays'[r][t] = strays[r][t]
      BY <1>0, <2>1, <3>1, RestartEffect
    <3> QED BY <1>1, <1>2, <3>2
  <2>2. CASE ~Restart(p)
    <3>1. strays' = strays
      BY <1>3, <2>2 DEF Write, CheckLocal, LogLocal, Publish, memory
    <3> QED BY <1>1, <3>1
  <2> QED BY <2>1, <2>2
<1>4. ASSUME NEW p \in Peers, NEW q \in Neighbours(p),
             \/ Receive(p, q) \/ OnConnect(p, q) \/ Cancel(p, q) \/ OnSync(p, q)
             \/ SyncTurn(p, q) \/ StrayTurn(p, q)
      PROVE  Goal
  <2>1. CASE Receive(p, q) \/ Cancel(p, q) \/ OnSync(p, q) \/ SyncTurn(p, q)
    <3>1. strays' = strays
      BY <2>1 DEF Receive, Cancel, OnSync, SyncTurn
    <3> QED BY <1>1, <3>1
  <2>2. CASE OnConnect(p, q)
    <3>1. /\ info[p][q].sync.on => strays'[p][q] = strays[p][q] \cup {info[p][q]}
          /\ ~info[p][q].sync.on => strays'[p][q] = strays[p][q]
          /\ \A x \in Peers : \A y \in Neighbours(x) :
                ~(x = p /\ y = q) => info'[x][y] = info[x][y] /\ strays'[x][y] = strays[x][y]
      BY ONLY <1>0, p \in Peers, q \in Neighbours(p), <2>2, OnConnectEffect
    <3>2. CASE r = p /\ t = q
      BY <2>2, <3>1, <3>2 DEF Goal
    <3>3. CASE ~(r = p /\ t = q)
      BY <1>1, <3>1, <3>3
    <3> QED BY <3>2, <3>3
  <2>3. CASE StrayTurn(p, q)
    <3>1. PICK i \in strays[p][q] :
            /\ strays'[p][q] = StraysLeft(p, q, i)
            /\ \A x \in Peers : \A y \in Neighbours(x) :
                ~(x = p /\ y = q) => info'[x][y] = info[x][y] /\ strays'[x][y] = strays[x][y]
      BY ONLY <1>0, p \in Peers, q \in Neighbours(p), <2>3, StrayTurnEffect
    <3>2. i \in Infos /\ i.cursor \in Cursors
      BY <1>0, StateTypes, InfoFields
    <3> DEFINE j == AfterTurn(p, i, i.cursor)
    <3>3. j.epoch = i.epoch /\ (~IsLast(p, i.sync) => j.pending = i.pending /\ j.sync.sites = i.sync.sites)
      BY <3>2, AfterTurnSame, AfterTurnMore
    <3> HIDE DEF j
    <3>4. \A x \in strays'[p][q] : x \in strays[p][q] \/ (x = j /\ ~IsLast(p, i.sync))
      BY <3>1 DEF StraysLeft, j
    <3>5. \A x \in strays'[p][q] : \E y \in strays[p][q] :
            x.epoch = y.epoch /\ x.pending = y.pending /\ x.sync.sites = y.sync.sites
      BY <3>3, <3>4
    <3>6. CASE r = p /\ t = q
      BY <3>5, <3>6 DEF Goal
    <3>7. CASE ~(r = p /\ t = q)
      BY <1>1, <3>1, <3>7
    <3> QED BY <3>6, <3>7
  <2> QED BY <1>4, <2>1, <2>2, <2>3
<1>5. ASSUME NEW c \in Clients, Open(c) \/ Hear(c) \/ OnClose(c) \/ Drop(c)
      PROVE  Goal
  <2>1. strays' = strays
    BY <1>5 DEF Open, Hear, OnClose, Drop, memory
  <2> QED BY <1>1, <2>1
<1>6. CASE UNCHANGED vars
  <2>1. strays' = strays
    BY <1>6 DEF vars, memory
  <2> QED BY <1>1, <2>1
<1> QED BY <1>3, <1>4, <1>5, <1>6, Steps DEF Goal

\* What a PeerInfo is after a step that turns the connection.
LEMMA TurningInfo ==
    ASSUME Local, [Next]_vars, NEW r \in Peers, NEW t \in Neighbours(r), Turning(r, t)
    PROVE  \/ OnConnect(r, t) /\ info'[r][t] = NewInfo(Head(inbox[r][t]).epoch)
           \/ info'[r][t] = NoInfo
           \/ info'[r][t] = info[r][t]
<1>0. PeerTypeOK /\ t \in Peers /\ Link(r, t) \in Clients
  BY NeighbourFacts DEF Local
<1>1. CASE OnConnect(r, t)
  BY <1>0, <1>1, OnConnectEffect
<1>2. CASE r = Server /\ OnClose(t)
  BY <1>0, <1>2, OnCloseEffect, NeighbourFacts
<1>3. CASE Open(Link(r, t)) \/ Drop(Link(r, t))
  BY <1>3 DEF Open, Drop, memory
<1>4. ASSUME NEW p \in Peers, Restart(p) PROVE info'[r][t] = NoInfo \/ info'[r][t] = info[r][t]
  <2>1. TopsIn(saved[p], hist[p])
    BY DEF Local, JobInv, JobOk
  <2> QED BY <1>0, <1>4, <2>1, RestartEffect
<1> QED BY <1>0, <1>1, <1>2, <1>3, <1>4 DEF Turning

\* No PeerInfo, run or message is of a connection yet to come.
EpochsOk(p, q) ==
    /\ \A i \in Runs(p, q) : i.epoch <= epoch[Link(p, q)]
    /\ \A m \in Range(inbox[p][q]) : m.epoch <= epoch[Link(p, q)]

\* No PeerInfo, run or message gets ahead of its connection.
LEMMA EpochsStep ==
    ASSUME Local, [Next]_vars, NEW r \in Peers, NEW t \in Neighbours(r), EpochsOk(r, t)
    PROVE  EpochsOk(r, t)'
<1> DEFINE c == Link(r, t)
<1>0. PeerTypeOK /\ PeerTypeOK' /\ c \in Clients /\ JobInv /\ MessageInv
  BY NeighbourFacts, LocalStep DEF Local
<1>1. epoch[c] \in Nat /\ epoch'[c] \in Nat /\ epoch[c] <= epoch'[c]
  BY <1>0, EpochStep
<1>2. /\ info[r][t] \in Infos /\ strays[r][t] \in SUBSET Infos /\ inbox[r][t] \in Seq(Messages)
      /\ info[r][t].epoch \in Nat
  BY <1>0, StateTypes, InfoFields
<1>3. \A i \in strays[r][t] : i.epoch \in Nat
  BY <1>2, InfoFields
<1>4. \A m \in Range(inbox[r][t]) : m.epoch \in Nat
  BY <1>2, RangeFacts, MessageFields
<1>5. info[r][t].epoch <= epoch[c] /\ \A i \in strays[r][t] : i.epoch <= epoch[c]
  BY DEF EpochsOk, Runs
<1>6. \A m \in Range(inbox[r][t]) : m.epoch <= epoch[c]
  BY DEF EpochsOk
<1> HIDE DEF c
<1>7. \A i \in strays'[r][t] : i.epoch <= epoch'[c]
  <2>1. \A i \in strays'[r][t] :
           (\E j \in strays[r][t] : i.epoch = j.epoch) \/ i = info[r][t]
    BY StraysStep
  <2>2. ASSUME NEW i \in strays'[r][t] PROVE i.epoch <= epoch'[c]
    <3>1. (\E j \in strays[r][t] : i.epoch = j.epoch) \/ i.epoch = info[r][t].epoch
      BY <2>1, <2>2
    <3>2. i.epoch \in Nat /\ i.epoch <= epoch[c]
      BY <1>2, <1>3, <1>5, <3>1
    <3> QED BY <1>1, <3>2
  <2> QED BY <2>2
<1>8. info'[r][t].epoch <= epoch'[c]
  <2>1. CASE info'[r][t].epoch = info[r][t].epoch
    BY <1>1, <1>2, <1>5, <2>1
  <2>2. CASE OnConnect(r, t) /\ info'[r][t] = NewInfo(Head(inbox[r][t]).epoch)
    <3>1. inbox[r][t] # <<>>
      BY <1>0, <2>2, OnConnectEffect
    <3>2. Head(inbox[r][t]) \in Range(inbox[r][t])
      BY <1>2, <3>1, RangeFacts
    <3> DEFINE e == Head(inbox[r][t]).epoch
    <3>3. e \in Nat /\ e <= epoch[c]
      BY <1>4, <1>6, <3>2
    <3> HIDE DEF e
    <3>4. NewInfo(e).epoch = e
      BY NewInfoFields, <3>3
    <3>5. info'[r][t].epoch = e
      BY <2>2, <3>4 DEF e
    <3> QED BY <1>1, <3>3, <3>5
  <2>3. CASE info'[r][t] = NoInfo
    BY <1>1, <2>3, NoInfoFields
  <2>4. Calm(r, t) \/ Turning(r, t)
    BY CalmStep
  <2> QED BY <2>1, <2>2, <2>3, <2>4, TurningInfo DEF Calm
<1>9. \A m \in Range(inbox'[r][t]) : m.epoch <= epoch'[c]
  <2>1. \A m \in Range(inbox'[r][t]) : m \in Range(inbox[r][t]) \/ Arrives(r, t, m)
    BY <1>0, ArrivalStep
  <2>2. \A m : Arrives(r, t, m) => m.epoch = 0 \/ m.epoch = epoch'[c]
    BY DEF Arrives, c, Close, Connect, SyncFrom, Data
  <2> QED BY <1>1, <1>4, <1>6, <2>1, <2>2
<1>10. \A i \in {info'[r][t]} \cup strays'[r][t] : i.epoch <= epoch'[c]
  BY <1>7, <1>8
<1> QED BY <1>9, <1>10 DEF EpochsOk, Runs, c

\* While the stream is open: the other half of LinkOk.
UpOk(p, q) ==
    Up(p, q) =>
        /\ epoch[Link(p, q)] > 0
        /\ Joined(p, q) \/ Joining(p, q)
        /\ \A i \in strays[p][q] : i.epoch < epoch[Link(p, q)]
        /\ Joined(p, q) => Reaches(p, q)

\* LinkOk is its two halves.
LEMMA LinkParts ==
    ASSUME NEW p \in Peers, NEW q \in Neighbours(p), inbox[p][q] \in Seq(Messages)
    PROVE  LinkOk(p, q) <=> EpochsOk(p, q) /\ UpOk(p, q)
<1>1. (\A k \in DOMAIN inbox[p][q] : inbox[p][q][k].epoch <= epoch[Link(p, q)])
      <=> (\A m \in Range(inbox[p][q]) : m.epoch <= epoch[Link(p, q)])
  BY DEF Range
<1> QED BY <1>1 DEF LinkOk, EpochsOk, UpOk

\* An end that has joined has not got the connect of this connection to come.
LEMMA JoinedOrJoining ==
    ASSUME NEW p, NEW q
    PROVE  /\ Joining(p, q) => Controls(inbox[p][q]) # {}
           /\ ~(Joined(p, q) /\ Joining(p, q))
<1>1. \A e : Announced(inbox[p][q], e) => Controls(inbox[p][q]) # {}
  BY DEF Announced
<1> QED BY <1>1 DEF Joined, Joining

\* A calm step keeps UpOk.
LEMMA UpCalm ==
    ASSUME Local, [Next]_vars, NEW r \in Peers, NEW t \in Neighbours(r), EpochsOk(r, t), UpOk(r, t),
           Calm(r, t), ~OnConnect(r, t)
    PROVE  UpOk(r, t)'
<1> DEFINE c == Link(r, t)
           e == epoch[c]
           new == inbox'[r][t]
           old == inbox[r][t]
<1>1. PeerTypeOK /\ c \in Clients /\ e \in Nat
  BY NeighbourFacts DEF Local, PeerTypeOK
<1>2. epoch'[c] = e /\ Up(r, t)' = Up(r, t) /\ (open[r][t] => open'[r][t])
  BY DEF Calm
<1>3. SUFFICES ASSUME Up(r, t)' PROVE UpOk(r, t)'
  BY DEF UpOk
<1>4. Up(r, t) /\ e > 0
  BY <1>2, <1>3 DEF UpOk
<1>5. \A i \in strays'[r][t] : i.epoch < epoch'[c]
  <2>1. \A i \in strays'[r][t] : \E j \in strays[r][t] : i.epoch = j.epoch
    BY StraysStep
  <2>2. \A j \in strays[r][t] : j.epoch < e
    BY <1>4 DEF UpOk
  <2> QED BY <1>2, <2>1, <2>2
<1>6. Joined(r, t)' <=> Joined(r, t)
  BY <1>2 DEF Joined, Calm, Quiet1
<1>7. Joining(r, t) => Joining(r, t)'
  BY <1>1, <1>2 DEF Joining, Calm, Quiet1
<1>8. Reaches(r, t) => Reaches(r, t)'
  BY <1>2 DEF Reaches, Up
<1> QED BY <1>2, <1>4, <1>5, <1>6, <1>7, <1>8 DEF UpOk

\* Taking up a connection keeps UpOk, and joins when the connect is the newest.
LEMMA UpOnConnect ==
    ASSUME Local, [Next]_vars, NEW r \in Peers, NEW t \in Neighbours(r), EpochsOk(r, t), UpOk(r, t),
           OnConnect(r, t)
    PROVE  /\ UpOk(r, t)'
           /\ Up(r, t)' = Up(r, t) /\ epoch' = epoch /\ ~Joined(r, t)
           /\ Up(r, t) /\ Head(inbox[r][t]).epoch = epoch[Link(r, t)] => Joined(r, t)'
           /\ Up(r, t) /\ Head(inbox[r][t]).epoch # epoch[Link(r, t)] => ~Joined(r, t)'
<1> DEFINE c == Link(r, t)
           e == epoch[c]
           old == inbox[r][t]
           new == inbox'[r][t]
           f == Head(old).epoch
<1>1. PeerTypeOK /\ c \in Clients /\ e \in Nat /\ old \in Seq(Messages) /\ epoch' = epoch
      /\ c \in Neighbours(Server) /\ Server \in Peers /\ open[Server][c] \in BOOLEAN
      /\ open[r][t] \in BOOLEAN /\ info[r][t] \in Infos /\ (r = Server => t = c)
  <2>1. PeerTypeOK
    BY DEF Local
  <2> QED BY <2>1, NeighbourFacts, StateTypes, ClientFacts, PeersAreNumbers DEF PeerTypeOK, OnConnect
<1>2. /\ old # <<>> /\ Head(old).type = "connect" /\ f \in Nat
      /\ info'[r][t] = NewInfo(f) /\ new = Tail(old)
  BY <1>1, OnConnectEffect
<1>3. \A x \in Peers : \A y \in Neighbours(x) :
        open'[x][y] = (open[x][y] \/ (r # Server /\ x = r /\ y = t))
  BY ONLY <1>1, r \in Peers, t \in Neighbours(r), OnConnect(r, t), OnConnectEffect
<1>4. open'[Server][c] = open[Server][c] /\ (open[Server][c] => open'[r][t])
  BY <1>1, <1>3
<1>5. Control(Head(old)) /\ Head(old) \in Range(old)
  BY <1>1, <1>2, RangeFacts DEF Control
<1>6. f <= e
  BY <1>5 DEF EpochsOk
<1>7. 1 \in Controls(old)
  <2>1. 1 \in DOMAIN old /\ Head(old) = old[1]
    BY <1>1, <1>2, TailIndex
  <2> QED BY <1>5, <2>1 DEF Controls
<1>8. ~Joined(r, t)
  BY <1>7 DEF Joined
<1>9. info'[r][t].known = TRUE /\ info'[r][t].epoch = f
  BY <1>2, NewInfoFields
<1>10. ASSUME Up(r, t) PROVE Announced(old, e) /\ info[r][t].epoch < e /\ e > 0
  BY <1>8, <1>10 DEF UpOk, Joining
<1>11. ASSUME Up(r, t), f = e PROVE Joined(r, t)'
  <2>1. Head(old) = Connect(e)
    BY <1>1, <1>2, <1>5, <1>10, <1>11, TailAnnounced
  <2>2. Controls(new) = {}
    BY <1>1, <1>2, <1>10, <1>11, <2>1, TailAnnounced
  <2> QED BY <1>1, <1>9, <1>11, <2>2 DEF Joined
<1>12. ASSUME Up(r, t), f # e PROVE Joining(r, t)'
  <2>1. Head(old) # Connect(e)
    BY <1>12 DEF Connect
  <2>2. Announced(new, e)
    BY <1>1, <1>2, <1>10, <1>12, <2>1, TailAnnounced
  <2>3. f < e
    BY <1>1, <1>2, <1>6, <1>12
  <2> QED BY <1>1, <1>9, <2>2, <2>3 DEF Joining
<1>13. Up(r, t)' = Up(r, t)
  BY <1>4 DEF Up
<1>14. ASSUME Up(r, t) PROVE \A i \in strays'[r][t] : i.epoch < epoch'[c]
  <2>1. ASSUME NEW i \in strays'[r][t] PROVE i.epoch < e
    <3>1. (\E j \in strays[r][t] : i.epoch = j.epoch) \/ i = info[r][t]
      BY StraysStep
    <3>2. \A j \in strays[r][t] : j.epoch < e
      BY <1>14 DEF UpOk
    <3> QED BY <1>10, <1>14, <3>1, <3>2
  <2> QED BY <1>1, <2>1
<1>15. Up(r, t) => Reaches(r, t)'
  BY <1>4 DEF Up, Reaches
<1>16. UpOk(r, t)'
  BY <1>1, <1>10, <1>11, <1>12, <1>13, <1>14, <1>15 DEF UpOk
<1>17. ~(Joined(r, t)' /\ Joining(r, t)')
  BY DEF Joined, Joining, Announced
<1> QED BY <1>1, <1>8, <1>11, <1>12, <1>13, <1>16, <1>17

\* Opening and ending a connection keeps UpOk.
LEMMA UpTurning ==
    ASSUME Local, [Next]_vars, NEW r \in Peers, NEW t \in Neighbours(r), EpochsOk(r, t), UpOk(r, t),
           Turning(r, t), ~OnConnect(r, t)
    PROVE  UpOk(r, t)'
<1> DEFINE c == Link(r, t)
           e == epoch[c]
           old == inbox[r][t]
           new == inbox'[r][t]
<1>1. /\ PeerTypeOK /\ c \in Clients /\ e \in Nat /\ old \in Seq(Messages) /\ info[r][t] \in Infos
      /\ strays[r][t] \in SUBSET Infos
      /\ c \in Neighbours(Server) /\ Server \in Peers /\ (r = Server => t = c) /\ t \in Peers
      /\ c = r \/ c = t
  <2>1. PeerTypeOK
    BY DEF Local
  <2> QED BY <2>1, NeighbourFacts, StateTypes, ClientFacts, PeersAreNumbers DEF PeerTypeOK
<1>2. \A i \in strays'[r][t] : \E j \in strays[r][t] : i.epoch = j.epoch
  BY StraysStep
<1>3. /\ \A j \in strays[r][t] : j.epoch \in Nat /\ j.epoch <= e
      /\ info[r][t].epoch \in Nat /\ info[r][t].epoch <= e
  BY <1>1, InfoFields DEF EpochsOk, Runs
<1>4. ASSUME r = Server, OnClose(t) PROVE UpOk(r, t)'
  <2>1. /\ old # <<>> /\ Head(old).type = "close" /\ info'[r][t] = NoInfo /\ new = Tail(old)
        /\ t \in Clients
    BY <1>1, <1>4, OnCloseEffect
  <2>2. open' = open /\ epoch' = epoch
    BY <1>4 DEF OnClose
  <2>3. info'[r][t].epoch = 0 /\ ~info'[r][t].known
    BY <2>1, NoInfoFields
  <2>4. 1 \in Controls(old) /\ Head(old) # Connect(e)
    <3>1. 1 \in DOMAIN old /\ Head(old) = old[1]
      BY <1>1, <2>1, TailIndex
    <3> QED BY <2>1, <3>1 DEF Controls, Control, Connect
  <2>5. ASSUME Up(r, t) PROVE Joining(r, t)' /\ e > 0 /\ \A j \in strays[r][t] : j.epoch < e
    <3>1. Joining(r, t) /\ e > 0 /\ \A j \in strays[r][t] : j.epoch < e
      BY <2>4, <2>5 DEF UpOk, Joined
    <3>2. Announced(new, e)
      BY <1>1, <2>1, <2>4, <3>1, TailAnnounced DEF Joining
    <3> QED BY <2>2, <2>3, <3>1, <3>2 DEF Joining
  <2>6. ~Joined(r, t)'
    BY <2>3 DEF Joined
  <2>7. Up(r, t)' = Up(r, t)
    BY <2>2 DEF Up
  <2> QED BY <1>2, <2>2, <2>5, <2>6, <2>7 DEF UpOk
<1>5. ASSUME Open(c) PROVE UpOk(r, t)'
  <2>1. epoch'[c] = e + 1 /\ new = Append(old, Connect(e + 1)) /\ info' = info
    BY <1>1, <1>5, OpenEffect DEF Open, memory
  <2>2. \A k \in DOMAIN old : old[k].epoch < e + 1
    <3>1. \A k \in DOMAIN old : old[k] \in Range(old) /\ old[k].epoch \in Nat
      BY <1>1, RangeFacts, MessageFields
    <3>2. \A k \in DOMAIN old : old[k].epoch <= e
      BY <3>1 DEF EpochsOk
    <3> QED BY <1>1, <3>1, <3>2
  <2>3. e + 1 \in Nat
    BY <1>1
  <2>4. Announced(new, e + 1) /\ Controls(new) # {}
    BY <1>1, <2>1, <2>2, <2>3, AppendConnect
  <2>5. Joining(r, t)' /\ ~Joined(r, t)'
    BY <1>1, <1>3, <2>1, <2>4 DEF Joining, Joined
  <2>6. \A i \in strays'[r][t] : i.epoch < e + 1
    BY <1>1, <1>2, <1>3
  <2> QED BY <1>1, <2>1, <2>5, <2>6 DEF UpOk
<1>6. ASSUME Drop(c) PROVE UpOk(r, t)'
  <2>1. open'[Server][c] = FALSE
    BY <1>1, <1>6, DropEffect
  <2> QED BY <2>1 DEF UpOk, Up
<1>7. ASSUME Restart(r) \/ Restart(t) PROVE UpOk(r, t)'
  <2>1. PICK p \in Peers : Restart(p) /\ (p = r \/ p = t)
    BY <1>1, <1>7
  <2>2. TopsIn(saved[p], hist[p])
    BY DEF Local, JobInv, JobOk
  <2>3. open'[Server][c] = (open[Server][c] /\ Server # p /\ c # p)
    BY <1>1, <2>1, <2>2, RestartEffect
  <2>4. Server = p \/ c = p
    BY <2>1, NeighbourFacts
  <2>5. ~open'[Server][c]
    BY <2>3, <2>4
  <2> QED BY <2>5 DEF UpOk, Up
<1> QED BY <1>4, <1>5, <1>6, <1>7 DEF Turning

\* Every step keeps LinkInv.
LEMMA LinkStep ==
    ASSUME Local, LinkInv, [Next]_vars
    PROVE  LinkInv'
<1>1. PeerTypeOK /\ PeerTypeOK'
  BY LocalStep DEF Local
<1>2. ASSUME NEW r \in Peers, NEW t \in Neighbours(r) PROVE LinkOk(r, t)'
  <2>1. inbox[r][t] \in Seq(Messages) /\ LinkOk(r, t)
    BY <1>1, StateTypes DEF LinkInv
  <2>2. EpochsOk(r, t) /\ UpOk(r, t)
    BY <2>1, LinkParts
  <2>3. EpochsOk(r, t)'
    BY <2>2, EpochsStep
  <2>4. UpOk(r, t)'
    BY <2>2, CalmStep, UpCalm, UpOnConnect, UpTurning
  <2>5. inbox'[r][t] \in Seq(Messages)
    <3>1. Table(inbox, Seq(Messages))'
      BY <1>1 DEF PeerTypeOK
    <3> QED BY <3>1 DEF Table
  <2>6. inbox'[r][t] \in Seq(Messages) /\ EpochsOk(r, t)' /\ UpOk(r, t)' => LinkOk(r, t)'
    <3>1. (\A k \in DOMAIN inbox'[r][t] : inbox'[r][t][k].epoch <= epoch'[Link(r, t)])
          <=> (\A m \in Range(inbox'[r][t]) : m.epoch <= epoch'[Link(r, t)])
      BY <2>5 DEF Range
    <3> QED BY <3>1 DEF LinkOk, EpochsOk, UpOk
  <2> QED BY <2>3, <2>4, <2>5, <2>6
<1> QED BY <1>2 DEF LinkInv

---------------------------------------------------------------------------
(* The protocol of a connection, as one end sees it: its inbox, its        *)
(* PeerInfo, whether the stream is open and whether it (me) and the other  *)
(* end (other) have joined.                                                *)
Phase(box, known, on, cancel, active, up, me, other) ==
    /\ DataFirst(box)
    /\ HasData(box) => known
    /\ up =>
        /\ other \/ EndsInControl(box)
        /\ me /\ (on \/ active) => other /\ ~HasSync(box) /\ ~cancel /\ ~(on /\ active)
        /\ OneSync(box)
        /\ other => (me /\ (on \/ active)) \/ CurrentSyncs(box) # {}

PhaseNow(p, q) ==
    Phase(inbox[p][q], info[p][q].known, info[p][q].sync.on, info[p][q].sync.cancel,
          info[p][q].active, Up(p, q), Joined(p, q), Joined(q, p))

\* Phase says of the state what PhaseOk says.
LEMMA PhaseNowIsOk ==
    ASSUME NEW p, NEW q
    PROVE  PhaseNow(p, q) <=> PhaseOk(p, q)
BY DEF PhaseNow, Phase, PhaseOk, Answers

\* Data come in when both ends have joined.
LEMMA PhaseByData ==
    ASSUME NEW box \in Seq(Messages), NEW new \in Seq(Messages), Extends(new, box),
           \A k \in DOMAIN new : k > Len(box) => new[k].type = "data",
           NEW known, NEW on, NEW cancel, NEW active,
           NEW up, NEW me, NEW other,
           Phase(box, known, on, cancel, active, up, me, other),
           Controls(box) = {}, known, up => other
    PROVE  Phase(new, known, on, cancel, active, up, me, other)
<1>1. /\ CurrentSyncs(new) = CurrentSyncs(box)
      /\ OneSync(box) => OneSync(new)
      /\ HasSync(new) => HasSync(box)
      /\ DataFirst(new)
  BY ExtendByData
<1> QED BY <1>1 DEF Phase

\* A message with data is handled.
LEMMA PhaseTailData ==
    ASSUME NEW box \in Seq(Messages), box # <<>>, Head(box).type = "data",
           NEW known, NEW on, NEW cancel, NEW active,
           NEW up, NEW me, NEW other,
           Phase(box, known, on, cancel, active, up, me, other)
    PROVE  Phase(Tail(box), known, on, cancel, active, up, me, other)
<1>1. /\ DataFirst(box) => DataFirst(Tail(box))
      /\ HasData(Tail(box)) => HasData(box)
      /\ HasSync(Tail(box)) => HasSync(box)
  BY TailData
<1>2. OneSync(box) => OneSync(Tail(box))
  BY TailSyncs
<1>3. EndsInControl(box) => EndsInControl(Tail(box))
  BY TailEnd
<1>4. CurrentSyncs(box) # {} => CurrentSyncs(Tail(box)) # {}
  <2>1. ASSUME NEW k \in CurrentSyncs(box) PROVE CurrentSyncs(Tail(box)) # {}
    <3>1. k # 1
      BY TailIndex DEF CurrentSyncs
    <3> QED BY <3>1, TailSyncs
  <2> QED BY <2>1
<1> QED BY <1>1, <1>2, <1>3, <1>4 DEF Phase

\* A control is handled: the PeerInfo is a new one, or none.
LEMMA PhaseTailControl ==
    ASSUME NEW box \in Seq(Messages), box # <<>>, Control(Head(box)),
           NEW known, NEW on, NEW cancel, NEW active,
           NEW up, NEW me, NEW other,
           Phase(box, known, on, cancel, active, up, me, other), ~me,
           NEW known1, NEW on1, NEW cancel1, NEW active1, NEW me1, ~on1, ~active1
    PROVE  Phase(Tail(box), known1, on1, cancel1, active1, up, me1, other)
<1>1. /\ DataFirst(Tail(box)) /\ ~HasData(Tail(box))
  BY TailData DEF Phase
<1>2. OneSync(box) => OneSync(Tail(box))
  BY TailSyncs
<1>3. EndsInControl(box) => EndsInControl(Tail(box))
  BY TailEnd
<1>4. CurrentSyncs(box) # {} => CurrentSyncs(Tail(box)) # {}
  <2>1. ASSUME NEW k \in CurrentSyncs(box) PROVE CurrentSyncs(Tail(box)) # {}
    <3>1. k # 1
      BY TailIndex DEF CurrentSyncs, Control
    <3> QED BY <3>1, TailSyncs
  <2> QED BY <2>1
<1> QED BY <1>1, <1>2, <1>3, <1>4 DEF Phase

\* What the other end asks for is taken up.
LEMMA PhaseTailSync ==
    ASSUME NEW box \in Seq(Messages), box # <<>>, Head(box).type = "sync",
           NEW known, NEW cancel, NEW active,
           NEW up, NEW me, NEW other,
           Phase(box, known, FALSE, cancel, active, up, me, other),
           me => known, up => (me <=> Controls(box) = {})
    PROVE  /\ ~known => Phase(Tail(box), known, FALSE, cancel, active, up, me, other)
           /\ known => Phase(Tail(box), known, TRUE, FALSE, active, up, me, other)
           /\ up /\ me => ~active /\ other
<1>1. /\ DataFirst(box) => DataFirst(Tail(box))
      /\ HasData(Tail(box)) => HasData(box)
  BY TailData
<1>2. OneSync(box) => OneSync(Tail(box))
  BY TailSyncs
<1>3. EndsInControl(box) => EndsInControl(Tail(box))
  BY TailEnd
<1>4. 1 \in DOMAIN box /\ box[1] = Head(box) /\ Len(box) \in DOMAIN box /\ DOMAIN box = 1 .. Len(box)
      /\ Len(box) \in Nat /\ ~Control(box[1])
  BY TailIndex DEF Control
<1>5. HasSync(box)
  BY <1>4 DEF HasSync
<1>6. Controls(box) = {} => ~EndsInControl(box)
  BY <1>4 DEF Controls, EndsInControl
<1>7. Controls(box) # {} /\ CurrentSyncs(box) # {} => CurrentSyncs(Tail(box)) # {}
  <2>1. ASSUME NEW k \in CurrentSyncs(box), Controls(box) # {} PROVE CurrentSyncs(Tail(box)) # {}
    <3>1. k # 1
      BY <1>4, <2>1 DEF CurrentSyncs, Controls
    <3> QED BY <3>1, TailSyncs
  <2> QED BY <2>1
<1>8. Controls(box) = {} /\ OneSync(box) => ~HasSync(Tail(box))
  <2>1. ASSUME Controls(box) = {}, OneSync(box), NEW k \in DOMAIN Tail(box), Tail(box)[k].type = "sync"
        PROVE  FALSE
    <3>1. \A j \in 1 .. Len(box) : ~Control(box[j])
      BY <1>4, <2>1 DEF Controls
    <3>2. k + 1 \in DOMAIN box /\ box[k + 1].type = "sync" /\ k \in Nat /\ k # 0
      BY <2>1, TailIndex
    <3>3. 1 \in CurrentSyncs(box)
      BY <1>4, <3>1 DEF CurrentSyncs
    <3>4. k + 1 \in CurrentSyncs(box)
      BY <1>4, <3>1, <3>2 DEF CurrentSyncs
    <3>5. k + 1 = 1
      BY <2>1, <3>3, <3>4 DEF OneSync
    <3> QED BY <3>2, <3>5
  <2> QED BY <2>1 DEF HasSync
<1>9. ASSUME up, me PROVE other /\ ~active /\ ~HasSync(Tail(box))
  BY <1>5, <1>6, <1>8, <1>9 DEF Phase
<1>10. ASSUME up, ~me, other PROVE CurrentSyncs(Tail(box)) # {}
  BY <1>7, <1>10 DEF Phase
<1> QED BY <1>1, <1>2, <1>3, <1>9, <1>10 DEF Phase

\* The other end joins and asks for what it lacks.
LEMMA PhaseAppendSync ==
    ASSUME NEW box \in Seq(Messages), NEW cur \in Cursors,
           NEW known, NEW on, NEW cancel, NEW active,
           NEW me,
           Phase(box, known, on, cancel, active, TRUE, me, FALSE)
    PROVE  Phase(Append(box, SyncFrom(cur)), known, on, cancel, active, TRUE, me, TRUE)
<1> DEFINE new == Append(box, SyncFrom(cur))
<1>1. /\ DataFirst(box) => DataFirst(new)
      /\ HasData(new) => HasData(box)
      /\ CurrentSyncs(new) # {}
      /\ EndsInControl(box) => OneSync(new)
  BY AppendSync
<1> HIDE DEF new
<1>2. DataFirst(box) /\ (HasData(box) => known) /\ EndsInControl(box) /\ ~(me /\ (on \/ active))
  BY DEF Phase
<1>3. Phase(new, known, on, cancel, active, TRUE, me, TRUE)
  BY <1>1, <1>2 DEF Phase
<1> QED BY <1>3 DEF new

\* The stream of the client opens.
LEMMA PhaseAppendConnect ==
    ASSUME NEW box \in Seq(Messages), NEW e \in Nat,
           NEW known, NEW on, NEW cancel, NEW active,
           NEW me, NEW other,
           Phase(box, known, on, cancel, active, FALSE, me, other)
    PROVE  Phase(Append(box, Connect(e)), known, on, cancel, active, TRUE, FALSE, FALSE)
<1> DEFINE new == Append(box, Connect(e))
<1>1. /\ EndsInControl(new) /\ OneSync(new)
      /\ DataFirst(box) => DataFirst(new)
      /\ HasData(new) => HasData(box)
  BY AppendConnect
<1> HIDE DEF new
<1>2. DataFirst(box) /\ (HasData(box) => known)
  BY DEF Phase
<1>3. Phase(new, known, on, cancel, active, TRUE, FALSE, FALSE)
  BY <1>1, <1>2 DEF Phase
<1> QED BY <1>3 DEF new

\* Types of what PhaseNow is about.
LEMMA PhaseTypes ==
    ASSUME PeerTypeOK, NEW p \in Peers, NEW q \in Neighbours(p)
    PROVE  /\ inbox[p][q] \in Seq(Messages)
           /\ info[p][q].known \in BOOLEAN /\ info[p][q].sync.on \in BOOLEAN
           /\ info[p][q].sync.cancel \in BOOLEAN /\ info[p][q].active \in BOOLEAN
           /\ Up(p, q) \in BOOLEAN /\ Joined(p, q) \in BOOLEAN /\ Joined(q, p) \in BOOLEAN
<1>1. info[p][q] \in Infos /\ inbox[p][q] \in Seq(Messages)
  BY StateTypes
<1>2. Link(p, q) \in Neighbours(Server) /\ Server \in Peers
  BY NeighbourFacts, ClientFacts, PeersAreNumbers
<1>3. Up(p, q) \in BOOLEAN
  BY <1>2, StateTypes DEF Up
<1>4. Joined(p, q) \in BOOLEAN /\ Joined(q, p) \in BOOLEAN
  BY DEF Joined
<1> QED BY <1>1, <1>3, <1>4, InfoFields

\* What PhaseNow says of the next state.
LEMMA PhaseNext ==
    ASSUME NEW r, NEW t, NEW box,
           NEW known \in BOOLEAN, NEW on \in BOOLEAN, NEW cancel \in BOOLEAN, NEW active \in BOOLEAN,
           NEW up \in BOOLEAN, NEW me \in BOOLEAN, NEW other \in BOOLEAN,
           inbox'[r][t] = box, info'[r][t].known = known, info'[r][t].sync.on = on,
           info'[r][t].sync.cancel = cancel, info'[r][t].active = active,
           Up(r, t)' <=> up, Joined(r, t)' <=> me, Joined(t, r)' <=> other,
           Phase(box, known, on, cancel, active, up, me, other)
    PROVE  PhaseNow(r, t)'
<1>1. Up(r, t)' \in BOOLEAN /\ Joined(r, t)' \in BOOLEAN /\ Joined(t, r)' \in BOOLEAN
         => Up(r, t)' = up /\ Joined(r, t)' = me /\ Joined(t, r)' = other
  OBVIOUS
<1> QED BY DEF PhaseNow, Phase

\* A calm step lets both ends stay as they are.
LEMMA CalmJoined ==
    ASSUME NEW r, NEW t, Calm(r, t), Link(t, r) = Link(r, t)
    PROVE  (Joined(r, t)' <=> Joined(r, t)) /\ (Up(r, t)' <=> Up(r, t)) /\ (Up(t, r)' <=> Up(r, t))
BY DEF Calm, Quiet1, Joined, Up

\* Who sends data has joined.
LEMMA PublishJoined ==
    ASSUME Local, LinkInv, NEW p \in Peers, NEW q \in Neighbours(p), Publish(p), ~strayed',
           Reaches(p, q), Broadcast(p, job[p].changes, job[p].peer)[q] # <<>>
    PROVE  Joined(p, q) /\ info[p][q].active
<1>1. PeerTypeOK
  BY DEF Local
<1>2. ~BroadcastStrays(p, job[p].changes, job[p].peer)
  BY DEF Publish
<1>3. info[p][q].epoch = epoch[Link(p, q)]
  BY <1>2 DEF BroadcastStrays
<1>4. info[p][q].known /\ info[p][q].active
  BY DEF Broadcast, Listening
<1>5. LinkOk(p, q) /\ Up(p, q)
  BY DEF LinkInv, Reaches, Up
<1>6. info[p][q].epoch \in Nat
  BY <1>1, StateTypes, InfoFields
<1> QED BY <1>3, <1>4, <1>5, <1>6 DEF LinkOk, Joining

\* What a turn sends goes to a peer that has joined.
LEMMA SyncTurnJoined ==
    ASSUME Local, LinkInv, NEW p \in Peers, NEW q \in Neighbours(p), SyncTurn(p, q), ~strayed',
           Reaches(p, q), Turn(p, info[p][q]) # <<>>
    PROVE  Joined(p, q) /\ info[p][q].sync.on
<1>1. PeerTypeOK
  BY DEF Local
<1>2. ~TurnStrays(p, q, info[p][q]) /\ info[p][q].sync.on
  BY DEF SyncTurn
<1>3. info[p][q].epoch = epoch[Link(p, q)]
  BY <1>2 DEF TurnStrays
<1>4. RunsOk(p, q)
  BY DEF Local, MessageInv
<1>5. LinkOk(p, q) /\ Up(p, q)
  BY DEF LinkInv, Reaches, Up
<1>6. info[p][q].epoch \in Nat
  BY <1>1, StateTypes, InfoFields
<1>7. info[p][q].known
  BY <1>2, <1>4 DEF RunsOk
<1> QED BY <1>2, <1>3, <1>5, <1>6, <1>7 DEF LinkOk, Joining

\* An old syncPeer sends nothing on a younger connection.
LEMMA StrayTurnSilent ==
    ASSUME Local, LinkInv, NEW p \in Peers, NEW q \in Neighbours(p), StrayTurn(p, q), ~strayed'
    PROVE  inbox'[q][p] = inbox[q][p]
<1>1. PeerTypeOK
  BY DEF Local
<1>2. PICK i \in strays[p][q] :
        /\ strayed' = (strayed \/ TurnStrays(p, q, i))
        /\ Reaches(p, q) => inbox'[q][p] = inbox[q][p] \o Turn(p, i)
        /\ ~Reaches(p, q) => inbox'[q][p] = inbox[q][p]
  BY ONLY <1>1, p \in Peers, q \in Neighbours(p), StrayTurn(p, q), StrayTurnEffect
<1>3. CASE Reaches(p, q)
  <2>1. LinkOk(p, q) /\ Up(p, q)
    BY <1>3 DEF LinkInv, Reaches, Up
  <2>2. i.epoch < epoch[Link(p, q)]
    BY <2>1 DEF LinkOk
  <2>3. i.epoch # epoch[Link(p, q)]
    <3>1. i.epoch \in Nat /\ epoch[Link(p, q)] \in Nat
      BY <1>1, StateTypes, InfoFields, NeighbourFacts DEF PeerTypeOK
    <3> QED BY <2>2, <3>1
  <2>4. ~TurnStrays(p, q, i)
    BY <1>2
  <2>5. Turn(p, i) = <<>>
    BY <1>3, <2>3, <2>4 DEF TurnStrays
  <2>6. inbox[q][p] \o <<>> = inbox[q][p]
    BY <1>1, StateTypes, NeighbourFacts
  <2> QED BY <1>2, <1>3, <2>5, <2>6
<1> QED BY <1>2, <1>3

---------------------------------------------------------------------------
(* A step, as one end of a connection sees it.                             *)

\* What r's inbox and PeerInfo of t become when neither end turns.
LEMMA PairStep ==
    ASSUME Local, [Next]_vars, NEW r \in Peers, NEW t \in Neighbours(r),
           ~Turning(r, t), ~Turning(t, r)
    PROVE  \/ inbox'[r][t] = inbox[r][t] /\ info'[r][t] = info[r][t]
           \/ Receive(r, t) /\ inbox'[r][t] = Tail(inbox[r][t]) /\ info'[r][t] = AfterReceive(r, t)
           \/ OnSync(r, t) /\ inbox'[r][t] = Tail(inbox[r][t]) /\ info'[r][t] = AfterSync(r, t)
           \/ Cancel(r, t) /\ inbox'[r][t] = inbox[r][t] /\ info'[r][t] = AfterCancel(r, t)
           \/ /\ Publish(r) /\ inbox'[r][t] = inbox[r][t]
              /\ info'[r][t] = AfterBroadcast(r, job[r].changes, job[r].peer)[t]
           \/ /\ SyncTurn(r, t) /\ inbox'[r][t] = inbox[r][t]
              /\ info'[r][t] =
                    AfterTurn(r, info[r][t], Advance(info[r][t].cursor, Told(r, info[r][t])))
           \/ /\ StrayTurn(r, t) /\ inbox'[r][t] = inbox[r][t]
              /\ \E i \in strays[r][t] : info'[r][t] = AfterStray(r, t, i)
           \/ /\ Publish(t) /\ Reaches(t, r) /\ info'[r][t] = info[r][t]
              /\ inbox'[r][t] = inbox[r][t] \o Broadcast(t, job[t].changes, job[t].peer)[r]
           \/ /\ SyncTurn(t, r) /\ Reaches(t, r) /\ info'[r][t] = info[r][t]
              /\ inbox'[r][t] = inbox[r][t] \o Turn(t, info[t][r])
           \/ /\ StrayTurn(t, r) /\ Reaches(t, r) /\ info'[r][t] = info[r][t]
              /\ \E i \in strays[t][r] : inbox'[r][t] = inbox[r][t] \o Turn(t, i)
<1> DEFINE Same == inbox'[r][t] = inbox[r][t] /\ info'[r][t] = info[r][t]
           Goal ==
             \/ Same
             \/ Receive(r, t) /\ inbox'[r][t] = Tail(inbox[r][t]) /\ info'[r][t] = AfterReceive(r, t)
             \/ OnSync(r, t) /\ inbox'[r][t] = Tail(inbox[r][t]) /\ info'[r][t] = AfterSync(r, t)
             \/ Cancel(r, t) /\ inbox'[r][t] = inbox[r][t] /\ info'[r][t] = AfterCancel(r, t)
             \/ /\ Publish(r) /\ inbox'[r][t] = inbox[r][t]
                /\ info'[r][t] = AfterBroadcast(r, job[r].changes, job[r].peer)[t]
             \/ /\ SyncTurn(r, t) /\ inbox'[r][t] = inbox[r][t]
                /\ info'[r][t] =
                      AfterTurn(r, info[r][t], Advance(info[r][t].cursor, Told(r, info[r][t])))
             \/ /\ StrayTurn(r, t) /\ inbox'[r][t] = inbox[r][t]
                /\ \E i \in strays[r][t] : info'[r][t] = AfterStray(r, t, i)
             \/ /\ Publish(t) /\ Reaches(t, r) /\ info'[r][t] = info[r][t]
                /\ inbox'[r][t] = inbox[r][t] \o Broadcast(t, job[t].changes, job[t].peer)[r]
             \/ /\ SyncTurn(t, r) /\ Reaches(t, r) /\ info'[r][t] = info[r][t]
                /\ inbox'[r][t] = inbox[r][t] \o Turn(t, info[t][r])
             \/ /\ StrayTurn(t, r) /\ Reaches(t, r) /\ info'[r][t] = info[r][t]
                /\ \E i \in strays[t][r] : inbox'[r][t] = inbox[r][t] \o Turn(t, i)
<1>0. PeerTypeOK
  BY DEF Local
<1>1. t \in Peers /\ r \in Neighbours(t) /\ t # r /\ Link(r, t) \in Clients /\ Link(t, r) = Link(r, t)
      /\ (Server = r \/ Server = t)
  BY NeighbourFacts
<1>2. ASSUME NEW p \in Peers,
             Write(p) \/ CheckLocal(p) \/ LogLocal(p) \/ Publish(p) \/ Restart(p)
      PROVE  Goal
  <2>1. CASE Write(p) \/ CheckLocal(p) \/ LogLocal(p)
    <3>1. inbox' = inbox /\ info' = info
      BY <2>1 DEF Write, CheckLocal, LogLocal, net, memory
    <3> QED BY <3>1
  <2>2. CASE Publish(p)
    <3>1. /\ \A y \in Neighbours(p) :
                /\ info'[p][y] = AfterBroadcast(p, job[p].changes, job[p].peer)[y]
                /\ Reaches(p, y) => inbox'[y][p] =
                      inbox[y][p] \o Broadcast(p, job[p].changes, job[p].peer)[y]
                /\ ~Reaches(p, y) => inbox'[y][p] = inbox[y][p]
          /\ \A x \in Peers : \A y \in Neighbours(x) :
                /\ x # p => info'[x][y] = info[x][y]
                /\ y # p => inbox'[x][y] = inbox[x][y]
      BY ONLY <1>0, p \in Peers, <2>2, PublishEffect
    <3>2. CASE r = p
      BY <1>1, <2>2, <3>1, <3>2
    <3>3. CASE t = p
      BY <1>1, <2>2, <3>1, <3>3
    <3>4. CASE r # p /\ t # p
      BY <3>1, <3>4
    <3> QED BY <3>2, <3>3, <3>4
  <2>3. CASE Restart(p)
    <3>1. p # r /\ p # t
      BY <2>3, <1>1 DEF Turning
    <3>2. TopsIn(saved[p], hist[p])
      BY DEF Local, JobInv, JobOk
    <3>3. Same
      BY <1>0, <2>3, <3>1, <3>2, RestartEffect
    <3> QED BY <3>3
  <2> QED BY <1>2, <2>1, <2>2, <2>3
<1>3. ASSUME NEW p \in Peers, NEW q \in Neighbours(p),
             \/ Receive(p, q) \/ OnConnect(p, q) \/ Cancel(p, q) \/ OnSync(p, q)
             \/ SyncTurn(p, q) \/ StrayTurn(p, q)
      PROVE  Goal
  <2>1. CASE Receive(p, q)
    <3>1. /\ info'[p][q] = AfterReceive(p, q) /\ inbox'[p][q] = Tail(inbox[p][q])
          /\ \A x \in Peers : \A y \in Neighbours(x) : ~(x = p /\ y = q) =>
                info'[x][y] = info[x][y] /\ inbox'[x][y] = inbox[x][y]
      BY ONLY <1>0, p \in Peers, q \in Neighbours(p), <2>1, ReceiveTables
    <3>2. CASE r = p /\ t = q
      BY <2>1, <3>1, <3>2
    <3>3. CASE ~(r = p /\ t = q)
      BY <3>1, <3>3
    <3> QED BY <3>2, <3>3
  <2>2. CASE OnSync(p, q)
    <3>1. /\ info'[p][q] = AfterSync(p, q) /\ inbox'[p][q] = Tail(inbox[p][q])
          /\ \A x \in Peers : \A y \in Neighbours(x) : ~(x = p /\ y = q) =>
                info'[x][y] = info[x][y] /\ inbox'[x][y] = inbox[x][y]
      BY ONLY <1>0, p \in Peers, q \in Neighbours(p), <2>2, OnSyncEffect
    <3>2. CASE r = p /\ t = q
      BY <2>2, <3>1, <3>2
    <3>3. CASE ~(r = p /\ t = q)
      BY <3>1, <3>3
    <3> QED BY <3>2, <3>3
  <2>3. CASE Cancel(p, q)
    <3>1. /\ info'[p][q] = AfterCancel(p, q)
          /\ \A x \in Peers : \A y \in Neighbours(x) : ~(x = p /\ y = q) =>
                info'[x][y] = info[x][y]
      BY ONLY <1>0, p \in Peers, q \in Neighbours(p), <2>3, CancelEffect
    <3>2. inbox' = inbox
      BY <2>3 DEF Cancel, net
    <3>3. CASE r = p /\ t = q
      BY <2>3, <3>1, <3>2, <3>3
    <3>4. CASE ~(r = p /\ t = q)
      BY <3>1, <3>2, <3>4
    <3> QED BY <3>3, <3>4
  <2>4. CASE OnConnect(p, q)
    <3>1. /\ \A x \in Peers : \A y \in Neighbours(x) :
                /\ ~(x = p /\ y = q) => info'[x][y] = info[x][y] /\ strays'[x][y] = strays[x][y]
                /\ ~(x = p /\ y = q) /\ ~(x = q /\ y = p) => inbox'[x][y] = inbox[x][y]
                /\ open'[x][y] = (open[x][y] \/ (p # Server /\ x = p /\ y = q))
      BY ONLY <1>0, p \in Peers, q \in Neighbours(p), <2>4, OnConnectEffect
    <3>2. ~(r = p /\ t = q) /\ ~(r = q /\ t = p)
      BY <2>4, <1>1 DEF Turning
    <3> QED BY <3>1, <3>2
  <2>5. CASE SyncTurn(p, q)
    <3>1. /\ info'[p][q] = AfterTurn(p, info[p][q], Advance(info[p][q].cursor, Told(p, info[p][q])))
          /\ Reaches(p, q) => inbox'[q][p] = inbox[q][p] \o Turn(p, info[p][q])
          /\ ~Reaches(p, q) => inbox'[q][p] = inbox[q][p]
          /\ \A x \in Peers : \A y \in Neighbours(x) :
                /\ ~(x = p /\ y = q) => info'[x][y] = info[x][y]
                /\ ~(x = q /\ y = p) => inbox'[x][y] = inbox[x][y]
      BY ONLY <1>0, p \in Peers, q \in Neighbours(p), <2>5, SyncTurnEffect
    <3>2. CASE r = p /\ t = q
      BY <1>1, <2>5, <3>1, <3>2
    <3>3. CASE t = p /\ r = q
      BY <1>1, <2>5, <3>1, <3>3
    <3>4. CASE ~(r = p /\ t = q) /\ ~(t = p /\ r = q)
      BY <3>1, <3>4
    <3> QED BY <3>2, <3>3, <3>4
  <2>6. CASE StrayTurn(p, q)
    <3>1. PICK i \in strays[p][q] :
             /\ info'[p][q] = AfterStray(p, q, i)
             /\ Reaches(p, q) => inbox'[q][p] = inbox[q][p] \o Turn(p, i)
             /\ ~Reaches(p, q) => inbox'[q][p] = inbox[q][p]
             /\ \A x \in Peers : \A y \in Neighbours(x) :
                /\ ~(x = p /\ y = q) => info'[x][y] = info[x][y] /\ strays'[x][y] = strays[x][y]
                /\ ~(x = q /\ y = p) => inbox'[x][y] = inbox[x][y]
      BY ONLY <1>0, p \in Peers, q \in Neighbours(p), <2>6, StrayTurnEffect
    <3>2. CASE r = p /\ t = q
      BY <1>1, <2>6, <3>1, <3>2
    <3>3. CASE t = p /\ r = q
      BY <1>1, <2>6, <3>1, <3>3
    <3>4. CASE ~(r = p /\ t = q) /\ ~(t = p /\ r = q)
      BY <3>1, <3>4
    <3> QED BY <3>2, <3>3, <3>4
  <2> QED BY <1>3, <2>1, <2>2, <2>3, <2>4, <2>5, <2>6
<1>4. ASSUME NEW c \in Clients, Open(c) \/ Hear(c) \/ OnClose(c) \/ Drop(c)
      PROVE  Goal
  <2>1. CASE Hear(c)
    <3>1. inbox' = inbox /\ info' = info
      BY <2>1 DEF Hear, memory
    <3> QED BY <3>1
  <2>2. CASE Open(c)
    <3>1. Link(r, t) # c /\ info' = info
      BY <1>1, <2>2 DEF Turning, Open, memory
    <3>2. inbox'[r][t] = inbox[r][t]
      BY <1>0, <1>1, <2>2, <3>1, OpenEffect
    <3> QED BY <3>1, <3>2
  <2>3. CASE Drop(c)
    <3>1. Link(r, t) # c /\ info' = info
      BY <1>1, <2>3 DEF Turning, Drop, memory
    <3>2. inbox'[r][t] = inbox[r][t]
      BY <1>0, <1>1, <2>3, <3>1, DropEffect
    <3> QED BY <3>1, <3>2
  <2>4. CASE OnClose(c)
    <3>1. ~(r = Server /\ t = c)
      BY <2>4 DEF Turning
    <3>2. Same
      BY <1>0, <2>4, <3>1, OnCloseEffect
    <3> QED BY <3>2
  <2> QED BY <1>4, <2>1, <2>2, <2>3, <2>4
<1>5. CASE UNCHANGED vars
  <2>1. inbox' = inbox /\ info' = info
    BY <1>5 DEF vars, net, memory
  <2> QED BY <2>1
<1> QED BY <1>2, <1>3, <1>4, <1>5, Steps DEF Goal

=============================================================================
