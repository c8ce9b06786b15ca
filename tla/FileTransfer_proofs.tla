------------------------- MODULE FileTransfer_proofs -------------------------
(***************************************************************************)
(* A stream hands out its file in order and calls it done only when it is  *)
(* whole, in any number of chunks and over any relays; so the uploads that *)
(* succeed were saved and the files in the cache are whole.                *)
(***************************************************************************)
EXTENDS FileTransfer, SequenceTheorems, TLAPS

USE DEF file, writerVars, readerVars, Ids

---------------------------------------------------------------------------
(* The writer.                                                             *)

\* Chunks that follow one another, the first of them after those there are.
Chained(s) ==
    \A k \in DOMAIN s :
        /\ s[k].from = (IF k = 1 THEN Flushed ELSE s[k - 1].to)
        /\ s[k].from <= s[k].to
        /\ s[k].status = "done" => s[k].to = parts

\* The chunks there are stay, and those that are added are told apart by their place.
LEMMA PublishEffect ==
    ASSUME WriterTypes, NEW s \in Seq(ChunkType), NEW pending \in SUBSET Ids, Publish(s, pending)
    PROVE  /\ chunks' \in Seq(ChunkType) /\ Len(chunks) \in Nat /\ Len(s) \in Nat
           /\ Len(chunks') = Len(chunks) + Len(s) /\ Ids \subseteq Ids'
           /\ \A n \in Ids : chunks'[n] = chunks[n]
           /\ \A n \in Ids' \ Ids : n - Len(chunks) \in DOMAIN s /\ chunks'[n] = s[n - Len(chunks)]
           /\ publishing' \subseteq Ids' /\ wire' \subseteq Relays \X Ids'
<1> DEFINE R == ChunkType
<1>1. chunks \in Seq(R) /\ s \in Seq(R) /\ chunks' = chunks \o s
  BY DEF WriterTypes, Publish
<1> HIDE DEF R
<1>2. /\ chunks' \in Seq(R) /\ Len(chunks') = Len(chunks) + Len(s)
      /\ \A i \in 1 .. Len(chunks) + Len(s) :
            chunks'[i] = IF i <= Len(chunks) THEN chunks[i] ELSE s[i - Len(chunks)]
  BY <1>1, ConcatProperties
<1>3. Len(chunks) \in Nat /\ Len(s) \in Nat /\ DOMAIN s = 1 .. Len(s)
  BY <1>1, LenProperties
<1>4. Ids \subseteq Ids' /\ Ids' = Ids \cup (Len(chunks) + 1 .. Len(chunks) + Len(s))
  BY <1>2, <1>3
<1>5. publishing' \subseteq Ids' /\ wire' \subseteq Relays \X Ids'
  BY <1>4 DEF Publish, WriterTypes
<1>6. \A n \in Ids : chunks'[n] = chunks[n]
  BY <1>2, <1>3
<1>7. ASSUME NEW n \in Ids' \ Ids
      PROVE  n - Len(chunks) \in DOMAIN s /\ chunks'[n] = s[n - Len(chunks)]
  BY <1>2, <1>3, <1>7
<1>8. R = ChunkType
  BY DEF R
<1> QED BY <1>2, <1>3, <1>4, <1>5, <1>6, <1>7, <1>8

\* Where the last chunk ends is a number of parts.
LEMMA FlushedIsNumber ==
    ASSUME WriterTypes
    PROVE  /\ Len(chunks) \in Nat /\ (chunks = <<>> <=> Len(chunks) = 0)
           /\ \A n \in Ids : chunks[n] \in ChunkType
           /\ Flushed \in 0 .. parts /\ parts \in Nat /\ taken \in Nat
           /\ Flushed = IF Len(chunks) = 0 THEN 0 ELSE chunks[Len(chunks)].to
<1> DEFINE R == ChunkType
<1>1. chunks \in Seq(R) /\ MaxParts \in Nat /\ parts \in 0 .. MaxParts /\ taken \in 0 .. parts
  BY StreamAssumption DEF WriterTypes
<1> HIDE DEF R
<1>2. Len(chunks) \in Nat /\ (chunks = <<>> <=> Len(chunks) = 0) /\ \A n \in Ids : chunks[n] \in R
  BY <1>1, ElementOfSeq, EmptySeq, LenProperties
<1>3. parts \in Nat /\ taken \in Nat
  BY <1>1
<1>4. Len(chunks) # 0 => chunks[Len(chunks)] \in R
  BY <1>2
<1>5. Flushed = IF Len(chunks) = 0 THEN 0 ELSE chunks[Len(chunks)].to
  BY <1>2 DEF Flushed
<1> QED BY <1>2, <1>3, <1>4, <1>5 DEF R, ChunkType

\* Chunks that follow one another keep following those there are.
LEMMA PublishFollows ==
    ASSUME WriterTypes, ChunksFollow, NEW s \in Seq(ChunkType), NEW pending \in SUBSET Ids,
           Publish(s, pending), Chained(s), parts' = parts, taken' \in 0 .. parts,
           taken <= taken', s # <<>> => s[Len(s)].to <= taken', wDone' => taken' = parts
    PROVE  ChunksFollow'
<1>1. /\ Len(chunks) \in Nat /\ Len(s) \in Nat /\ Len(chunks') = Len(chunks) + Len(s)
      /\ \A n \in Ids : chunks'[n] = chunks[n]
      /\ \A n \in Ids' \ Ids : n - Len(chunks) \in DOMAIN s /\ chunks'[n] = s[n - Len(chunks)]
  BY PublishEffect
<1>2. /\ Flushed \in 0 .. parts /\ parts \in Nat /\ taken \in Nat /\ taken' \in Nat
      /\ Flushed = IF Len(chunks) = 0 THEN 0 ELSE chunks[Len(chunks)].to
  BY FlushedIsNumber
<1>3. DOMAIN s = 1 .. Len(s) /\ (s = <<>> <=> Len(s) = 0)
  BY LenProperties, EmptySeq
<1>4. ASSUME NEW n \in Ids'
      PROVE  /\ chunks'[n].from = (IF n = 1 THEN 0 ELSE chunks'[n - 1].to)
             /\ chunks'[n].from <= chunks'[n].to
             /\ chunks'[n].status = "done" => chunks'[n].to = parts'
  <2>1. CASE n \in Ids
    <3>1. n # 1 => n - 1 \in Ids
      BY <1>1, <2>1
    <3> QED BY <1>1, <2>1, <3>1 DEF ChunksFollow
  <2>2. CASE n \notin Ids
    <3> DEFINE k == n - Len(chunks)
    <3>1. k \in 1 .. Len(s) /\ chunks'[n] = s[k] /\ n \in Nat /\ n = Len(chunks) + k
      BY <1>1, <1>3, <2>2
    <3>2. k # 1 => n # 1 /\ n - 1 \in Ids' \ Ids /\ chunks'[n - 1] = s[k - 1]
      <4> SUFFICES ASSUME k # 1 PROVE n # 1 /\ n - 1 \in Ids' \ Ids /\ chunks'[n - 1] = s[k - 1]
        OBVIOUS
      <4>1. n - 1 \in Ids' \ Ids /\ n # 1
        BY <1>1, <3>1
      <4>2. (n - 1) - Len(chunks) = k - 1
        BY <1>1, <3>1
      <4> QED BY <1>1, <4>1, <4>2
    <3>3. k = 1 /\ Len(chunks) # 0 => n - 1 \in Ids /\ n - 1 = Len(chunks) /\ n # 1
      BY <1>1, <3>1
    <3>4. k = 1 /\ Len(chunks) = 0 => n = 1
      BY <3>1
    <3>5. s[k].from = (IF k = 1 THEN Flushed ELSE s[k - 1].to) /\ s[k].from <= s[k].to
          /\ (s[k].status = "done" => s[k].to = parts)
      BY <1>3, <3>1 DEF Chained
    <3> HIDE DEF k
    <3>6. chunks'[n].from = (IF n = 1 THEN 0 ELSE chunks'[n - 1].to)
      BY <1>1, <1>2, <3>1, <3>2, <3>3, <3>4, <3>5
    <3> QED BY <3>1, <3>5, <3>6
  <2> QED BY <2>1, <2>2
<1>5. Flushed' <= taken'
  <2>1. CASE s = <<>>
    <3>1. Len(chunks') = Len(chunks) /\ (Len(chunks) # 0 => chunks'[Len(chunks)] = chunks[Len(chunks)])
      BY <1>1, <1>3, <2>1
    <3>2. Flushed' = IF Len(chunks') = 0 THEN 0 ELSE chunks'[Len(chunks')].to
      BY PublishEffect, EmptySeq DEF Flushed
    <3>3. Flushed' = Flushed
      BY <1>2, <3>1, <3>2
    <3> QED BY <3>3, <1>2 DEF ChunksFollow
  <2>2. CASE s # <<>>
    <3>1. Len(chunks') \in Ids' \ Ids /\ Len(chunks') - Len(chunks) = Len(s) /\ Len(chunks') # 0
      BY <1>1, <1>3, <2>2
    <3>2. chunks'[Len(chunks')] = s[Len(s)]
      BY <1>1, <3>1
    <3>3. chunks' # <<>>
      BY <3>1, PublishEffect, EmptySeq
    <3> QED BY <2>2, <3>2, <3>3 DEF Flushed
  <2> QED BY <2>1, <2>2
<1> QED BY <1>4, <1>5 DEF ChunksFollow

\* One after the other is both.
LEMMA Pairs ==
    ASSUME NEW a, NEW b
    PROVE  <<a>> \o <<b>> = <<a, b>> /\ Append(<<a>>, b) = <<a, b>>
<1> DEFINE S == {a, b}
<1>1. <<a>> \in Seq(S) /\ <<b>> \in Seq(S) /\ <<a, b>> \in Seq(S) /\ Len(<<a, b>>) = 2 /\ Len(<<a>>) = 1 /\ Len(<<b>>) = 1
  OBVIOUS
<1>2. <<a>>[1] = a /\ <<b>>[1] = b /\ <<a, b>>[1] = a /\ <<a, b>>[2] = b /\ b \in S
  OBVIOUS
<1> HIDE DEF S
<1>3. <<a>> \o <<b>> \in Seq(S) /\ Len(<<a>> \o <<b>>) = 2 /\ (<<a>> \o <<b>>)[1] = a /\ (<<a>> \o <<b>>)[2] = b
  BY <1>1, <1>2, ConcatProperties
<1>4. Append(<<a>>, b) \in Seq(S) /\ Len(Append(<<a>>, b)) = 2 /\ Append(<<a>>, b)[1] = a /\ Append(<<a>>, b)[2] = b
  BY <1>1, <1>2
<1>5. ASSUME NEW s \in Seq(S), Len(s) = 2, s[1] = a, s[2] = b PROVE s = <<a, b>>
  <2>1. \A i \in 1 .. Len(s) : s[i] = <<a, b>>[i]
    BY <1>2, <1>5
  <2> QED BY <1>1, <1>5, <2>1, SeqEqual
<1> QED BY <1>3, <1>4, <1>5

\* What the reader relies on when the writer goes on.
Grown ==
    /\ WriterTypes' /\ ChunksFollow' /\ parts' = parts /\ Ids \subseteq Ids'
    /\ \A n \in Ids : chunks'[n] = chunks[n]
    /\ Len(chunks) \in Nat /\ Len(chunks') \in Nat /\ Len(chunks) <= Len(chunks')

\* Chunks that are published make the file grow.
LEMMA PublishGrows ==
    ASSUME WriterTypes, ChunksFollow, NEW s \in Seq(ChunkType), NEW pending \in SUBSET Ids,
           Publish(s, pending), Chained(s), parts' = parts, taken' \in 0 .. parts,
           taken <= taken', s # <<>> => s[Len(s)].to <= taken', wDone' => taken' = parts,
           failures' \in 0 .. MaxFailures
    PROVE  Grown
<1>1. ChunksFollow'
  BY PublishFollows
<1>2. ChunkType' = ChunkType
  BY DEF ChunkType
<1>3. WriterTypes'
  BY <1>2, PublishEffect DEF WriterTypes
<1> QED BY <1>1, <1>3, PublishEffect DEF Grown

\* The step of the writer: each call sends chunks that follow one another.
LEMMA WriterStep ==
    ASSUME WriterTypes, ChunksFollow, WriterNext \/ RelayNext
    PROVE  Grown /\ UNCHANGED readerVars
<1>0. /\ Flushed \in 0 .. parts /\ Flushed \in Nat /\ parts \in Nat /\ taken \in Nat /\ Flushed <= taken
      /\ taken \in 0 .. parts /\ failures \in 0 .. MaxFailures /\ publishing \in SUBSET Ids
  BY FlushedIsNumber DEF ChunksFollow, WriterTypes
<1>1. ASSUME UNCHANGED <<chunks, parts, taken, wDone, failures>>, wire' \subseteq wire, publishing' \subseteq publishing
      PROVE  Grown
  <2>1. Len(chunks) \in Nat
    BY FlushedIsNumber
  <2>2. ChunksFollow'
    BY <1>1 DEF ChunksFollow, Flushed
  <2>3. ChunkType' = ChunkType /\ Ids' = Ids
    BY <1>1 DEF ChunkType
  <2>4. WriterTypes'
    BY <1>1, <2>3 DEF WriterTypes
  <2> QED BY <1>1, <2>1, <2>2, <2>4 DEF Grown
<1>2. ASSUME NEW flush \in BOOLEAN, Write(flush) PROVE Grown
  <2>1. taken < parts /\ taken' = taken + 1 /\ UNCHANGED <<parts, failures, wDone>> /\ ~wDone
    BY <1>2 DEF Write
  <2> DEFINE old == [from |-> Flushed, to |-> taken, status |-> "active"]
             all == [from |-> taken, to |-> taken + 1, status |-> "active"]
             new == [from |-> Flushed, to |-> taken + 1, status |-> "active"]
  <2>2. old \in ChunkType /\ all \in ChunkType /\ new \in ChunkType
    BY <1>0, <2>1 DEF ChunkType
  <2>3. PICK s \in {<<>>, <<old>>, <<new>>, <<old, all>>} : Publish(s, publishing)
    <3>1. CASE BatchFull /\ flush
      <4>1. Publish(<<old>> \o <<all>>, publishing)
        BY <1>2, <3>1 DEF Write, Chunk
      <4> QED BY <4>1, Pairs
    <3>2. CASE BatchFull /\ ~flush
      BY <1>2, <3>2 DEF Write, Chunk
    <3>3. CASE ~BatchFull /\ flush
      BY <1>2, <3>3 DEF Write, Chunk
    <3>4. CASE ~BatchFull /\ ~flush
      BY <1>2, <3>4 DEF Write, Chunk
    <3> QED BY <3>1, <3>2, <3>3, <3>4
  <2>4. s \in Seq(ChunkType)
    <3> HIDE DEF old, all, new
    <3>1. \A a, b \in ChunkType : <<>> \in Seq(ChunkType) /\ <<a>> \in Seq(ChunkType) /\ <<a, b>> \in Seq(ChunkType)
      OBVIOUS
    <3> QED BY <2>2, <2>3, <3>1
  <2>5. Chained(s)
    BY <1>0, <2>1, <2>3 DEF Chained
  <2>6. s # <<>> => s[Len(s)].to <= taken'
    BY <1>0, <2>1, <2>3
  <2>7. taken' \in 0 .. parts /\ taken <= taken'
    BY <1>0, <2>1
  <2> QED BY <1>0, <2>1, <2>3, <2>4, <2>5, <2>6, <2>7, PublishGrows
<1>3. ASSUME WriteDone PROVE Grown
  <2>1. taken = parts /\ UNCHANGED <<parts, taken, failures>> /\ wDone'
    BY <1>3 DEF WriteDone
  <2>2. CASE CanEncrypt(Flushed, taken)
    <3> DEFINE last == [from |-> Flushed, to |-> taken, status |-> "done"]
    <3>1. Publish(<<last>>, publishing)
      BY <1>3, <2>2 DEF WriteDone, Chunk
    <3>2. last \in ChunkType
      BY <1>0 DEF ChunkType
    <3>3. <<last>> \in Seq(ChunkType) /\ Chained(<<last>>) /\ <<last>>[Len(<<last>>)].to <= taken'
      BY <1>0, <2>1, <3>2 DEF Chained
    <3> QED BY <1>0, <2>1, <3>1, <3>3, PublishGrows
  <2>3. CASE ~CanEncrypt(Flushed, taken)
    <3>1. UNCHANGED <<chunks, publishing, wire, parts, taken, failures>>
      BY <1>3, <2>3 DEF WriteDone
    <3>2. ChunksFollow'
      BY <2>1, <3>1 DEF ChunksFollow, Flushed
    <3>3. ChunkType' = ChunkType /\ Ids' = Ids
      BY <3>1 DEF ChunkType
    <3>4. WriterTypes'
      BY <3>1, <3>3 DEF WriterTypes
    <3> QED BY <3>1, <3>2, <3>4, FlushedIsNumber DEF Grown
  <2> QED BY <2>2, <2>3
<1>4. ASSUME NEW n \in Ids, PublishSettles(n) PROVE Grown
  BY <1>1, <1>4 DEF PublishSettles
<1>5. ASSUME NEW n \in Ids, NEW flush \in BOOLEAN, PublishFails(n, flush) PROVE Grown
  <2> DEFINE end == IF flush THEN taken ELSE Flushed
             rest == [from |-> Flushed, to |-> taken, status |-> "active"]
             error == [from |-> end, to |-> end, status |-> "error"]
  <2>1. UNCHANGED <<parts, taken, wDone>> /\ failures' \in 0 .. MaxFailures
    <3>1. failures < MaxFailures /\ failures' = failures + 1
      BY <1>5 DEF PublishFails
    <3>2. failures' \in 0 .. MaxFailures
      BY <1>0, <3>1, StreamAssumption
    <3> QED BY <1>5, <3>2 DEF PublishFails
  <2>2. rest \in ChunkType /\ error \in ChunkType
    BY <1>0 DEF ChunkType
  <2>3. PICK s : /\ s = <<>> \/ (~flush /\ s = <<error>>) \/ (flush /\ s = <<rest, error>>)
                 /\ Publish(s, publishing \ {n})
    <3>1. CASE wDone
      BY <1>5, <3>1 DEF PublishFails
    <3>2. CASE ~wDone /\ flush
      <4>1. Publish(Append(<<rest>>, error), publishing \ {n})
        BY <1>5, <3>2 DEF PublishFails, Chunk
      <4> QED BY <4>1, <3>2, Pairs
    <3>3. CASE ~wDone /\ ~flush
      BY <1>5, <3>3 DEF PublishFails, Chunk
    <3> QED BY <3>1, <3>2, <3>3
  <2>4. s \in Seq(ChunkType)
    <3> HIDE DEF rest, error
    <3>1. \A a, b \in ChunkType : <<>> \in Seq(ChunkType) /\ <<a>> \in Seq(ChunkType) /\ <<a, b>> \in Seq(ChunkType)
      OBVIOUS
    <3> QED BY <2>2, <2>3, <3>1
  <2>5. Chained(s)
    BY <1>0, <2>3 DEF Chained
  <2>6. s # <<>> => s[Len(s)].to <= taken'
    BY <1>0, <2>1, <2>3
  <2>7. wDone' => taken' = parts
    BY <2>1 DEF ChunksFollow
  <2>8. publishing \ {n} \in SUBSET Ids
    BY <1>0
  <2> QED BY <1>0, <2>1, <2>3, <2>4, <2>5, <2>6, <2>7, <2>8, PublishGrows
<1>6. ASSUME NEW r \in Relays, NEW n \in Ids, LoseChunk(r, n) PROVE Grown
  BY <1>1, <1>6 DEF LoseChunk
<1>7. UNCHANGED readerVars
  BY DEF WriterNext, RelayNext, Write, WriteDone, PublishSettles, PublishFails, LoseChunk
<1> QED BY <1>2, <1>3, <1>4, <1>5, <1>6, <1>7 DEF WriterNext, RelayNext

---------------------------------------------------------------------------
(* The reader.                                                             *)

\* A handed-out sequence is in order if its two parts are.
LEMMA GivenForm ==
    ASSUME received \in Seq(Nat), results \in Seq(Nat)
    PROVE  /\ Len(received) \in Nat /\ Len(results) \in Nat
           /\ Given \in Seq(Nat) /\ Len(Given) = Len(received) + Len(results)
           /\ (Given # <<>> <=> Len(Given) # 0) /\ (results = <<>> <=> Len(results) = 0)
           /\ (received = <<>> <=> Len(received) = 0)
           /\ \A k \in 1 .. Len(received) : Given[k] = received[k]
           /\ \A k \in 1 .. Len(results) : Given[Len(received) + k] = results[k]
           /\ DOMAIN Given = 1 .. Len(Given)
<1>1. Len(received) \in Nat /\ Len(results) \in Nat
  BY LenProperties
<1>2. /\ Given \in Seq(Nat) /\ Len(Given) = Len(received) + Len(results)
      /\ \A i \in 1 .. Len(received) + Len(results) :
            Given[i] = IF i <= Len(received) THEN received[i] ELSE results[i - Len(received)]
  BY ConcatProperties DEF Given
<1>3. DOMAIN Given = 1 .. Len(Given) /\ (Given # <<>> <=> Len(Given) # 0)
  BY <1>2, LenProperties, EmptySeq
<1>4. (results = <<>> <=> Len(results) = 0) /\ (received = <<>> <=> Len(received) = 0)
  BY EmptySeq
<1>5. \A k \in 1 .. Len(results) : Given[Len(received) + k] = results[k]
  <2> TAKE k \in 1 .. Len(results)
  <2>1. Len(received) + k \in 1 .. Len(received) + Len(results) /\ ~(Len(received) + k <= Len(received))
        /\ (Len(received) + k) - Len(received) = k
    BY <1>1
  <2> QED BY <1>2, <2>1
<1> QED BY <1>1, <1>2, <1>3, <1>4, <1>5

\* The sequences of a consistent reader are sequences of numbers.
LEMMA ReaderNumbers ==
    ASSUME ReaderTypes
    PROVE  received \in Seq(Nat) /\ results \in Seq(Nat) /\ procs \in Seq(Nat)
<1>1. Ids \subseteq Nat
  OBVIOUS
<1>2. received \in Seq(Ids) /\ results \in Seq(Ids) /\ procs \in Seq(Ids)
  BY DEF ReaderTypes
<1> HIDE DEF Ids
<1> QED BY <1>1, <1>2, SeqMonotonic

\* What is appended to the second of two sequences comes after both.
LEMMA AppendAtEnd ==
    ASSUME NEW S, NEW r \in Seq(S), NEW s \in Seq(S), NEW n \in S
    PROVE  r \o Append(s, n) = Append(r \o s, n)
<1> DEFINE u == <<n>>
<1>1. u \in Seq(S)
  OBVIOUS
<1>2. Append(s, n) = s \o u
  BY AppendIsConcat
<1>3. r \o s \in Seq(S)
  BY ConcatProperties
<1>4. Append(r \o s, n) = (r \o s) \o u
  BY <1>3, AppendIsConcat
<1> HIDE DEF u
<1>5. (r \o s) \o u = r \o (s \o u)
  BY <1>1, ConcatAssociative
<1> QED BY <1>2, <1>4, <1>5

\* A chunk that is handed out comes after the others.
LEMMA GivenAppends ==
    ASSUME received \in Seq(Nat), results \in Seq(Nat), NEW n \in Nat,
           \/ received' = Append(received, n) /\ results' = results /\ results = <<>>
           \/ received' = received /\ results' = Append(results, n)
    PROVE  Given' = Append(Given, n)
<1>1. CASE received' = Append(received, n) /\ results' = results /\ results = <<>>
  <2>1. received \o <<>> = received /\ Append(received, n) \o <<>> = Append(received, n)
    <3>1. Append(received, n) \in Seq(Nat)
      OBVIOUS
    <3> QED BY <3>1, ConcatEmptySeq
  <2> QED BY <1>1, <2>1 DEF Given
<1>2. CASE received' = received /\ results' = Append(results, n)
  <2>0. received \in Seq(Nat) /\ results \in Seq(Nat) /\ n \in Nat
    OBVIOUS
  <2>1. received \o Append(results, n) = Append(received \o results, n)
    BY ONLY <2>0, AppendAtEnd
  <2> QED BY <1>2, <2>1 DEF Given
<1> QED BY <1>1, <1>2

\* What the consumer asks for moves from the buffer of results to the consumer.
LEMMA GivenMoves ==
    ASSUME received \in Seq(Nat), results \in Seq(Nat), results # <<>>,
           received' = Append(received, Head(results)), results' = Tail(results)
    PROVE  /\ Given' = Given
           /\ Len(received') = Len(received) + 1 /\ received'[Len(received) + 1] = results[1]
           /\ received' \in Seq(Nat) /\ results' \in Seq(Nat)
<1>1. /\ Len(received) \in Nat /\ Len(results) \in Nat \ {0} /\ Head(results) = results[1] /\ Head(results) \in Nat
      /\ Tail(results) \in Seq(Nat) /\ Len(Tail(results)) = Len(results) - 1
      /\ \A i \in 1 .. Len(results) - 1 : Tail(results)[i] = results[i + 1]
  BY LenProperties, EmptySeq, HeadTailProperties
<1>2. /\ received' \in Seq(Nat) /\ Len(received') = Len(received) + 1
      /\ received'[Len(received) + 1] = results[1]
      /\ \A i \in 1 .. Len(received) : received'[i] = received[i]
  BY <1>1
<1>3. /\ Given' \in Seq(Nat) /\ Len(Given') = Len(received') + Len(results')
      /\ \A i \in 1 .. Len(received') + Len(results') :
            Given'[i] = IF i <= Len(received') THEN received'[i] ELSE results'[i - Len(received')]
  <2>1. results' \in Seq(Nat)
    BY <1>1
  <2>2. Given' = received' \o results'
    BY DEF Given
  <2> QED BY <1>2, <2>1, <2>2, ConcatProperties
<1>4. /\ Given \in Seq(Nat) /\ Len(Given) = Len(received) + Len(results)
      /\ \A i \in 1 .. Len(received) + Len(results) :
            Given[i] = IF i <= Len(received) THEN received[i] ELSE results[i - Len(received)]
  BY ConcatProperties DEF Given
<1>5. Len(Given') = Len(Given)
  BY <1>1, <1>2, <1>3, <1>4
<1>6. ASSUME NEW i \in 1 .. Len(Given') PROVE Given'[i] = Given[i]
  <2>0. i \in 1 .. Len(received) + Len(results) /\ i \in 1 .. Len(received') + Len(results') /\ i \in Nat
    BY <1>3, <1>4, <1>5, <1>6
  <2>1. CASE i <= Len(received)
    <3>1. i <= Len(received') /\ i \in 1 .. Len(received)
      BY <1>1, <1>2, <2>0, <2>1
    <3> QED BY <1>2, <1>3, <1>4, <2>0, <2>1, <3>1
  <2>2. CASE i = Len(received) + 1
    <3>1. i <= Len(received') /\ ~(i <= Len(received)) /\ i - Len(received) = 1
      BY <1>1, <1>2, <2>2
    <3> QED BY <1>2, <1>3, <1>4, <2>0, <2>2, <3>1
  <2>3. CASE i > Len(received) + 1
    <3>1. /\ ~(i <= Len(received')) /\ ~(i <= Len(received))
          /\ i - Len(received') \in 1 .. Len(results) - 1 /\ (i - Len(received')) + 1 = i - Len(received)
      BY <1>1, <1>2, <2>0, <2>3
    <3>2. results'[i - Len(received')] = results[i - Len(received)]
      BY <1>1, <3>1
    <3> QED BY <1>3, <1>4, <2>0, <3>1, <3>2
  <2> QED BY <1>1, <2>0, <2>1, <2>2, <2>3
<1>7. Given' = Given
  BY <1>3, <1>4, <1>5, <1>6, SeqEqual
<1> QED BY <1>1, <1>2, <1>7

\* The only call past its await has the chunk that follows.
LEMMA OnlyCall ==
    ASSUME StreamInv, NEW i \in DOMAIN procs
    PROVE  /\ i = 1 /\ Len(procs) = 1 /\ procs[1] = nextRef + 1 /\ nextRef + 1 \in seen \ buffer
           /\ nextRef + 1 \in Ids /\ nextRef \in Nat /\ Len(Given) = nextRef /\ ~rDone
           /\ chunks[nextRef + 1].to - chunks[nextRef + 1].from \in Nat
<1>1. procs \in Seq(Nat) /\ Len(procs) <= 1
  BY ReaderNumbers DEF StreamInv, TypeOK, OneCallAtATime
<1>2. Len(procs) \in Nat /\ DOMAIN procs = 1 .. Len(procs) /\ procs # <<>>
  BY <1>1, LenProperties, EmptySeq
<1>3. i = 1 /\ Len(procs) = 1
  BY <1>1, <1>2
<1>4. procs[1] = nextRef + 1 /\ nextRef + 1 \in seen \ buffer /\ Len(Given) = nextRef
  BY <1>2, <1>3 DEF StreamInv, OneAfterAnother
<1>5. nextRef + 1 \in Ids
  BY <1>4 DEF StreamInv, TypeOK, ReaderTypes
<1>6. nextRef \in Nat
  BY FlushedIsNumber DEF StreamInv, TypeOK, ReaderTypes
<1>7. ~rDone
  BY <1>2 DEF StreamInv, EndedIsClosed
<1>8. chunks[nextRef + 1].to - chunks[nextRef + 1].from \in Nat
  <2>1. chunks[nextRef + 1] \in ChunkType /\ chunks[nextRef + 1].from <= chunks[nextRef + 1].to
    BY <1>5, FlushedIsNumber DEF StreamInv, TypeOK, ChunksFollow
  <2>2. chunks[nextRef + 1].from \in Nat /\ chunks[nextRef + 1].to \in Nat
    BY <2>1, FlushedIsNumber DEF ChunkType, StreamInv, TypeOK
  <2> QED BY <2>1, <2>2
<1> QED BY <1>3, <1>4, <1>5, <1>6, <1>7, <1>8

\* Nothing is left of the only call, or the chunk after it is taken up.
LEMMA ContinueEffect ==
    ASSUME StreamInv, NEW i \in DOMAIN procs, NEW buf \in SUBSET buffer, NEW done, Continue(i, buf, done)
    PROVE  /\ nextRef' = nextRef + 1 /\ buffer' \subseteq buf
           /\ \/ procs' = <<>>
              \/ /\ procs' = <<nextRef + 2>> /\ nextRef + 2 \in buffer \ buffer'
                 /\ ~done /\ rError' = "none"
<1> DEFINE n == nextRef + 1
           found == IF done \/ rError' # "none" THEN {} ELSE Following(buf, n)
<1>1. i = 1 /\ Len(procs) = 1 /\ procs[1] = n /\ nextRef \in Nat /\ buffer \subseteq Ids
  BY OnlyCall DEF StreamInv, TypeOK, ReaderTypes
<1>2. /\ nextRef' = n /\ buffer' = buf \ found
      /\ procs' = IF found = {} THEN WithoutCall(1) ELSE [procs EXCEPT ![1] = CHOOSE m \in found : TRUE]
  BY <1>1 DEF Continue
<1>3. \A m \in found : m = nextRef + 2 /\ m \in buf
  BY <1>1 DEF Following, Prev
<1>4. CASE found = {}
  <2>1. WithoutCall(1) = <<>>
    <3>1. SubSeq(procs, 1, 0) = <<>> /\ SubSeq(procs, 2, 1) = <<>>
      BY SubSeqEmpty
    <3> QED BY <1>1, <3>1 DEF WithoutCall
  <2> QED BY <1>2, <1>4, <2>1
<1>5. CASE found # {}
  <2>1. (CHOOSE m \in found : TRUE) = nextRef + 2 /\ nextRef + 2 \in found
    <3>1. (CHOOSE m \in found : TRUE) \in found
      <4> HIDE DEF found
      <4> QED BY <1>5
    <3> QED BY <1>3, <3>1
  <2>2. ~done /\ rError' = "none"
    BY <1>5
  <2>3. procs \in Seq(Nat)
    BY ReaderNumbers DEF StreamInv, TypeOK
  <2>4. [procs EXCEPT ![1] = nextRef + 2] = <<nextRef + 2>>
    <3> DEFINE s == [procs EXCEPT ![1] = nextRef + 2]
    <3>1. s \in Seq(Nat) /\ Len(s) = 1 /\ s[1] = nextRef + 2
      BY <1>1, <2>3, ExceptSeq
    <3>2. <<nextRef + 2>> \in Seq(Nat) /\ Len(<<nextRef + 2>>) = 1 /\ <<nextRef + 2>>[1] = nextRef + 2
      BY <1>1
    <3> HIDE DEF s
    <3>3. \A k \in 1 .. Len(s) : s[k] = <<nextRef + 2>>[k]
      BY <3>1, <3>2
    <3>4. s = <<nextRef + 2>>
      BY <3>1, <3>2, <3>3, SeqEqual
    <3> QED BY <3>4 DEF s
  <2>5. procs' = <<nextRef + 2>>
    <3> HIDE DEF found
    <3> QED BY <1>2, <1>5, <2>1, <2>4
  <2> QED BY <1>2, <1>3, <2>1, <2>2, <2>5
<1> QED BY <1>2, <1>4, <1>5

\* An event ends the stream, or joins the buffer, or is the chunk that follows.
LEMMA HandleEffect ==
    ASSUME StreamInv, NEW r \in Relays, NEW n \in Ids, HandleEvent(r, n)
    PROVE  /\ UNCHANGED <<parts, chunks, nextRef, totalSize, rDone, results, received>>
           /\ sub = "open" /\ rError = "none" /\ ~rDone /\ chunkCount' \in Nat
           /\ \/ UNCHANGED readerVars
              \/ /\ n \notin seen /\ seen' = seen \cup {n} /\ sub' = "closed" /\ buffer' = {} /\ ~waiting'
                 /\ rError' \in {"relayed", "maxChunks"} /\ procs' = procs
                 /\ told' = IF waiting THEN "error" ELSE told
              \/ /\ n \notin seen /\ seen' = seen \cup {n} /\ UNCHANGED <<sub, rError, waiting, told>>
                 /\ buffer' \subseteq buffer \cup {n}
                 /\ \/ procs' = procs
                    \/ procs = <<>> /\ procs' = <<nextRef + 1>> /\ nextRef + 1 \in seen' \ buffer'
<1>1. sub = "open" /\ rError = "none" /\ ~rDone /\ chunkCount \in Nat /\ nextRef \in Nat /\ buffer \subseteq seen
      /\ seen \subseteq Ids
  BY FlushedIsNumber DEF HandleEvent, StreamInv, EndedIsClosed, TypeOK, ReaderTypes, OneAfterAnother
<1>2. CASE n \in seen
  BY <1>1, <1>2 DEF HandleEvent
<1>3. CASE n \notin seen /\ (chunks[n].status = "error" \/ chunkCount >= MaxChunks)
  BY <1>1, <1>3 DEF HandleEvent, SetError
<1>4. CASE n \notin seen /\ ~(chunks[n].status = "error" \/ chunkCount >= MaxChunks)
  <2> DEFINE found == Following(buffer \cup {n}, nextRef)
  <2>1. /\ seen' = seen \cup {n} /\ chunkCount' = chunkCount + 1
        /\ UNCHANGED <<parts, chunks, totalSize, rDone, results, received, sub, nextRef, rError, waiting, told>>
        /\ buffer' = (buffer \cup {n}) \ found
        /\ procs' = IF found = {} THEN procs ELSE Append(procs, CHOOSE m \in found : TRUE)
    BY <1>1, <1>4 DEF HandleEvent
  <2>2. \A m \in found : m = nextRef + 1 /\ m \in seen'
    BY <1>1, <2>1 DEF Following, Prev
  <2>3. CASE found = {}
    BY <1>1, <1>4, <2>1, <2>3
  <2>4. CASE found # {}
    <3>1. (CHOOSE m \in found : TRUE) = nextRef + 1 /\ nextRef + 1 \in found
      <4>1. (CHOOSE m \in found : TRUE) \in found
        <5> HIDE DEF found
        <5> QED BY <2>4
      <4> QED BY <2>2, <4>1
    <3>2. procs = <<>>
      <4> SUFFICES ASSUME procs # <<>> PROVE FALSE
        OBVIOUS
      <4>1. 1 \in DOMAIN procs
        BY ReaderNumbers, LenProperties, EmptySeq DEF StreamInv, TypeOK
      <4>2. nextRef + 1 \in seen \ buffer
        BY <4>1, OnlyCall
      <4> QED BY <3>1, <4>2, <1>4 DEF Following
    <3>3. Append(<<>>, nextRef + 1) = <<nextRef + 1>>
      BY <1>1
    <3>4. procs' = <<nextRef + 1>>
      <4> HIDE DEF found
      <4> QED BY <2>1, <2>4, <3>1, <3>2, <3>3
    <3>5. nextRef + 1 \in seen' \ buffer'
      BY <2>1, <2>2, <3>1
    <3>6. buffer' \subseteq buffer \cup {n} /\ chunkCount' \in Nat
      BY <1>1, <2>1
    <3> HIDE DEF found
    <3> QED BY <1>1, <1>4, <2>1, <3>2, <3>4, <3>5, <3>6
  <2> QED BY <2>3, <2>4
<1> QED BY <1>2, <1>3, <1>4

\* A processed chunk exceeds the limit, or is handed out as the next one.
LEMMA ProcessedEffect ==
    ASSUME StreamInv, NEW i \in DOMAIN procs, ChunkProcessed(i)
    PROVE  /\ UNCHANGED <<parts, chunks, seen, chunkCount>> /\ totalSize' \in Nat /\ ~waiting'
           /\ buffer' \subseteq buffer
           /\ \/ /\ UNCHANGED <<nextRef, rDone, results, received>>
                 /\ procs' = <<>> /\ sub' = "closed" /\ rError' \in Errors \ {"none"}
                 /\ told' = IF waiting THEN "error" ELSE told
              \/ /\ nextRef' = nextRef + 1 /\ rError' = rError /\ told' = told
                 /\ \/ waiting /\ received' = Append(received, nextRef + 1) /\ results' = results
                    \/ ~waiting /\ received' = received /\ results' = Append(results, nextRef + 1)
                 /\ \/ /\ ~rDone' /\ sub' = sub
                       /\ \/ procs' = <<>>
                          \/ procs' = <<nextRef + 2>> /\ nextRef + 2 \in buffer \ buffer'
                    \/ /\ rDone' /\ sub' = "closed" /\ procs' = <<>>
                       /\ chunks[nextRef + 1].status = "done"
<1> DEFINE n == nextRef + 1
           last == chunks[n].status = "done"
<1>1. i = 1 /\ procs[1] = n /\ n \in Ids /\ ~rDone /\ Size(n) \in Nat /\ totalSize \in Nat
  BY OnlyCall DEF Size, StreamInv, TypeOK, ReaderTypes
<1>2. totalSize' = totalSize + Size(n) /\ UNCHANGED <<parts, chunks, seen, chunkCount>>
  BY <1>1 DEF ChunkProcessed
<1>3. totalSize' \in Nat
  BY <1>1, <1>2
<1>4. CASE totalSize' > MaxResult
  <2>1. SetError("maxSize") /\ procs' = WithoutCall(1) /\ UNCHANGED <<nextRef, rDone, results, received>>
    BY <1>1, <1>4 DEF ChunkProcessed
  <2>2. WithoutCall(1) = <<>>
    <3>1. SubSeq(procs, 1, 0) = <<>> /\ SubSeq(procs, 2, 1) = <<>> /\ Len(procs) = 1
      BY SubSeqEmpty, OnlyCall
    <3> QED BY <3>1 DEF WithoutCall
  <2>3. rError # "none" => sub = "closed" /\ ~waiting
    BY DEF StreamInv, EndedIsClosed, OneCallAtATime
  <2>4. /\ sub' = "closed" /\ rError' \in Errors \ {"none"} /\ ~waiting' /\ buffer' \subseteq buffer
        /\ told' = IF waiting THEN "error" ELSE told
    BY <2>1, <2>3 DEF SetError, Errors, StreamInv, TypeOK, ReaderTypes
  <2> QED BY <1>2, <1>3, <2>1, <2>2, <2>4
<1>5. CASE ~(totalSize' > MaxResult)
  <2>1. ~(waiting /\ results # <<>>)
    BY DEF StreamInv, OneCallAtATime
  <2>2. /\ IF waiting
           THEN received' = Append(received, n) /\ results' = results
           ELSE results' = Append(results, n) /\ received' = received
        /\ ~waiting' /\ (rDone' <=> rDone \/ last) /\ sub' = (IF last THEN "closed" ELSE sub)
        /\ rError' = rError /\ told' = told
    BY <1>1, <1>5, <2>1 DEF ChunkProcessed
  <2>3. Continue(i, IF last THEN {} ELSE buffer, rDone')
    BY <1>1, <1>5, <2>1 DEF ChunkProcessed
  <2>4. CASE last
    <3>1. Continue(i, {}, rDone')
      BY <2>3, <2>4
    <3>2. /\ nextRef' = n /\ buffer' \subseteq {}
          /\ procs' = <<>> \/ ~rDone'
      BY <3>1, ContinueEffect
    <3>3. rDone'
      BY <2>2, <2>4
    <3> QED BY <1>2, <1>3, <2>2, <2>4, <3>2, <3>3
  <2>5. CASE ~last
    <3>1. Continue(i, buffer, rDone')
      BY <2>3, <2>5
    <3>2. /\ nextRef' = n /\ buffer' \subseteq buffer
          /\ procs' = <<>> \/ (procs' = <<nextRef + 2>> /\ nextRef + 2 \in buffer \ buffer')
      BY <3>1, ContinueEffect
    <3> QED BY <1>1, <1>2, <1>3, <2>2, <2>5, <3>2
  <2> QED BY <2>4, <2>5
<1> QED BY <1>4, <1>5

\* Only the first error, the last chunk or the consumer ends the stream; what
\* the consumer has, and what is ready, stays in order.
LEMMA ReaderStep ==
    ASSUME StreamInv, ReaderNext \/ Start \/ NextCall \/ UNCHANGED streamVars
    PROVE  ReaderTypes' /\ InOrder' /\ OneCallAtATime' /\ OneAfterAnother' /\ EndedIsClosed'
<1> DEFINE Goal == ReaderTypes /\ InOrder /\ OneCallAtATime /\ OneAfterAnother /\ EndedIsClosed
<1>0. /\ received \in Seq(Nat) /\ results \in Seq(Nat) /\ procs \in Seq(Nat) /\ Goal
      /\ Len(procs) \in Nat /\ Len(chunks) \in Nat
  BY ReaderNumbers, LenProperties, FlushedIsNumber DEF StreamInv, TypeOK
<1>1. ASSUME UNCHANGED <<chunks, readerVars>> PROVE Goal'
  <2>1. UNCHANGED <<chunks, sub, seen, buffer, nextRef, procs, chunkCount, totalSize, rDone, rError,
                    results, waiting, received, told>>
    BY <1>1
  <2>2. ReaderTypes'
    BY <1>0, <2>1 DEF ReaderTypes
  <2> QED BY <1>0, <2>1, <2>2 DEF InOrder, OneCallAtATime, OneAfterAnother, EndedIsClosed, Given
<1>2. ASSUME UNCHANGED <<chunks, nextRef, procs, results, received, seen, rDone, totalSize, chunkCount>>,
             buffer' \subseteq buffer, rError' \in Errors, told' \in {"no", "done", "error", "left"},
             sub' = "closed", ~waiting',
             told' = "done" => told = "done"
      PROVE  Goal'
  <2>1. ReaderTypes'
    BY <1>0, <1>2 DEF ReaderTypes
  <2> QED BY <1>0, <1>2, <2>1 DEF InOrder, OneCallAtATime, OneAfterAnother, EndedIsClosed, Given
<1>3. ASSUME Start PROVE Goal'
  <2>1. sub = "no" /\ sub' = "open" /\ UNCHANGED <<chunks, seen, buffer, nextRef, procs, chunkCount, totalSize,
                    rDone, rError, results, waiting, received, told>>
    BY <1>3 DEF Start
  <2>2. ReaderTypes'
    BY <1>0, <2>1 DEF ReaderTypes
  <2> QED BY <1>0, <2>1, <2>2 DEF InOrder, OneCallAtATime, OneAfterAnother, EndedIsClosed, Given
<1>4. ASSUME TtlExpires PROVE Goal'
  <2>1. /\ UNCHANGED <<chunks, nextRef, procs, results, received, seen, rDone, totalSize, chunkCount>>
        /\ sub' = "closed" /\ ~waiting' /\ buffer' = {} /\ rError' = "ttl"
        /\ told' = IF waiting THEN "error" ELSE told
    BY <1>4 DEF TtlExpires, SetError
  <2>2. rError' \in Errors /\ told' \in {"no", "done", "error", "left"} /\ (told' = "done" => told = "done")
    BY <1>0, <2>1 DEF Errors, ReaderTypes
  <2> QED BY <2>1, <2>2, <1>2
<1>5. ASSUME Leave PROVE Goal'
  BY <1>0, <1>2, <1>5 DEF Leave, ReaderTypes
<1>6. ASSUME NEW i \in DOMAIN procs, ChunkRejected(i) PROVE Goal'
  <2>1. /\ UNCHANGED <<chunks, results, received, seen, rDone, totalSize, chunkCount>>
        /\ sub' = "closed" /\ ~waiting' /\ rError' \in Errors \ {"none"}
        /\ told' = (IF waiting THEN "error" ELSE told) /\ Continue(i, {}, rDone)
    BY <1>0, <1>6 DEF ChunkRejected, Errors, ReaderTypes
  <2>2. nextRef' = nextRef + 1 /\ buffer' = {} /\ procs' = <<>>
    <3>1. {} \in SUBSET buffer
      OBVIOUS
    <3>2. /\ nextRef' = nextRef + 1 /\ buffer' \subseteq {}
          /\ procs' = <<>> \/ rError' = "none"
      BY <2>1, <3>1, ContinueEffect
    <3> QED BY <2>1, <3>2
  <2>3. nextRef + 1 \in 1 .. Len(chunks) /\ ~rDone
    BY OnlyCall
  <2>4. ReaderTypes'
    BY <1>0, <2>1, <2>2, <2>3 DEF ReaderTypes
  <2> QED BY <1>0, <2>1, <2>2, <2>3, <2>4 DEF InOrder, OneCallAtATime, OneAfterAnother, EndedIsClosed, Given
<1>7. ASSUME NextCall PROVE Goal'
  <2>1. /\ sub # "no" /\ ~waiting /\ told = "no"
        /\ UNCHANGED <<chunks, sub, seen, buffer, nextRef, procs, chunkCount, totalSize, rDone, rError>>
    BY <1>7 DEF NextCall
  <2>2. CASE rError # "none"
    <3>1. told' = "error" /\ ~waiting' /\ received' = received /\ results' = results
      BY <1>7, <2>2 DEF NextCall
    <3>2. ReaderTypes'
      BY <1>0, <2>1, <3>1 DEF ReaderTypes
    <3> QED BY <1>0, <2>1, <3>1, <3>2 DEF InOrder, OneCallAtATime, OneAfterAnother, EndedIsClosed, Given
  <2>3. CASE rError = "none" /\ results # <<>>
    <3>1. received' = Append(received, Head(results)) /\ results' = Tail(results) /\ ~waiting' /\ told' = told
      BY <1>7, <2>1, <2>3 DEF NextCall
    <3>2. Given' = Given
      BY <1>0, <2>3, <3>1, GivenMoves
    <3>3. received' \in Seq(Ids) /\ results' \in Seq(Ids)
      <4>1. received \in Seq(Ids) /\ results \in Seq(Ids)
        BY <1>0 DEF ReaderTypes
      <4> HIDE DEF Ids
      <4>2. Head(results) \in Ids /\ Tail(results) \in Seq(Ids)
        BY <4>1, <2>3, HeadTailProperties
      <4> QED BY <3>1, <4>1, <4>2, AppendProperties
    <3>4. ReaderTypes'
      BY <1>0, <2>1, <3>1, <3>3 DEF ReaderTypes
    <3> QED BY <1>0, <2>1, <3>1, <3>2, <3>4 DEF InOrder, OneCallAtATime, OneAfterAnother, EndedIsClosed
  <2>4. CASE rError = "none" /\ results = <<>>
    <3>1. /\ received' = received /\ results' = results
          /\ told' = (IF rDone THEN "done" ELSE told) /\ (waiting' <=> ~rDone)
      BY <1>7, <2>1, <2>4 DEF NextCall
    <3>2. ReaderTypes'
      BY <1>0, <2>1, <3>1 DEF ReaderTypes
    <3>3. InOrder' /\ OneAfterAnother'
      BY <1>0, <2>1, <3>1 DEF InOrder, OneAfterAnother, Given
    <3> QED BY <1>0, <2>1, <2>4, <3>1, <3>2, <3>3 DEF OneCallAtATime, EndedIsClosed, Given
  <2> QED BY <2>2, <2>3, <2>4
<1>8. ASSUME NEW r \in Relays, NEW n \in Ids, HandleEvent(r, n) PROVE Goal'
  <2>1. UNCHANGED <<parts, chunks, nextRef, totalSize, rDone, results, received>> /\ ~rDone /\ chunkCount' \in Nat
        /\ sub = "open" /\ rError = "none"
    BY <1>8, HandleEffect
  <2>2. CASE UNCHANGED readerVars
    BY <1>1, <2>1, <2>2
  <2>3. CASE /\ n \notin seen /\ seen' = seen \cup {n} /\ sub' = "closed" /\ buffer' = {} /\ ~waiting'
             /\ rError' \in {"relayed", "maxChunks"} /\ procs' = procs
             /\ told' = IF waiting THEN "error" ELSE told
    <3>1. ReaderTypes'
      BY <1>0, <2>1, <2>3 DEF ReaderTypes, Errors
    <3> QED BY <1>0, <2>1, <2>3, <3>1 DEF InOrder, OneCallAtATime, OneAfterAnother, EndedIsClosed, Given
  <2>4. CASE /\ n \notin seen /\ seen' = seen \cup {n} /\ UNCHANGED <<sub, rError, waiting, told>>
             /\ buffer' \subseteq buffer \cup {n}
             /\ \/ procs' = procs
                \/ procs = <<>> /\ procs' = <<nextRef + 1>> /\ nextRef + 1 \in seen' \ buffer'
    <3>1. InOrder' /\ OneCallAtATime' /\ EndedIsClosed'
      <4>1. Given' = Given /\ Len(procs') <= 1
        <5>1. Len(<<nextRef + 1>>) = 1
          OBVIOUS
        <5>2. Len(procs) <= 1
          BY <1>0 DEF OneCallAtATime
        <5>3. CASE procs' = procs
          BY <2>1, <5>2, <5>3 DEF Given
        <5>4. CASE procs' = <<nextRef + 1>>
          BY <2>1, <5>1, <5>4 DEF Given
        <5> QED BY <2>4, <5>3, <5>4
      <4>2. OneCallAtATime'
        BY <1>0, <2>1, <2>4, <4>1 DEF OneCallAtATime
      <4> QED BY <1>0, <2>1, <2>4, <4>1, <4>2 DEF InOrder, EndedIsClosed
    <3>2. nextRef + 1 \in seen' => nextRef + 1 \in Ids
      BY <1>0, <2>4 DEF ReaderTypes
    <3>3. \A i \in DOMAIN procs' : procs'[i] = nextRef + 1 /\ procs'[i] \in seen' \ buffer'
      BY <1>0, <2>4 DEF OneAfterAnother
    <3>4. OneAfterAnother'
      BY <1>0, <2>1, <2>4, <3>3 DEF OneAfterAnother, Given
    <3>5. procs' \in Seq(Ids)
      <4>1. procs \in Seq(Ids)
        BY <1>0 DEF ReaderTypes
      <4>2. nextRef + 1 \in Ids => <<nextRef + 1>> \in Seq(Ids)
        OBVIOUS
      <4> HIDE DEF Ids
      <4> QED BY <2>4, <3>2, <4>1, <4>2
    <3>6. ReaderTypes'
      BY <1>0, <2>1, <2>4, <3>5 DEF ReaderTypes
    <3> QED BY <3>1, <3>4, <3>6
  <2> QED BY <1>8, <2>2, <2>3, <2>4, HandleEffect
<1>9. ASSUME NEW i \in DOMAIN procs, ChunkProcessed(i) PROVE Goal'
  <2>1. /\ UNCHANGED <<parts, chunks, seen, chunkCount>> /\ totalSize' \in Nat /\ ~waiting'
        /\ buffer' \subseteq buffer
    BY <1>9, ProcessedEffect
  <2>2. nextRef + 1 \in Ids /\ nextRef \in Nat /\ Len(Given) = nextRef /\ ~rDone /\ nextRef + 1 \in seen \ buffer
    BY OnlyCall
  <2>3. CASE /\ UNCHANGED <<nextRef, rDone, results, received>>
             /\ procs' = <<>> /\ sub' = "closed" /\ rError' \in Errors \ {"none"}
             /\ told' = IF waiting THEN "error" ELSE told
    <3>1. ReaderTypes'
      BY <1>0, <2>1, <2>3 DEF ReaderTypes
    <3> QED BY <1>0, <2>1, <2>2, <2>3, <3>1 DEF InOrder, OneCallAtATime, OneAfterAnother, EndedIsClosed, Given
  <2>4. CASE /\ nextRef' = nextRef + 1 /\ rError' = rError /\ told' = told
             /\ \/ waiting /\ received' = Append(received, nextRef + 1) /\ results' = results
                \/ ~waiting /\ received' = received /\ results' = Append(results, nextRef + 1)
             /\ \/ /\ ~rDone' /\ sub' = sub
                   /\ \/ procs' = <<>>
                      \/ procs' = <<nextRef + 2>> /\ nextRef + 2 \in buffer \ buffer'
                \/ /\ rDone' /\ sub' = "closed" /\ procs' = <<>>
                   /\ chunks[nextRef + 1].status = "done"
    <3>1. waiting => results = <<>>
      BY <1>0 DEF OneCallAtATime
    <3>2. Given' = Append(Given, nextRef + 1)
      <4>1. nextRef + 1 \in Nat
        BY <2>2
      <4>2. \/ received' = Append(received, nextRef + 1) /\ results' = results /\ results = <<>>
            \/ received' = received /\ results' = Append(results, nextRef + 1)
        BY <2>4, <3>1
      <4> QED BY <1>0, <4>1, <4>2, GivenAppends
    <3>3. Given \in Seq(Nat) /\ DOMAIN Given = 1 .. Len(Given)
      BY <1>0, GivenForm
    <3>4. /\ Given' \in Seq(Nat) /\ Len(Given') = nextRef + 1 /\ Given' # <<>>
          /\ \A k \in 1 .. nextRef : Given'[k] = Given[k] /\ Given'[nextRef + 1] = nextRef + 1
      BY <2>2, <3>2, <3>3, AppendProperties
    <3>5. Given'[nextRef + 1] = nextRef + 1 /\ DOMAIN Given' = 1 .. nextRef + 1
      BY <2>2, <3>2, <3>3, <3>4, AppendProperties, LenProperties
    <3>6. InOrder'
      BY <1>0, <2>2, <3>3, <3>4, <3>5 DEF InOrder
    <3>7. procs' \in Seq(Ids) /\ received' \in Seq(Ids) /\ results' \in Seq(Ids)
      <4>1. nextRef + 1 \in Ids /\ (nextRef + 2 \in buffer => nextRef + 2 \in Ids)
            /\ received \in Seq(Ids) /\ results \in Seq(Ids)
        BY <1>0, <2>2 DEF ReaderTypes
      <4> HIDE DEF Ids
      <4>2. Append(received, nextRef + 1) \in Seq(Ids) /\ Append(results, nextRef + 1) \in Seq(Ids)
        BY <4>1, AppendProperties
      <4>3. <<>> \in Seq(Ids) /\ (nextRef + 2 \in Ids => <<nextRef + 2>> \in Seq(Ids))
        OBVIOUS
      <4>4. procs' \in Seq(Ids)
        BY <2>4, <4>1, <4>3
      <4> QED BY <2>4, <4>1, <4>2, <4>4
    <3>8. ReaderTypes'
      <4>1. nextRef' \in 0 .. Len(chunks)
        BY <1>0, <2>2, <2>4
      <4> QED BY <1>0, <2>1, <2>4, <3>7, <4>1 DEF ReaderTypes
    <3>9. OneAfterAnother'
      <4>1. buffer' \subseteq seen' /\ Len(Given') = nextRef'
        BY <1>0, <2>1, <2>4, <3>4 DEF OneAfterAnother
      <4>2. \A k \in DOMAIN procs' : procs'[k] = nextRef' + 1 /\ procs'[k] \in seen' \ buffer'
        BY <1>0, <2>1, <2>2, <2>4 DEF OneAfterAnother
      <4> QED BY <4>1, <4>2 DEF OneAfterAnother
    <3>10. OneCallAtATime'
      <4>1. Len(procs') <= 1
        <5>1. Len(<<nextRef + 2>>) = 1 /\ Len(<<>>) = 0
          OBVIOUS
        <5>2. procs' = <<>> \/ procs' = <<nextRef + 2>>
          BY <2>4
        <5> QED BY <5>1, <5>2
      <4> QED BY <2>1, <4>1 DEF OneCallAtATime
    <3>11. EndedIsClosed'
      BY <1>0, <2>1, <2>2, <2>4, <3>4 DEF EndedIsClosed
    <3> QED BY <3>6, <3>8, <3>9, <3>10, <3>11
  <2> QED BY <1>9, <2>3, <2>4, ProcessedEffect
<1>10. CASE UNCHANGED streamVars
  BY <1>1, <1>10 DEF streamVars
<1> QED BY <1>3, <1>4, <1>5, <1>6, <1>7, <1>8, <1>9, <1>10 DEF ReaderNext

\* The chunks that are added change nothing for the reader.
LEMMA ReaderKeeps ==
    ASSUME StreamInv, Grown, UNCHANGED readerVars
    PROVE  ReaderTypes' /\ InOrder' /\ OneCallAtATime' /\ OneAfterAnother' /\ EndedIsClosed'
<1>1. UNCHANGED <<sub, seen, buffer, nextRef, procs, chunkCount, totalSize, rDone, rError,
                  results, waiting, received, told>> /\ Ids \subseteq Ids'
  BY DEF Grown
<1>2. procs' \in Seq(Ids') /\ received' \in Seq(Ids') /\ results' \in Seq(Ids')
  <2>1. procs \in Seq(Ids) /\ received \in Seq(Ids) /\ results \in Seq(Ids)
    BY DEF StreamInv, TypeOK, ReaderTypes
  <2> HIDE DEF Ids
  <2> QED BY <1>1, <2>1, SeqMonotonic
<1>3. nextRef \in 0 .. Len(chunks) /\ nextRef' \in 0 .. Len(chunks')
  BY <1>1 DEF StreamInv, TypeOK, ReaderTypes, Grown
<1>4. ReaderTypes'
  <2>1. sub' \in {"no", "open", "closed"} /\ seen' \subseteq Ids' /\ buffer' \subseteq Ids'
        /\ chunkCount' \in Nat /\ totalSize' \in Nat /\ rError' \in Errors
        /\ told' \in {"no", "done", "error", "left"}
    BY <1>1 DEF StreamInv, TypeOK, ReaderTypes
  <2> QED BY <1>2, <1>3, <2>1 DEF ReaderTypes
<1>5. Given' = Given /\ InOrder' /\ OneCallAtATime' /\ OneAfterAnother'
  BY <1>1 DEF StreamInv, Given, InOrder, OneCallAtATime, OneAfterAnother
<1>6. rDone => Len(Given) \in Ids
  <2> SUFFICES ASSUME rDone PROVE Len(Given) \in Ids
    OBVIOUS
  <2>1. /\ received \in Seq(Ids) /\ results \in Seq(Ids) /\ received \in Seq(Nat) /\ results \in Seq(Nat)
    BY ReaderNumbers DEF StreamInv, TypeOK, ReaderTypes
  <2>2. Given \in Seq(Ids) /\ Len(Given) \in 1 .. Len(Given) /\ DOMAIN Given = 1 .. Len(Given)
    <3> HIDE DEF Ids
    <3>1. Given \in Seq(Ids) /\ Len(Given) \in Nat
      BY <2>1, ConcatProperties, LenProperties DEF Given
    <3>2. Len(Given) # 0
      BY <2>1, GivenForm DEF StreamInv, EndedIsClosed
    <3> QED BY <3>1, <3>2, LenProperties
  <2>3. Given[Len(Given)] = Len(Given) /\ Given[Len(Given)] \in Ids
    <3> HIDE DEF Ids
    <3> QED BY <2>2, ElementOfSeq DEF StreamInv, InOrder
  <2> QED BY <2>3
<1>7. EndedIsClosed'
  BY <1>1, <1>5, <1>6 DEF StreamInv, EndedIsClosed, Grown
<1> QED BY <1>4, <1>5, <1>7

\* Flags are flags.
LEMMA FlagsStep ==
    ASSUME Flags, [StreamNext]_streamVars
    PROVE  Flags'
<1> USE DEF Flags
<1>1. CASE UNCHANGED streamVars
  BY <1>1, Zenon DEF streamVars
<1>2. ASSUME NEW flush \in BOOLEAN, Write(flush) PROVE Flags'
  BY <1>2, Zenon DEF Write
<1>3. CASE WriteDone
  BY <1>3, Zenon DEF WriteDone
<1>4. ASSUME NEW n \in Ids, PublishSettles(n) PROVE Flags'
  BY <1>4, Zenon DEF PublishSettles
<1>5. ASSUME NEW n \in Ids, NEW flush \in BOOLEAN, PublishFails(n, flush) PROVE Flags'
  BY <1>5, Zenon DEF PublishFails
<1>6. ASSUME NEW r \in Relays, NEW n \in Ids, LoseChunk(r, n) PROVE Flags'
  BY <1>6, Zenon DEF LoseChunk
<1>7. ASSUME NEW r \in Relays, NEW n \in Ids, HandleEvent(r, n) PROVE Flags'
  BY <1>7, Zenon DEF HandleEvent, SetError
<1>8. ASSUME NEW i \in DOMAIN procs, ChunkProcessed(i) PROVE Flags'
  <2>1. waiting' \in {FALSE, waiting}
    BY <1>8 DEF ChunkProcessed, SetError
  <2>2. rDone' \in {rDone, rDone \/ chunks[procs[i]].status = "done"}
    BY <1>8 DEF ChunkProcessed
  <2>3. UNCHANGED <<gzip, wDone, wError>>
    BY <1>8 DEF ChunkProcessed
  <2> QED BY <2>1, <2>2, <2>3, Zenon
<1>9. ASSUME NEW i \in DOMAIN procs, ChunkRejected(i) PROVE Flags'
  BY <1>9, Zenon DEF ChunkRejected
<1>10. CASE TtlExpires
  BY <1>10, Zenon DEF TtlExpires, SetError
<1>11. CASE Leave
  BY <1>11, Zenon DEF Leave
<1>12. CASE Start
  BY <1>12, Zenon DEF Start
<1>13. CASE NextCall
  BY <1>13, Zenon DEF NextCall
<1> QED BY <1>1, <1>2, <1>3, <1>4, <1>5, <1>6, <1>7, <1>8, <1>9, <1>10, <1>11, <1>12, <1>13
        DEF StreamNext, WriterNext, RelayNext, ReaderNext

\* Readers leave the writer's side as it is.
LEMMA WriterKeeps ==
    ASSUME StreamInv, ReaderNext \/ Start \/ NextCall \/ UNCHANGED streamVars
    PROVE  WriterTypes' /\ ChunksFollow'
<1>1. UNCHANGED <<file, writerVars>> /\ wire' \subseteq wire
  BY DEF ReaderNext, Start, NextCall, streamVars, HandleEvent, ChunkProcessed, ChunkRejected, TtlExpires, Leave
<1>2. ChunkType' = ChunkType /\ Ids' = Ids
  BY <1>1 DEF ChunkType
<1>3. WriterTypes'
  BY <1>1, <1>2 DEF WriterTypes, StreamInv, TypeOK
<1>4. ChunksFollow'
  BY <1>1 DEF ChunksFollow, StreamInv, Flushed
<1> QED BY <1>3, <1>4

\* The invariant of the stream holds at first.
LEMMA StreamInitHolds == StreamInit => StreamInv
<1> SUFFICES ASSUME StreamInit PROVE StreamInv
  OBVIOUS
<1> USE DEF StreamInit, WriterInit, ReaderInit
<1>1. Flags
  BY Zenon DEF Flags
<1>2. Len(chunks) = 0 /\ chunks \in Seq(ChunkType) /\ procs \in Seq(Ids) /\ results \in Seq(Ids) /\ received \in Seq(Ids)
  BY EmptySeq
<1>3. WriterTypes /\ ReaderTypes
  BY <1>2, StreamAssumption DEF WriterTypes, ReaderTypes, Errors
<1>4. Given = <<>>
  BY ConcatEmptySeq, EmptySeq DEF Given
<1>5. InOrder /\ OneCallAtATime /\ OneAfterAnother /\ EndedIsClosed
  BY <1>4, EmptySeq DEF InOrder, OneCallAtATime, OneAfterAnother, EndedIsClosed
<1>6. ChunksFollow
  BY <1>2 DEF ChunksFollow, Flushed
<1> QED BY <1>1, <1>3, <1>5, <1>6 DEF StreamInv, TypeOK

\* ... and whatever the stream does.
LEMMA StreamStep ==
    ASSUME StreamInv, [StreamNext]_streamVars
    PROVE  StreamInv'
<1>1. Flags'
  BY FlagsStep DEF StreamInv, TypeOK
<1>2. CASE WriterNext \/ RelayNext
  <2>1. Grown /\ UNCHANGED readerVars
    BY <1>2, WriterStep DEF StreamInv, TypeOK
  <2>2. ReaderTypes' /\ InOrder' /\ OneCallAtATime' /\ OneAfterAnother' /\ EndedIsClosed'
    BY <2>1, ReaderKeeps
  <2> QED BY <1>1, <2>1, <2>2 DEF StreamInv, TypeOK, Grown
<1>3. CASE ReaderNext \/ Start \/ NextCall \/ UNCHANGED streamVars
  BY <1>1, <1>3, ReaderStep, WriterKeeps DEF StreamInv, TypeOK
<1> QED BY <1>2, <1>3 DEF StreamNext

\* The stream hands out its chunks in order, each once, one call at a time, and
\* what ends it closes it.
THEOREM StreamIsOrdered == StreamSpec => []StreamInv
BY StreamInitHolds, StreamStep, PTL DEF StreamSpec

---------------------------------------------------------------------------
(* The stream as its consumer sees it.                                     *)

\* The parts the consumer was given.
GivenParts == IF received = <<>> THEN 0 ELSE chunks[received[Len(received)]].to

\* The consumer has the first chunks, and the next result is the chunk after them.
LEMMA ConsumerHasPrefix ==
    ASSUME StreamInv
    PROVE  /\ received \in Seq(Nat) /\ results \in Seq(Nat) /\ Len(received) \in Nat
           /\ (received = <<>> <=> Len(received) = 0)
           /\ (Len(received) # 0 => received[Len(received)] = Len(received) /\ Len(received) \in Ids)
           /\ (results # <<>> => results[1] = Len(received) + 1 /\ Len(received) + 1 \in Ids)
           /\ GivenParts = IF Len(received) = 0 THEN 0 ELSE chunks[Len(received)].to
<1>1. received \in Seq(Nat) /\ results \in Seq(Nat)
  BY ReaderNumbers DEF StreamInv, TypeOK
<1>2. /\ Len(received) \in Nat /\ Len(results) \in Nat /\ Len(Given) = Len(received) + Len(results)
      /\ (results = <<>> <=> Len(results) = 0) /\ (received = <<>> <=> Len(received) = 0)
      /\ \A k \in 1 .. Len(received) : Given[k] = received[k]
      /\ \A k \in 1 .. Len(results) : Given[Len(received) + k] = results[k]
      /\ DOMAIN Given = 1 .. Len(Given)
  BY <1>1, GivenForm
<1>3. \A k \in 1 .. Len(Given) : Given[k] = k
  BY <1>2 DEF StreamInv, InOrder
<1>4. received \in Seq(Ids) /\ results \in Seq(Ids)
  BY DEF StreamInv, TypeOK, ReaderTypes
<1>5. (\A k \in 1 .. Len(received) : received[k] \in Ids) /\ (\A k \in 1 .. Len(results) : results[k] \in Ids)
  <2> HIDE DEF Ids
  <2> QED BY <1>4, ElementOfSeq
<1>6. Len(received) # 0 => received[Len(received)] = Len(received) /\ Len(received) \in Ids
  <2> SUFFICES ASSUME Len(received) # 0 PROVE received[Len(received)] = Len(received) /\ received[Len(received)] \in Ids
    OBVIOUS
  <2>1. Len(received) \in 1 .. Len(received) /\ Len(received) \in 1 .. Len(Given)
    BY <1>2
  <2> QED BY <1>2, <1>3, <1>5, <2>1
<1>7. results # <<>> => results[1] = Len(received) + 1 /\ Len(received) + 1 \in Ids
  <2> SUFFICES ASSUME results # <<>> PROVE results[1] = Len(received) + 1 /\ results[1] \in Ids
    OBVIOUS
  <2>1. 1 \in 1 .. Len(results) /\ Len(received) + 1 \in 1 .. Len(Given)
    BY <1>2
  <2>2. results[1] \in Ids
    BY <1>5, <2>1
  <2>3. Given[Len(received) + 1] = results[1] /\ Given[Len(received) + 1] = Len(received) + 1
    BY <1>2, <1>3, <2>1
  <2> QED BY <2>2, <2>3
<1>8. GivenParts = IF Len(received) = 0 THEN 0 ELSE chunks[Len(received)].to
  BY <1>2, <1>6 DEF GivenParts
<1> QED BY <1>1, <1>2, <1>6, <1>7, <1>8

\* Done is the end of the file.
LEMMA DoneIsWhole ==
    ASSUME StreamInv
    PROVE  /\ DoneMeansWhole
           /\ told = "done" => rDone /\ received # <<>> /\ GivenParts = parts /\ chunks[Len(received)].to = parts
<1> SUFFICES ASSUME told = "done"
             PROVE  /\ rDone /\ received # <<>> /\ chunks[Len(received)].status = "done"
                    /\ chunks[Len(received)].to = parts /\ GivenParts = parts
  BY DEF DoneMeansWhole
<1>1. rDone /\ results = <<>> /\ Given # <<>> /\ chunks[Len(Given)].status = "done"
  BY DEF StreamInv, EndedIsClosed
<1>2. Len(received) \in Nat /\ Len(Given) = Len(received) /\ Len(received) # 0 /\ received # <<>>
  <2>1. received \in Seq(Nat) /\ results \in Seq(Nat)
    BY ConsumerHasPrefix
  <2> QED BY <1>1, <2>1, GivenForm
<1>3. Len(received) \in Ids /\ GivenParts = chunks[Len(received)].to
  BY <1>2, ConsumerHasPrefix
<1>4. chunks[Len(received)].to = parts
  BY <1>1, <1>2, <1>3 DEF StreamInv, ChunksFollow
<1> QED BY <1>1, <1>2, <1>3, <1>4

\* What a consistent stream says of the consumer, before a step and after it.
ConsumerInv ==
    /\ Len(received) # 0 => Len(received) \in Ids
    /\ GivenParts = IF Len(received) = 0 THEN 0 ELSE chunks[Len(received)].to
    /\ told = "done" => rDone /\ received # <<>> /\ GivenParts = parts /\ chunks[Len(received)].to = parts

\* ... holds.
LEMMA ConsumerHolds == StreamInv => ConsumerInv
BY ConsumerHasPrefix, DoneIsWhole DEF ConsumerInv

\* A chunk that is added for the consumer ends where the file has grown to.
LEMMA PartsGrow ==
    ASSUME StreamInv, StreamInv', received' = Append(received, Len(received) + 1), chunks' = chunks
    PROVE  GivenParts \in Nat /\ GivenParts' \in Nat /\ GivenParts <= GivenParts' /\ GivenParts' <= parts
<1> DEFINE n == Len(received) + 1
<1>1. /\ received \in Seq(Nat) /\ Len(received) \in Nat
      /\ GivenParts = IF Len(received) = 0 THEN 0 ELSE chunks[Len(received)].to
  BY ConsumerHasPrefix
<1>2. Len(received') = n /\ n # 0 /\ n \in Nat
  BY <1>1
<1>3. ConsumerInv'
  BY ConsumerHolds, PTL
<1>4. n \in Ids /\ GivenParts' = chunks[n].to
  BY <1>2, <1>3 DEF ConsumerInv
<1>5. chunks[n] \in ChunkType /\ parts \in Nat
  BY <1>4, FlushedIsNumber DEF StreamInv, TypeOK
<1>6. chunks[n].to \in 0 .. parts /\ chunks[n].from \in 0 .. parts
  BY <1>5 DEF ChunkType
<1>7. chunks[n].from = (IF n = 1 THEN 0 ELSE chunks[n - 1].to) /\ chunks[n].from <= chunks[n].to
  BY <1>4 DEF StreamInv, ChunksFollow
<1>8. GivenParts = chunks[n].from
  BY <1>1, <1>7
<1> QED BY <1>4, <1>5, <1>6, <1>7, <1>8

\* A step gives the consumer the next chunk, or ends its loop, or neither.
LEMMA ConsumerEffect ==
    ASSUME StreamInv, [StreamNext]_streamVars
    PROVE  /\ parts' = parts /\ Len(chunks) <= Len(chunks')
           /\ \A n \in Ids : chunks'[n] = chunks[n]
           /\ \/ received' = received /\ (told' = told \/ told = "no")
              \/ /\ received' = Append(received, Len(received) + 1)
                 /\ chunks' = chunks /\ told' = told /\ told = "no"
<1>0. waiting => told = "no"
  BY DEF StreamInv, EndedIsClosed
<1>1. CASE WriterNext \/ RelayNext
  BY <1>1, WriterStep DEF StreamInv, TypeOK, Grown
<1>2. CASE UNCHANGED streamVars
  BY <1>2 DEF streamVars
<1>3. CASE Start
  BY <1>3 DEF Start
<1>4. ASSUME NEW r \in Relays, NEW n \in Ids, HandleEvent(r, n)
      PROVE  UNCHANGED <<parts, chunks, received>> /\ (told' = told \/ told = "no")
  BY <1>0, <1>4, HandleEffect
<1>5. ASSUME NEW i \in DOMAIN procs, ChunkProcessed(i)
      PROVE  /\ UNCHANGED <<parts, chunks>>
             /\ \/ received' = received /\ (told' = told \/ told = "no")
                \/ received' = Append(received, Len(received) + 1) /\ told' = told /\ told = "no"
  <2>1. waiting => results = <<>>
    BY DEF StreamInv, OneCallAtATime
  <2>2. waiting => Len(received) = nextRef
    <3> SUFFICES ASSUME waiting PROVE Len(received) = nextRef
      OBVIOUS
    <3>1. received \in Seq(Nat) /\ results \in Seq(Nat) /\ Len(Given) = nextRef
      BY OnlyCall, ConsumerHasPrefix
    <3> QED BY <2>1, <3>1, GivenForm
  <2> QED BY <1>0, <1>5, <2>1, <2>2, ProcessedEffect
<1>6. ASSUME NEW i \in DOMAIN procs, ChunkRejected(i)
      PROVE  UNCHANGED <<parts, chunks, received>> /\ (told' = told \/ told = "no")
  BY <1>0, <1>6 DEF ChunkRejected
<1>7. CASE TtlExpires \/ Leave
  BY <1>0, <1>7 DEF TtlExpires, SetError, Leave
<1>8. CASE NextCall
  <2>1. UNCHANGED <<parts, chunks>> /\ told = "no"
    BY <1>8 DEF NextCall
  <2>2. CASE rError = "none" /\ results # <<>>
    <3>1. received' = Append(received, Head(results)) /\ told' = told
      BY <1>8, <2>2 DEF NextCall
    <3>2. Head(results) = Len(received) + 1
      BY <2>2, ConsumerHasPrefix
    <3> QED BY <2>1, <3>1, <3>2
  <2>3. CASE ~(rError = "none" /\ results # <<>>)
    BY <1>8, <2>1, <2>3 DEF NextCall
  <2> QED BY <2>2, <2>3
<1>9. Len(chunks) \in Nat
  BY FlushedIsNumber DEF StreamInv, TypeOK
<1> QED BY <1>1, <1>2, <1>3, <1>4, <1>5, <1>6, <1>7, <1>8, <1>9 DEF StreamNext, ReaderNext

\* Iteration ends with done only for a consumer that was given the whole file.
THEOREM StreamIsWhole == StreamSpec => []DoneMeansWhole
<1>1. StreamInv => DoneMeansWhole
  BY DoneIsWhole
<1> QED BY <1>1, StreamIsOrdered, PTL

\* The stream implements the channel of StreamDelivery: what the consumer has
\* of the file grows from its first part on, until one end that never changes.
THEOREM StreamDelivers == StreamSpec => DeliverySpec
<1>1. StreamInit => Delivery!Init
  BY StreamAssumption DEF StreamInit, WriterInit, ReaderInit, Delivery!Init
<1>2. ASSUME StreamInv, [StreamNext]_streamVars
      PROVE  [Delivery!Give \/ Delivery!End]_<<parts, GivenParts, told>>
  <2>1. StreamInv'
    BY <1>2, StreamStep
  <2>2. parts' = parts /\ \A n \in Ids : chunks'[n] = chunks[n]
    BY <1>2, ConsumerEffect
  <2>0. ConsumerInv'
    BY <2>1, ConsumerHolds, PTL
  <2>3. CASE received' = received /\ (told' = told \/ told = "no")
    <3>1. GivenParts' = GivenParts
      <4>1. GivenParts = IF Len(received) = 0 THEN 0 ELSE chunks[Len(received)].to
        BY <1>2, ConsumerHasPrefix
      <4>2. GivenParts' = IF Len(received') = 0 THEN 0 ELSE chunks'[Len(received')].to
        BY <2>0 DEF ConsumerInv
      <4>3. Len(received) # 0 => Len(received) \in Ids
        BY <1>2, ConsumerHasPrefix
      <4> QED BY <2>2, <2>3, <4>1, <4>2, <4>3
    <3>2. told' \in {"no", "done", "error", "left"}
      BY <2>1 DEF StreamInv, TypeOK, ReaderTypes
    <3>3. told' = "done" => GivenParts' = parts'
      BY <2>0 DEF ConsumerInv
    <3> QED BY <2>2, <2>3, <3>1, <3>2, <3>3 DEF Delivery!End, GivenParts
  <2>4. CASE /\ received' = Append(received, Len(received) + 1)
             /\ chunks' = chunks /\ told' = told /\ told = "no"
    <3>1. GivenParts \in Nat /\ GivenParts' \in Nat /\ GivenParts <= GivenParts' /\ GivenParts' <= parts
      BY <1>2, <2>1, <2>4, PartsGrow
    <3>2. parts \in Nat
      BY <1>2, FlushedIsNumber DEF StreamInv, TypeOK
    <3>3. GivenParts' \in GivenParts .. parts
      BY <3>1, <3>2
    <3> QED BY <2>2, <2>4, <3>3 DEF Delivery!Give, GivenParts
  <2> QED BY <1>2, <2>3, <2>4, ConsumerEffect
<1> QED BY <1>1, <1>2, StreamInitHolds, StreamStep, PTL
        DEF StreamSpec, DeliverySpec, Delivery!Spec, GivenParts

---------------------------------------------------------------------------
(* The transfer of a file.                                                 *)

\* The steps of the handshake leave the stream alone.
Handshaking ==
    \/ Download \/ DownloadFails \/ OnUpload \/ SendReady \/ CreateReader \/ ReadyFails
    \/ LoopEnds \/ SendDone \/ Upload \/ UploadPending \/ UploadNotPublished \/ OnReady
    \/ UploadTimesOut \/ StreamFails \/ StreamEnds \/ OnDone \/ StopSender
    \/ \E m \in msgs : LoseMsg(m)

\* ... and the others are steps of the stream, which a sender writes to while it streams.
LEMMA FileMoves ==
    ASSUME [Next]_vars
    PROVE  \/ Handshaking /\ UNCHANGED streamVars
           \/ /\ UNCHANGED handshake /\ [StreamNext]_streamVars
              /\ UNCHANGED taken \/ (up = "streaming" /\ taken < parts)
<1>1. CASE Handshaking
  BY <1>1 DEF Handshaking, Download, DownloadFails, OnUpload, SendReady, CreateReader, ReadyFails,
              LoopEnds, SendDone, Upload, UploadPending, UploadNotPublished, OnReady,
              UploadTimesOut, StreamFails, StreamEnds, OnDone, StopSender, LoseMsg
<1>2. CASE UNCHANGED vars
  BY <1>2 DEF vars, streamVars
<1>3. CASE SendPart
  <2>1. UNCHANGED handshake /\ up = "streaming" /\ (WriteDone \/ \E flush \in BOOLEAN : Write(flush))
    BY <1>3 DEF SendPart
  <2>2. WriterNext
    BY <2>1 DEF WriterNext
  <2>3. UNCHANGED taken \/ taken < parts
    BY <2>1 DEF WriteDone, Write
  <2> QED BY <2>1, <2>2, <2>3 DEF StreamNext
<1>4. CASE Publishing
  <2>1. UNCHANGED handshake /\ WriterNext
    BY <1>4 DEF Publishing, WriterNext
  <2>2. UNCHANGED taken
    BY <1>4 DEF Publishing, PublishSettles, PublishFails
  <2> QED BY <2>1, <2>2 DEF StreamNext
<1>5. CASE Iterate \/ AskNext \/ LeaveLoop
  <2>1. UNCHANGED handshake /\ (Start \/ NextCall \/ Leave)
    BY <1>5 DEF Iterate, AskNext, LeaveLoop
  <2>2. UNCHANGED taken
    BY <2>1 DEF Start, NextCall, Leave
  <2> QED BY <2>1, <2>2 DEF StreamNext, ReaderNext
<1>6. CASE Forwarding \/ Processing \/ Expiring
  <2>1. UNCHANGED handshake /\ (ReaderNext \/ RelayNext)
    BY <1>6 DEF Forwarding, Processing, Expiring, ReaderNext, RelayNext
  <2>2. UNCHANGED taken
    BY <1>6 DEF Forwarding, Processing, Expiring, HandleEvent, LoseChunk, ChunkProcessed, ChunkRejected, TtlExpires
  <2> QED BY <2>1, <2>2 DEF StreamNext
<1> QED BY <1>1, <1>2, <1>3, <1>4, <1>5, <1>6 DEF Next, ReceiverNext, SenderNext, Handshaking

\* A transfer keeps its stream consistent.
LEMMA FileKeepsStream ==
    ASSUME StreamInv, [Next]_vars
    PROVE  StreamInv' /\ [StreamNext]_streamVars
<1>1. [StreamNext]_streamVars
  BY FileMoves
<1> QED BY <1>1, StreamStep

\* The states of the handshake.
HandshakeTypes ==
    /\ mode \in {"download", "upload"}
    /\ down \in {"none", "pending", "taken", "resolved", "rejected"}
    /\ up \in {"idle", "publishing", "pending", "streaming", "waiting", "resolved", "rejected"}
    /\ rx \in {"idle", "accepted", "answering", "reading", "saved", "end", "failed"}
    /\ msgs \subseteq {"download", "upload", "ready", "done"}
    /\ cache \in {"none", "whole", "failure"}

\* What is shown of a transfer, together.
TransferInv ==
    /\ StreamInv /\ HandshakeTypes /\ stopped \in BOOLEAN
    /\ OneWay /\ UploadResultMeansSaved /\ CachedFilesAreWhole

\* An end that was told and a file that was written stay so.
LEMMA EndsStay ==
    ASSUME TransferInv, [Next]_vars
    PROVE  /\ told = "done" => told' = "done" /\ received' = received /\ chunks'[Len(received)] = chunks[Len(received)]
           /\ taken = parts => taken' = taken
           /\ parts' = parts
<1>1. /\ StreamInv /\ [StreamNext]_streamVars
  BY FileKeepsStream DEF TransferInv
<1>2. parts' = parts /\ \A n \in Ids : chunks'[n] = chunks[n]
  BY <1>1, ConsumerEffect
<1>3. told = "done" => told' = "done" /\ received' = received
  BY <1>1, ConsumerEffect
<1>4. told = "done" => Len(received) \in Ids
  BY <1>1, ConsumerHasPrefix, DoneIsWhole
<1>5. taken = parts => taken' = taken
  <2>1. parts \in Nat
    BY <1>1, FlushedIsNumber DEF StreamInv, TypeOK
  <2>2. UNCHANGED taken \/ taken < parts
    BY FileMoves DEF streamVars
  <2> QED BY <2>1, <2>2
<1> QED BY <1>2, <1>3, <1>4, <1>5

\* The handshake's steps.
LEMMA HandshakeStep ==
    ASSUME TransferInv, Handshaking, UNCHANGED streamVars
    PROVE  HandshakeTypes' /\ OneWay' /\ UploadResultMeansSaved'
<1>0. UNCHANGED <<taken, parts, told>>
  BY DEF streamVars
<1> USE <1>0 DEF TransferInv, HandshakeTypes, OneWay, UploadResultMeansSaved
<1>1. CASE Download
  BY <1>1 DEF Download
<1>2. CASE DownloadFails
  BY <1>2 DEF DownloadFails
<1>3. CASE OnUpload
  BY <1>3 DEF OnUpload
<1>4. CASE SendReady
  BY <1>4 DEF SendReady
<1>5. CASE CreateReader
  BY <1>5 DEF CreateReader
<1>6. CASE ReadyFails
  BY <1>6 DEF ReadyFails
<1>7. CASE LoopEnds
  BY <1>7 DEF LoopEnds
<1>8. CASE SendDone
  BY <1>8 DEF SendDone
<1>9. CASE Upload
  BY <1>9 DEF Upload
<1>10. CASE UploadPending
  BY <1>10 DEF UploadPending
<1>11. CASE UploadNotPublished
  BY <1>11 DEF UploadNotPublished
<1>12. CASE OnReady
  BY <1>12 DEF OnReady
<1>13. CASE UploadTimesOut
  BY <1>13 DEF UploadTimesOut
<1>14. CASE StreamFails
  BY <1>14 DEF StreamFails
<1>15. CASE StreamEnds
  BY <1>15 DEF StreamEnds, WriterReturned, StreamInv, ChunksFollow
<1>16. CASE OnDone
  BY <1>16 DEF OnDone
<1>17. CASE StopSender
  BY <1>17 DEF StopSender
<1>18. ASSUME NEW m \in msgs, LoseMsg(m) PROVE HandshakeTypes' /\ OneWay' /\ UploadResultMeansSaved'
  BY <1>18 DEF LoseMsg
<1> QED BY <1>1, <1>2, <1>3, <1>4, <1>5, <1>6, <1>7, <1>8, <1>9, <1>10, <1>11, <1>12, <1>13, <1>14, <1>15, <1>16, <1>17, <1>18 DEF Handshaking

\* Whether a sender was stopped is a flag.
LEMMA StoppedIsFlag ==
    ASSUME stopped \in BOOLEAN, [Next]_vars
    PROVE  stopped' \in BOOLEAN
<1>1. CASE StopSender
  BY <1>1, Zenon DEF StopSender
<1>2. CASE ~StopSender
  <2>1. UNCHANGED stopped
    BY <1>2, FileMoves DEF handshake, Handshaking, Download, DownloadFails, OnUpload, SendReady,
              CreateReader, ReadyFails, LoopEnds, SendDone, Upload, UploadPending, UploadNotPublished,
              OnReady, UploadTimesOut, StreamFails, StreamEnds, OnDone, LoseMsg
  <2> QED BY <2>1, Zenon
<1> QED BY <1>1, <1>2

\* Only a response that ended with done enters the cache as a file.
LEMMA CacheStep ==
    ASSUME TransferInv, [Next]_vars
    PROVE  CachedFilesAreWhole'
<1>1. cache' = cache \/ (cache' = "whole" => told = "done")
  BY FileMoves DEF handshake, Handshaking, Download, DownloadFails, OnUpload, SendReady, CreateReader,
     ReadyFails, LoopEnds, SendDone, Upload, UploadPending, UploadNotPublished, OnReady,
     UploadTimesOut, StreamFails, StreamEnds, OnDone, StopSender, LoseMsg
<1>2. told = "done" => received # <<>> /\ chunks[Len(received)].to = parts
  BY DoneIsWhole DEF TransferInv
<1> QED BY <1>1, <1>2, EndsStay DEF TransferInv, CachedFilesAreWhole

\* Every transfer begins so.
LEMMA TransferInitHolds == Init => TransferInv
<1> SUFFICES ASSUME Init PROVE TransferInv
  OBVIOUS
<1>1. StreamInv
  BY StreamInitHolds DEF Init
<1>2. stopped \in BOOLEAN
  BY Zenon DEF Init
<1> QED BY <1>1, <1>2 DEF Init, TransferInv, HandshakeTypes, OneWay, UploadResultMeansSaved, CachedFilesAreWhole

\* ... and every step keeps it so.
LEMMA TransferStep ==
    ASSUME TransferInv, [Next]_vars
    PROVE  TransferInv'
<1>1. StreamInv' /\ stopped' \in BOOLEAN /\ CachedFilesAreWhole'
  BY FileKeepsStream, StoppedIsFlag, CacheStep DEF TransferInv
<1>2. CASE Handshaking /\ UNCHANGED streamVars
  BY <1>1, <1>2, HandshakeStep DEF TransferInv
<1>3. CASE UNCHANGED handshake
  <2>1. UNCHANGED <<mode, down, up, stopped, rx, msgs, cache>>
    BY <1>3 DEF handshake
  <2>2. HandshakeTypes'
    BY <2>1 DEF TransferInv, HandshakeTypes
  <2>3. OneWay' /\ UploadResultMeansSaved'
    BY <2>1, EndsStay DEF TransferInv, OneWay, UploadResultMeansSaved
  <2> QED BY <1>1, <2>2, <2>3 DEF TransferInv
<1> QED BY <1>2, <1>3, FileMoves

\* The handshake goes one way: an upload that succeeds was read to its end and
\* saved, whatever is lost, late or given up.
THEOREM TransfersAreSafe == Spec => []FileInv
<1>1. TransferInv => FileInv
  BY DEF TransferInv, FileInv, FileTypeOK, HandshakeTypes, StreamInv
<1> QED BY <1>1, TransferInitHolds, TransferStep, PTL DEF Spec

\* A file in the cache is whole.
THEOREM CacheIsWhole == Spec => []CachedFilesAreWhole
<1>1. TransferInv => CachedFilesAreWhole
  BY DEF TransferInv
<1> QED BY <1>1, TransferInitHolds, TransferStep, PTL DEF Spec

\* A promise that is settled stays as it was settled, and no part is sent for it.
THEOREM SettledForGood == Spec => SettledStaysSettled
<1>1. ASSUME TransferInv, [Next]_vars
      PROVE  [/\ up \in {"resolved", "rejected"} => up' = up /\ taken' = taken
              /\ down \in {"resolved", "rejected"} => down' = down]_vars
  <2>1. up \in {"resolved", "rejected"} => taken' = taken
    BY <1>1, FileMoves DEF streamVars
  <2>2. up \in {"resolved", "rejected"} => up' = up
    BY <1>1, FileMoves DEF handshake, Handshaking, Download, DownloadFails, OnUpload, SendReady,
       CreateReader, ReadyFails, LoopEnds, SendDone, Upload, UploadPending, UploadNotPublished,
       OnReady, UploadTimesOut, StreamFails, StreamEnds, OnDone, StopSender, LoseMsg
  <2>3. down \in {"resolved", "rejected"} => down' = down
    BY <1>1, FileMoves DEF handshake, Handshaking, Download, DownloadFails, OnUpload, SendReady,
       CreateReader, ReadyFails, LoopEnds, SendDone, Upload, UploadPending, UploadNotPublished,
       OnReady, UploadTimesOut, StreamFails, StreamEnds, OnDone, StopSender, LoseMsg, TransferInv, OneWay
  <2> QED BY <2>1, <2>2, <2>3
<1> QED BY <1>1, TransferInitHolds, TransferStep, PTL DEF Spec, SettledStaysSettled

==============================================================================
