--------------------------- MODULE OutboundProofs ---------------------------
(***************************************************************************)
(* The two components that send: Chunks, which cuts messages to clients,   *)
(* and WebPolling, which asks the web site.  They share nothing.           *)
(*                                                                         *)
(* Of Chunks the arithmetic of the division comes first: a payload of n    *)
(* bytes in c chunks of ChunkSize(n, c) is covered, and no chunk begins    *)
(* after its end as long as c - 1 squared is not more than n.  The polls   *)
(* are right for any intervals and timeout, and any number of requests     *)
(* under way.                                                              *)
(***************************************************************************)
EXTENDS Chunks, WebPolling, TLAPS

USE ChunksAssumption

\* Rounding up: b times the quotient is at least a, by less than b.
LEMMA CeilingBounds ==
    ASSUME NEW a \in Nat, NEW b \in Nat \ {0}
    PROVE  /\ Ceiling(a, b) \in Nat
           /\ b * Ceiling(a, b) >= a
           /\ b * Ceiling(a, b) <= a + b - 1
  BY SMT DEF Ceiling

\* No multiple of the chunk size before the last chunk is past the end.
LEMMA StartWithin ==
    ASSUME NEW n \in Nat, NEW c \in Nat \ {0}, NEW i \in 0..(c - 1),
           NEW k \in Nat, c * k <= n + c - 1,
           (c - 1) * (c - 1) <= n
    PROVE  i * k <= n
<1>1. i * k <= (c - 1) * k
  BY SMT
<1>2. CASE k <= c - 1
  <2>1. (c - 1) * k <= (c - 1) * (c - 1)
    BY <1>2, SMT
  <2> QED
    BY <1>1, <2>1, SMT
<1>3. CASE k >= c
  <2>1. (c - 1) * k = c * k - k
    BY SMT
  <2> QED
    BY <1>1, <1>3, <2>1, SMT
<1> QED
  BY <1>2, <1>3, SMT

\* Products grow with their factors.
LEMMA ProductGrows ==
    ASSUME NEW a \in Nat, NEW b \in Nat, NEW d \in Nat, a <= b
    PROVE  a * d <= b * d
  BY SMT

\* For a payload that is not too long the chunks are few enough, and small enough.
LEMMA FewSmallChunks ==
    ASSUME NEW n \in 0..MaxData
    PROVE  /\ AutoChunks(n) \in Nat \ {0}
           /\ (AutoChunks(n) - 1) * (AutoChunks(n) - 1) <= n
           /\ ChunkSize(n, AutoChunks(n)) <= MaxChunkSize
<1> DEFINE M == MaxChunkSize
           c == AutoChunks(n)
           d == c - 1
           k == ChunkSize(n, c)
<1>1. /\ c \in Nat
      /\ M * c >= n + Counted
      /\ M * c <= n + Counted + M - 1
  <2>1. n + Counted \in Nat /\ M \in Nat \ {0}
    OBVIOUS
  <2>2. c = Ceiling(n + Counted, M)
    BY DEF AutoChunks
  <2> HIDE DEF c
  <2> QED
    BY <2>1, <2>2, CeilingBounds
<1>2. c # 0
  <2>1. M * 0 = 0
    BY SMT
  <2> QED
    BY <1>1, <2>1, SMT
<1> HIDE DEF c
<1>3. M * d = M * c - M
  BY <1>1, SMT
<1>4. d < M - Counted
  <2> SUFFICES ASSUME d >= M - Counted PROVE FALSE
    BY <1>1, <1>2, SMT
  <2>1. M * d >= M * (M - Counted)
    BY <1>1, <1>2, SMT
  <2> QED
    BY <1>1, <1>3, <2>1, SMT
<1>5. d * d <= n
  <2>1. CASE d = 0
    BY <2>1, SMT
  <2>2. CASE d > 0
    <3>1. d * M >= d * (d + Counted)
      BY <1>1, <1>2, <1>4, SMT
    <3>2. d * (d + Counted) = d * d + d * Counted
      BY <1>1, SMT
    <3>3. d * Counted >= Counted
      BY <1>1, <2>2, SMT
    <3>4. d * M = M * d
      BY <1>1, SMT
    <3>5. d * d \in Int /\ d * Counted \in Int /\ d * M \in Int /\ M * c \in Int
      BY <1>1, SMT
    <3> QED
      BY <1>1, <1>3, <3>1, <3>2, <3>3, <3>4, <3>5, SMT
  <2> QED
    BY <1>1, <1>2, <2>1, <2>2, SMT
<1>6. k <= M
  <2>1. k \in Nat /\ c * k <= n + c - 1
    BY <1>1, <1>2, CeilingBounds DEF ChunkSize
  <2> HIDE DEF k
  <2> SUFFICES ASSUME k >= M + 1 PROVE FALSE
    BY <2>1, SMT
  <2>2. c * k >= c * (M + 1)
    BY <1>1, <2>1, SMT
  <2>3. c * (M + 1) = M * c + c
    BY <1>1, SMT
  <2> QED
    BY <1>1, <2>1, <2>2, <2>3, SMT
<1> QED
  BY <1>1, <1>2, <1>5, <1>6 DEF c

-----------------------------------------------------------------------------
\* The chunks sent are the first ones of those the payload is cut into.
Cut ==
    /\ result # "none" => chunks = AutoChunks(size)
    /\ Len(sent) <= chunks
    /\ result = "sending" => Len(sent) < chunks
    /\ result = "true" => Len(sent) = chunks
    /\ \A k \in 1..Len(sent) : sent[k] = Chunk(k - 1)
    /\ result = "none" => sent = <<>>

CutInv == ChunksTypeOK /\ Cut

\* What one chunk is, and that the last of them ends where the payload does.
LEMMA ChunkBounds ==
    ASSUME ChunksTypeOK, chunks = AutoChunks(size), NEW i \in 0..(chunks - 1)
    PROVE  /\ Chunk(i) \in [start: Nat, end: Nat]
           /\ Chunk(i).start <= Chunk(i).end
           /\ Chunk(i).end <= size
           /\ Chunk(i).end - Chunk(i).start <= MaxChunkSize
           /\ i + 1 < chunks => Chunk(i).end = Chunk(i + 1).start
           /\ i + 1 = chunks => Chunk(i).end = size
           /\ Chunk(0).start = 0
<1> DEFINE k == ChunkSize(size, chunks)
<1>1. /\ size \in Nat /\ size \in 0..MaxData
      /\ chunks \in Nat \ {0} /\ i \in Nat
  BY DEF ChunksTypeOK
<1>2. /\ k \in Nat
      /\ chunks * k >= size
      /\ chunks * k <= size + chunks - 1
      /\ k <= MaxChunkSize
  BY <1>1, CeilingBounds, FewSmallChunks DEF ChunkSize
<1>3. (chunks - 1) * (chunks - 1) <= size
  BY <1>1, FewSmallChunks
<1> HIDE DEF k
<1>4. i * k \in Nat /\ (i + 1) * k = i * k + k /\ 0 * k = 0 /\ (i + 1) * k \in Nat
  BY <1>1, <1>2, SMT
<1>5. i * k <= size
  BY <1>1, <1>2, <1>3, StartWithin
<1>6. i + 1 < chunks => (i + 1) * k <= size
  BY <1>1, <1>2, <1>3, StartWithin
<1>7. i + 1 = chunks => (i + 1) * k >= size
  BY <1>1, <1>2
<1>8. /\ Chunk(i) = [start |-> i * k, end |-> Least(i * k + k, size)]
      /\ Chunk(i + 1).start = (i + 1) * k
      /\ Chunk(0).start = 0 * k
  BY DEF Chunk, k
<1>9. /\ Least(i * k + k, size) \in Nat
      /\ Least(i * k + k, size) <= size
      /\ i * k <= Least(i * k + k, size)
      /\ Least(i * k + k, size) - i * k <= k
      /\ i * k + k <= size => Least(i * k + k, size) = i * k + k
      /\ i * k + k >= size => Least(i * k + k, size) = size
  BY <1>1, <1>2, <1>4, <1>5, SMT DEF Least
<1> QED
  BY <1>1, <1>2, <1>4, <1>6, <1>7, <1>8, <1>9, SMT

\* It holds before the first message.
LEMMA CutInitially == ChunksInit => CutInv
  BY DEF ChunksInit, CutInv, ChunksTypeOK, Cut

\* Every step keeps it.
LEMMA CutInductive == CutInv /\ [ChunksNext]_chunksVars => CutInv'
<1> SUFFICES ASSUME CutInv, [ChunksNext]_chunksVars PROVE CutInv'
  OBVIOUS
<1> USE DEF CutInv
<1>0. sent \in Seq([start: Nat, end: Nat]) /\ Len(sent) \in Nat
  BY DEF ChunksTypeOK
<1>1. ASSUME NEW n \in 0..MaxData, WriteToSocket(n) PROVE CutInv'
  <2>1. AutoChunks(n) \in Nat \ {0}
    BY FewSmallChunks
  <2>2. ChunksTypeOK'
    BY <1>1, <2>1 DEF ChunksTypeOK, WriteToSocket
  <2>3. Cut'
    BY <1>1, <2>1 DEF Cut, WriteToSocket
  <2> QED
    BY <2>2, <2>3
<1>2. CASE WriteSingleMsg
  <2>1. size \in Nat /\ chunks = 1 /\ chunks = AutoChunks(size)
    BY <1>2 DEF WriteSingleMsg, ChunksTypeOK, Cut
  <2>2. sent' = <<[start |-> 0, end |-> size]>> /\ result' = "true"
        /\ size' = size /\ chunks' = chunks
    BY <1>2 DEF WriteSingleMsg
  <2>3. Chunk(0) = [start |-> 0, end |-> size]
    <3>1. Ceiling(size, 1) = size
      BY <2>1, SMT DEF Ceiling
    <3>2. 0 * size = 0
      BY <2>1, SMT
    <3> QED
      BY <2>1, <3>1, <3>2, SMT DEF Chunk, ChunkSize, Least
  <2>4. Chunk(0)' = Chunk(0)
    BY <2>2 DEF Chunk
  <2>5. Len(sent') = 1 /\ sent'[1] = [start |-> 0, end |-> size]
    BY <2>2
  <2>6. ChunksTypeOK'
    BY <2>1, <2>2 DEF ChunksTypeOK
  <2>7. Cut'
    <3>1. \A k \in 1..Len(sent') : k = 1
      BY <2>5, SMT
    <3>2. \A k \in 1..Len(sent') : sent'[k] = Chunk(k - 1)'
      <4> TAKE k \in 1..Len(sent')
      <4>1. k = 1 /\ k - 1 = 0
        BY <3>1
      <4> QED
        BY <4>1, <2>3, <2>4, <2>5
    <3>3. result' = "true" /\ Len(sent') = chunks' /\ chunks' = AutoChunks(size')
      BY <2>1, <2>2, <2>5
    <3> QED
      BY <2>1, <2>2, <2>5, <3>2, <3>3 DEF Cut
  <2> QED
    BY <2>6, <2>7
<1>3. CASE WriteChunk
  <2> DEFINE c == Chunk(Len(sent))
  <2>1. /\ result = "sending" /\ chunks = AutoChunks(size)
        /\ chunks \in Nat \ {0} /\ Len(sent) \in 0..(chunks - 1)
    BY <1>0, <1>3 DEF WriteChunk, Cut, ChunksTypeOK
  <2>2. c \in [start: Nat, end: Nat]
    BY <2>1, ChunkBounds
  <2> HIDE DEF c
  <2>3. sent' = Append(sent, c) /\ size' = size /\ chunks' = chunks
    BY <1>3 DEF WriteChunk, c
  <2>4. /\ sent' \in Seq([start: Nat, end: Nat])
        /\ Len(sent') = Len(sent) + 1
        /\ \A k \in 1..Len(sent) : sent'[k] = sent[k]
        /\ sent'[Len(sent) + 1] = c
    BY <1>0, <2>2, <2>3
  <2>5. result' = IF Len(sent') = chunks THEN "true" ELSE "sending"
    BY <1>3, <2>4 DEF WriteChunk
  <2>6. ChunksTypeOK'
    BY <2>3, <2>4, <2>5 DEF ChunksTypeOK
  <2>7. Cut'
    <3>1. \A k \in 1..Len(sent') : sent'[k] = Chunk(k - 1)'
      <4> TAKE k \in 1..Len(sent')
      <4>1. Chunk(k - 1)' = Chunk(k - 1)
        BY <2>3 DEF Chunk
      <4>2. CASE k \in 1..Len(sent)
        BY <4>1, <4>2, <2>4 DEF Cut
      <4>3. CASE k = Len(sent) + 1
        <5>1. k - 1 = Len(sent)
          BY <4>3, <1>0
        <5> QED
          BY <4>1, <4>3, <5>1, <2>4 DEF c
      <4> QED
        BY <4>2, <4>3, <2>4, <1>0
    <3>2. /\ result' # "none"
          /\ chunks' = AutoChunks(size')
          /\ Len(sent') <= chunks'
          /\ result' = "sending" => Len(sent') < chunks'
          /\ result' = "true" => Len(sent') = chunks'
      BY <2>1, <2>3, <2>4, <2>5
    <3> QED
      BY <3>1, <3>2 DEF Cut
  <2> QED
    BY <2>6, <2>7
<1>4. CASE SendFails
  <2>1. \A k : Chunk(k)' = Chunk(k)
    BY <1>4 DEF SendFails, Chunk
  <2> QED
    BY <1>4, <2>1 DEF SendFails, ChunksTypeOK, Cut
<1>5. CASE UNCHANGED chunksVars
  <2>1. \A k : Chunk(k)' = Chunk(k)
    BY <1>5 DEF chunksVars, Chunk
  <2> QED
    BY <1>5, <2>1 DEF chunksVars, ChunksTypeOK, Cut
<1> QED
  BY <1>1, <1>2, <1>3, <1>4, <1>5 DEF ChunksNext

\* The chunks sent are always a beginning of the cutting of the payload.
THEOREM CutInvariance == ChunksSpec => []CutInv
  BY CutInitially, CutInductive, PTL DEF ChunksSpec

\* The sizes, the number of chunks and what is sent keep their types.
THEOREM ChunksTypeCorrect == ChunksSpec => []ChunksTypeOK
<1>1. CutInv => ChunksTypeOK
  BY DEF CutInv
<1>2. QED
  BY <1>1, CutInvariance, PTL
-----------------------------------------------------------------------------
\* The cutting of a payload is a partition of it in small parts.
LEMMA CutProperties == CutInv => SentIsPrefix /\ TrueIsComplete /\ PayloadFits
<1> SUFFICES ASSUME CutInv PROVE SentIsPrefix /\ TrueIsComplete /\ PayloadFits
  OBVIOUS
<1> USE DEF CutInv
<1>0. Len(sent) \in Nat /\ chunks \in Nat \ {0}
  BY DEF ChunksTypeOK
<1>1. ASSUME NEW k \in 1..Len(sent)
      PROVE  /\ sent[k] = Chunk(k - 1)
             /\ chunks = AutoChunks(size)
             /\ k - 1 \in 0..(chunks - 1)
  BY <1>0 DEF Cut
<1>2. SentIsPrefix
  <2> SUFFICES ASSUME NEW k \in 1..Len(sent)
               PROVE  /\ sent[k].start = IF k = 1 THEN 0 ELSE sent[k - 1].end
                      /\ sent[k].start <= sent[k].end
                      /\ sent[k].end <= size
    BY DEF SentIsPrefix
  <2>1. sent[k].start <= sent[k].end /\ sent[k].end <= size /\ Chunk(0).start = 0
    BY <1>1, ChunkBounds
  <2>2. k = 1 => sent[k].start = 0
    BY <1>1, <2>1
  <2>3. ASSUME k # 1 PROVE sent[k].start = sent[k - 1].end
    <3>1. k - 1 \in 1..Len(sent) /\ (k - 1) - 1 \in 0..(chunks - 1)
          /\ ((k - 1) - 1) + 1 = k - 1 /\ ((k - 1) - 1) + 1 < chunks
      BY <1>0, <1>1, <2>3
    <3>2. sent[k - 1] = Chunk((k - 1) - 1)
      BY <1>1, <3>1
    <3>3. Chunk((k - 1) - 1).end = Chunk(((k - 1) - 1) + 1).start
      BY <1>1, <3>1, ChunkBounds
    <3> QED
      BY <1>1, <3>1, <3>2, <3>3
  <2> QED
    BY <2>1, <2>2, <2>3
<1>3. TrueIsComplete
  <2> SUFFICES ASSUME result = "true" PROVE Len(sent) = chunks /\ sent[Len(sent)].end = size
    BY DEF TrueIsComplete
  <2>1. Len(sent) = chunks /\ Len(sent) \in 1..Len(sent)
    BY <1>0 DEF Cut
  <2>2. Len(sent) - 1 \in 0..(chunks - 1) /\ (Len(sent) - 1) + 1 = chunks
    BY <1>0, <2>1
  <2> QED
    BY <1>1, <2>1, <2>2, ChunkBounds
<1>4. PayloadFits
  BY <1>1, ChunkBounds DEF PayloadFits
<1> QED
  BY <1>2, <1>3, <1>4

\* No payload of the allowed length makes a chunk begin after its end, and the bytes
\* sent are those of the payload, in order, without a gap (WriteChunkMsg).
THEOREM SentIsPrefixAlways == ChunksSpec => []SentIsPrefix
  BY CutInvariance, CutProperties, PTL

\* WriteToSocket is right when it returns true.
THEOREM TrueIsCompleteAlways == ChunksSpec => []TrueIsComplete
  BY CutInvariance, CutProperties, PTL

\* MAX_CHUNK_SIZE bounds the payload of every chunk.
THEOREM PayloadFitsAlways == ChunksSpec => []PayloadFits
  BY CutInvariance, CutProperties, PTL
-----------------------------------------------------------------------------
(* The polls. *)

HIDE ChunksAssumption
USE WebPollingAssumption

\* Nothing cached is newer than what the site says, nor than what the request that is
\* waited for will be answered.
Fresh ==
    /\ \A k \in Kinds : cached[k] <= site[k]
    /\ registered # NoRequest => cached[registered.kind] <= registered.version

Inv == TypeOK /\ WaitsForPending /\ Fresh
-----------------------------------------------------------------------------
\* The numbers are naturals.
LEMMA Numbers == Versions \subseteq Nat /\ Times \subseteq Nat /\ Timeout \in Nat
BY DEF Versions, Times

\* A poll asks for what the site says.
LEMMA NewRequestType ==
    ASSUME TypeOK, NEW k \in Kinds
    PROVE  /\ NewRequest(k) \in Request /\ NewRequest(k).kind = k
           /\ NewRequest(k).version = site[k] /\ NewRequest(k) # NoRequest
BY DEF NewRequest, Request, TypeOK

\* The polls of one call of Update.
LEMMA UpdateInductive ==
    ASSUME Inv, Update
    PROVE  Inv' /\ cached' = cached
<1>0. TypeOK /\ Due \subseteq Kinds
  BY DEF Inv, Due
<1>1. PICK made \in SUBSET Due :
         /\ pending' = pending \cup {NewRequest(k) : k \in made}
         /\ inFlight' = inFlight \cup {NewRequest(k) : k \in made}
         /\ registered' = Registered(made)
  BY DEF Update
<1>2. /\ lastPoll' = [k \in Kinds |-> IF k \in Due THEN now ELSE lastPoll[k]]
      /\ UNCHANGED <<now, site, cached>>
  BY DEF Update
<1>3. \A k \in made : NewRequest(k) \in Request
  BY <1>0, <1>1, NewRequestType
<1>4. registered' = registered \/ \E k \in made : registered' = NewRequest(k)
  BY <1>1 DEF Registered
<1>5. TypeOK'
  <2>1. registered' \in Request \cup {NoRequest}
    BY <1>0, <1>3, <1>4 DEF TypeOK
  <2>2. pending' \subseteq Request /\ inFlight' \subseteq Request
    BY <1>0, <1>1, <1>3 DEF TypeOK
  <2>3. lastPoll' \in [Kinds -> {0} \cup Times]
    BY <1>0, <1>2 DEF TypeOK
  <2>4. QED
    BY <1>0, <1>2, <2>1, <2>2, <2>3 DEF TypeOK
<1>6. WaitsForPending'
  BY <1>1, <1>4 DEF Inv, WaitsForPending
<1>7. Fresh'
  <2>1. ASSUME registered' # NoRequest PROVE cached'[registered'.kind] <= registered'.version
    <3>1. CASE registered' = registered
      BY <1>2, <2>1, <3>1 DEF Inv, Fresh
    <3>2. ASSUME NEW k \in made, registered' = NewRequest(k)
          PROVE  cached'[registered'.kind] <= registered'.version
      <4>1. k \in Kinds
        BY <1>0
      <4>2. registered'.kind = k /\ registered'.version = site[k]
        BY <1>0, <3>2, <4>1, NewRequestType
      <4>3. QED
        BY <1>2, <4>1, <4>2 DEF Inv, Fresh
    <3>3. QED
      BY <1>4, <3>1, <3>2
  <2>2. QED
    BY <1>2, <2>1 DEF Inv, Fresh
<1>8. QED
  BY <1>2, <1>5, <1>6, <1>7 DEF Inv

\* An answer, whether its callback is called or not.
LEMMA CompleteInductive ==
    ASSUME Inv, NEW r \in inFlight, Complete(r)
    PROVE  Inv' /\ \A k \in Kinds : cached[k] <= cached'[k]
<1>0. /\ TypeOK /\ r \in Request /\ r \in pending /\ r # NoRequest
      /\ r.kind \in Kinds /\ r.version \in Versions
  BY DEF Inv, TypeOK, WaitsForPending, Request
<1>1. inFlight' = inFlight \ {r} /\ UNCHANGED <<now, lastPoll, site>>
  BY DEF Complete
<1>2. CASE r # registered
  <2>1. UNCHANGED <<pending, registered, cached>>
    BY <1>2 DEF Complete, Listened
  <2>2. TypeOK' /\ WaitsForPending' /\ Fresh'
    BY <1>1, <1>2, <2>1 DEF Inv, TypeOK, WaitsForPending, Fresh
  <2>3. \A k \in Kinds : cached[k] <= cached'[k]
    <3>1. cached' = cached
      BY <2>1
    <3>2. \A k \in Kinds : cached[k] \in Nat
      BY <1>0, Numbers DEF TypeOK
    <3>3. \A k \in Kinds : cached[k] <= cached[k]
      BY <3>2
    <3>4. QED
      BY <3>1, <3>3
  <2>4. QED
    BY <2>2, <2>3 DEF Inv
<1>3. CASE r = registered
  <2>1. /\ registered' = NoRequest /\ pending' = pending \ {r}
        /\ \/ \E v \in r.version..site[r.kind] : cached' = [cached EXCEPT ![r.kind] = v]
           \/ UNCHANGED cached
    BY <1>3 DEF Complete, Listened, OnHTTPRequestCompleted
  <2>2. WaitsForPending'
    BY <1>1, <2>1 DEF Inv, WaitsForPending
  <2>3. \A k \in Kinds : cached[k] \in Nat /\ site[k] \in Versions /\ site[k] \in Nat
    BY <1>0, Numbers DEF TypeOK
  <2>4. CASE UNCHANGED cached
    BY <1>0, <1>1, <2>1, <2>2, <2>3, <2>4 DEF Inv, TypeOK, Fresh
  <2>5. ASSUME NEW v \in r.version..site[r.kind], cached' = [cached EXCEPT ![r.kind] = v]
        PROVE  Inv' /\ \A k \in Kinds : cached[k] <= cached'[k]
    <3>1. v \in Versions /\ v <= site[r.kind] /\ r.version <= v /\ r.version \in Nat /\ v \in Nat
      BY <1>0, <2>3, Numbers DEF Versions
    <3>2. cached[r.kind] <= v
      BY <1>0, <1>3, <2>3, <3>1 DEF Inv, Fresh
    <3>3. cached'[r.kind] = v /\ \A k \in Kinds : k # r.kind => cached'[k] = cached[k]
      BY <1>0, <2>5 DEF TypeOK
    <3>4. TypeOK'
      BY <1>0, <1>1, <2>1, <2>5, <3>1 DEF TypeOK
    <3>5. Fresh'
      BY <1>1, <2>1, <3>1, <3>3 DEF Inv, Fresh
    <3>6. \A k \in Kinds : cached[k] <= cached'[k]
      BY <2>3, <3>2, <3>3
    <3>7. QED
      BY <2>2, <3>4, <3>5, <3>6 DEF Inv
  <2>6. QED
    BY <2>1, <2>4, <2>5
<1>4. QED
  BY <1>2, <1>3

\* Every step keeps the invariant, and takes nothing back.
LEMMA InvInductive ==
    ASSUME Inv, [Next]_vars
    PROVE  Inv' /\ [\A k \in Kinds : cached[k] <= cached'[k]]_vars
<1>0. TypeOK
  BY DEF Inv
<1>1. \A k \in Kinds : cached[k] \in Nat /\ site[k] \in Nat /\ site[k] \in Versions
  BY <1>0, Numbers DEF TypeOK
<1>2. ASSUME Tick PROVE Inv' /\ cached' = cached
  <2>1. now' \in Times
    BY <1>0, <1>2 DEF Tick, TypeOK, Times
  <2>2. QED
    BY <1>2, <2>1 DEF Tick, Inv, TypeOK, WaitsForPending, Fresh
<1>3. ASSUME NEW k \in Kinds, Publish(k) PROVE Inv' /\ cached' = cached
  <2>1. /\ site' = [site EXCEPT ![k] = site[k] + 1] /\ site[k] < MaxVersion
        /\ UNCHANGED <<now, lastPoll, pending, inFlight, registered, cached>>
    BY <1>3 DEF Publish
  <2>2. site[k] + 1 \in Versions
    BY <1>1, <2>1 DEF Versions
  <2>3. TypeOK'
    BY <1>0, <2>1, <2>2 DEF TypeOK
  <2>4. \A j \in Kinds : cached[j] <= site'[j]
    BY <1>0, <1>1, <2>1 DEF TypeOK, Inv, Fresh
  <2>5. QED
    BY <2>1, <2>3, <2>4 DEF Inv, WaitsForPending, Fresh
<1>4. CASE UNCHANGED vars
  BY <1>4 DEF vars, Inv, TypeOK, WaitsForPending, Fresh
<1>5. QED
  BY <1>1, <1>2, <1>3, <1>4, UpdateInductive, CompleteInductive DEF Next

\* The invariant holds initially.
LEMMA InvInitially == Init => Inv
<1> SUFFICES ASSUME Init PROVE Inv
  OBVIOUS
<1>1. StartTime \in Times /\ 0 \in Versions
  BY DEF Times, Versions
<1>2. TypeOK
  BY <1>1 DEF Init, TypeOK
<1>3. WaitsForPending /\ Fresh
  BY DEF Init, WaitsForPending, Fresh
<1>4. QED
  BY <1>2, <1>3 DEF Inv

\* Hence it always holds.
LEMMA Invariance == Spec => []Inv
<1>1. Inv /\ [Next]_vars => Inv'
  BY InvInductive
<1>2. QED
  BY <1>1, InvInitially, PTL DEF Spec

\* The client's variables keep their types.
THEOREM WebPollingTypeCorrect == Spec => []TypeOK
<1>1. Inv => TypeOK
  BY DEF Inv
<1>2. QED
  BY <1>1, Invariance, PTL

\* The one call result always waits for a request that Steam will complete, and no answer
\* comes to a callback that is gone.
THEOREM AlwaysWaitsForPending == Spec => []WaitsForPending
<1>1. Inv => WaitsForPending
  BY DEF Inv
<1>2. QED
  BY <1>1, Invariance, PTL

\* However late answers come and whatever they displace, what is cached never goes back.
THEOREM CacheMonotone == Spec => CacheNeverGoesBack
<1>1. Inv /\ [Next]_vars => [\A k \in Kinds : cached[k] <= cached'[k]]_vars
  BY InvInductive
<1>2. QED
  BY <1>1, Invariance, PTL DEF Spec, CacheNeverGoesBack
=============================================================================
