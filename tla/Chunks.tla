-------------------------------- MODULE Chunks --------------------------------
(***************************************************************************)
(* How a message is cut into chunks (gc_server/steam_network_message.cpp). *)
(* WriteToSocket counts the chunks from the size of the payload, and sends *)
(* them one after the other until one cannot be sent.  A chunk is the part *)
(* of the payload between two positions; its header of three words says    *)
(* how many chunks there are and never which one it is, so the receiver    *)
(* depends on their order.                                                 *)
(***************************************************************************)
EXTENDS Integers, Sequences

CONSTANTS MaxChunkSize,   \* MAX_CHUNK_SIZE, in bytes
          Counted,        \* what GetTotalSize adds to the payload: two words
          MaxData         \* the largest payload; a megabyte, less sixteen thousand bytes, at most

ASSUME ChunksAssumption ==
    /\ MaxChunkSize \in Nat \ {0}
    /\ Counted \in Nat \ {0}
    /\ MaxData \in Nat
    /\ MaxData + Counted <= MaxChunkSize * (MaxChunkSize - Counted)

VARIABLES
    size,     \* of m_data
    chunks,
    sent,     \* the chunks sent: the positions in m_data where each begins and ends
    result    \* of WriteToSocket: none yet, or it is sending, or true, or false

chunksVars == <<size, chunks, sent, result>>

ChunksTypeOK ==
    /\ size \in 0..MaxData
    /\ chunks \in Nat \ {0}
    /\ sent \in Seq([start: Nat, end: Nat])
    /\ result \in {"none", "sending", "true", "false"}

ChunksInit ==
    /\ size = 0
    /\ chunks = 1
    /\ sent = <<>>
    /\ result = "none"

Least(a, b) == IF a <= b THEN a ELSE b

\* a / b, rounded up.
Ceiling(a, b) == (a + b - 1) \div b

\* Mutant of AutoChunks: rounded down.
AutoChunksDown(n) == IF n < MaxChunkSize THEN 1 ELSE n \div MaxChunkSize

\* The number of chunks; GetTotalSize is never 0 and nobody asks for another number.
AutoChunks(n) == Ceiling(n + Counted, MaxChunkSize)

\* Mutant of ChunkSize: rounded down.
ChunkSizeDown(n, c) == n \div c

ChunkSize(n, c) == Ceiling(n, c)

\* Mutant of Chunk: the end is that of the first chunk.
ChunkFromFirst(i) == [start |-> i * ChunkSize(size, chunks), end |-> ChunkSize(size, chunks)]

\* The positions of chunk i, counted from 0.
Chunk(i) ==
    LET start == i * ChunkSize(size, chunks)
    IN  [start |-> start, end |-> Least(start + ChunkSize(size, chunks), size)]

WriteToSocket(n) ==
    /\ result # "sending"
    /\ size' = n
    /\ chunks' = AutoChunks(n)
    /\ sent' = <<>>
    /\ result' = "sending"

\* WriteSingleMsg: all of it.
WriteSingleMsg ==
    /\ result = "sending"
    /\ chunks = 1
    /\ sent' = <<[start |-> 0, end |-> size]>>
    /\ result' = "true"
    /\ UNCHANGED <<size, chunks>>

\* One round of the loop in WriteChunkMsg.
WriteChunk ==
    /\ result = "sending"
    /\ chunks # 1
    /\ sent' = Append(sent, Chunk(Len(sent)))
    /\ result' = IF Len(sent) + 1 = chunks THEN "true" ELSE "sending"
    /\ UNCHANGED <<size, chunks>>

\* SendDataOnSocket refuses.
SendFails ==
    /\ result = "sending"
    /\ result' = "false"
    /\ UNCHANGED <<size, chunks, sent>>

ChunksNext ==
    \/ \E n \in 0..MaxData : WriteToSocket(n)
    \/ WriteSingleMsg
    \/ WriteChunk
    \/ SendFails

ChunksSpec == ChunksInit /\ [][ChunksNext]_chunksVars
-----------------------------------------------------------------------------
(* Properties. *)

\* What has been sent is a beginning of the payload, each byte once and in order.
\* Otherwise a chunk would begin after the end of m_data, and the insertion of it be
\* undefined: that happens to some payloads longer than MaxData.
SentIsPrefix ==
    \A k \in 1..Len(sent) :
        /\ sent[k].start = IF k = 1 THEN 0 ELSE sent[k - 1].end
        /\ sent[k].start <= sent[k].end
        /\ sent[k].end <= size

\* WriteToSocket returns true only when all of the payload is sent, in as many
\* chunks as the headers of all of them say.
TrueIsComplete ==
    result = "true" => /\ Len(sent) = chunks
                       /\ sent[Len(sent)].end = size

\* No chunk carries more than MAX_CHUNK_SIZE of payload.
PayloadFits == \A k \in 1..Len(sent) : sent[k].end - sent[k].start <= MaxChunkSize
=============================================================================
