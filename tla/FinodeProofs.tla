---------------------------- MODULE FinodeProofs ----------------------------
(***************************************************************************)
(* Proofs about the file server: for every number of clients, size of       *)
(* blocks and files, and set of spans, whatever zones run out and whatever  *)
(* stray calls clients make, a read sees one version of the file, replies   *)
(* reach their callers, and the server implements the atomic file its       *)
(* interface promises.                                                      *)
(***************************************************************************)
EXTENDS Finode, TLAPS

USE SizeAssumption DEF SizeAssumption

\* The server is busy with one request: that of cur, who is receiving.
Busy == server \in {"wait", "write", "reply"}
ServesCur ==
  /\ Busy => pc[cur] = "receiving"
  /\ server = "wait" => req[cur].op \in {"write", "close"}
  /\ server = "write" => req[cur].op = "write"

RequestsMatch ==
  \A c \in Clients :
    /\ pc[c] = "idle" <=> req[c] = NoRequest
    /\ pc[c] = "awaiting" => req[c].op = "read"
    /\ pc[c] # "awaiting" => rd[c] = NoRead

\* The wait group counts the reads whose goroutine runs or is about to.
Counted ==
  \A c \in Clients :
    c \in waitGroup <=>
      pc[c] = "awaiting" \/ (pc[c] = "receiving" /\ req[c].op = "read")

NoReaderDuringWrite == server = "write" => waitGroup = {}

WriteInRange ==
  server = "write" =>
    /\ End(req[cur]) <= MaxSize
    /\ req[cur].pos <= position /\ position <= End(req[cur])

ReadInRange ==
  \A c \in Clients : pc[c] = "awaiting" /\ Started(c) =>
    /\ rd[c].got <= rd[c].want
    /\ req[c].pos + rd[c].want <= size

IInv ==
  /\ TypeOK
  /\ ServesCur
  /\ RequestsMatch
  /\ Counted
  /\ NoReaderDuringWrite
  /\ WriteInRange
  /\ ReadInRange
  /\ ReadersSeeStableFile
  /\ RepliesReachCaller
-----------------------------------------------------------------------------
LEMMA RequestFacts ==
  ASSUME NEW r \in Requests
  PROVE  /\ r.op \in {"read", "write", "lock", "unlock", "close"}
         /\ r.pos \in 0 .. MaxSize /\ r.len \in 0 .. MaxSize + 1
         /\ r.op = "write" => r.val \in Values
BY DEF Requests, Reads, Writes

LEMMA DivMod ==
  ASSUME NEW p \in Nat, NEW b \in Nat \ {0}
  PROVE  p % b \in 0 .. b - 1
OBVIOUS

\* A chunk is not empty, and no longer than the transfer.
LEMMA ChunkSize ==
  ASSUME NEW p \in Nat, NEW n \in Nat \ {0}
  PROVE  Chunk(p, n) \in 1 .. n
<1>1. p % Blocksize \in 0 .. Blocksize - 1
  BY DivMod
<1>2. QED
  BY <1>1 DEF Chunk

LEMMA CurrentRequest ==
  ASSUME TypeOK, NEW c \in Clients, req[c] # NoRequest
  PROVE  req[c] \in Requests
BY DEF TypeOK

ReadStates == [want : -1 .. MaxSize, got : 0 .. MaxSize,
               data : UNION {[0 .. n - 1 -> Values] : n \in 0 .. MaxSize}]

LEMMA NoBytesType == NoBytes \in UNION {[0 .. n - 1 -> Values] : n \in 0 .. MaxSize}
<1>1. NoBytes \in [0 .. 0 - 1 -> Values]
  BY DEF NoBytes
<1>2. 0 \in 0 .. MaxSize
  OBVIOUS
<1> QED
  BY <1>1, <1>2

LEMMA NoReadType ==
  NoRead \in ReadStates
BY NoBytesType DEF NoRead, ReadStates

LEMMA InitEstablishes == Init => IInv
<1> SUFFICES ASSUME Init PROVE IInv
  OBVIOUS
<1>1. TypeOK
  <2>1. NoRead \in ReadStates
    BY NoReadType
  <2>2. NoResponse \in Responses
    BY DEF NoResponse, Responses
  <2>3. rd \in [Clients -> ReadStates]
    BY <2>1 DEF Init
  <2>4. position \in 0 .. MaxSize /\ waitGroup \subseteq Clients
    BY DEF Init
  <2> QED
    BY <2>2, <2>3, <2>4 DEF Init, TypeOK, ReadStates
<1>2. ServesCur /\ RequestsMatch /\ Counted
  BY DEF Init, ServesCur, Busy, RequestsMatch, Counted
<1>3. NoReaderDuringWrite /\ WriteInRange /\ ReadInRange /\ ReadersSeeStableFile
  BY DEF Init, NoReaderDuringWrite, WriteInRange, ReadInRange, ReadersSeeStableFile
<1>4. RepliesReachCaller
  BY DEF Init, RepliesReachCaller
<1> QED
  BY <1>1, <1>2, <1>3, <1>4 DEF IInv

LEMMA CallPreserves ==
  ASSUME IInv, NEW c \in Clients, NEW r \in Requests, Call(c, r)
  PROVE  IInv'
<1> USE DEF IInv, Call, serverVars, fileVars
<1>1. r # NoRequest
  BY RequestFacts DEF NoRequest
<1>2. cur # c \/ ~Busy
  BY DEF ServesCur
<1>3. TypeOK'
  BY DEF TypeOK
<1>4. ServesCur'
  BY <1>2 DEF ServesCur, Busy, TypeOK
<1>5. RequestsMatch'
  BY <1>1 DEF RequestsMatch, TypeOK
<1>6. Counted' /\ NoReaderDuringWrite'
  BY DEF Counted, NoReaderDuringWrite, TypeOK
<1>7. WriteInRange'
  BY <1>2 DEF WriteInRange, TypeOK, Busy
<1>8. ReadInRange' /\ ReadersSeeStableFile'
  <2>1. UNCHANGED <<rd, size, content>>
    OBVIOUS
  <2>2. \A d \in Clients : pc'[d] = "awaiting" => pc[d] = "awaiting" /\ req'[d] = req[d]
    BY DEF TypeOK
  <2>3. \A d \in Clients : Started(d)' <=> Started(d)
    BY <2>1 DEF Started
  <2>4. ReadInRange /\ ReadersSeeStableFile
    OBVIOUS
  <2> HIDE DEF IInv, Call
  <2>5. ReadInRange'
    BY <2>1, <2>2, <2>3, <2>4 DEF ReadInRange
  <2>6. ReadersSeeStableFile'
    BY <2>1, <2>2, <2>3, <2>4 DEF ReadersSeeStableFile, End
  <2> QED BY <2>5, <2>6
<1>10. RepliesReachCaller'
  BY DEF RepliesReachCaller, TypeOK
<1> QED
  BY <1>3, <1>4, <1>5, <1>6, <1>7, <1>8, <1>10
LEMMA ReadRequestPreserves ==
  ASSUME IInv, NEW c \in Clients, ReadRequest(c)
  PROVE  IInv'
<1> USE DEF IInv, ReadRequest, Receive, fileVars, CountIn, Respond
<1>1. \A d \in Clients : pc[d] # "receiving"
  BY DEF RepliesReachCaller
<1>2. TypeOK'
  BY DEF TypeOK, Responses
<1>3. ServesCur'
  BY DEF ServesCur, Busy, TypeOK
<1>4. RequestsMatch'
  BY DEF RequestsMatch, TypeOK
<1>5. Counted' /\ NoReaderDuringWrite' /\ WriteInRange'
  BY <1>1 DEF Counted, NoReaderDuringWrite, WriteInRange, TypeOK
<1>6. ReadInRange' /\ ReadersSeeStableFile'
  BY DEF ReadInRange, ReadersSeeStableFile, TypeOK, Started
<1>8. RepliesReachCaller'
  BY <1>1 DEF RepliesReachCaller, TypeOK
<1> QED
  BY <1>2, <1>3, <1>4, <1>5, <1>6, <1>8

LEMMA WaitRequestPreserves ==
  ASSUME IInv, NEW c \in Clients, WaitRequest(c)
  PROVE  IInv'
<1> USE DEF IInv, WaitRequest, Receive, fileVars
<1>1. \A d \in Clients : pc[d] # "receiving"
  BY DEF RepliesReachCaller
<1>2. TypeOK'
  BY DEF TypeOK, Responses
<1>3. ServesCur'
  BY DEF ServesCur, Busy, TypeOK
<1>4. RequestsMatch'
  BY DEF RequestsMatch, TypeOK
<1>5. Counted' /\ NoReaderDuringWrite' /\ WriteInRange'
  BY <1>1 DEF Counted, NoReaderDuringWrite, WriteInRange, TypeOK
<1>6. ReadInRange' /\ ReadersSeeStableFile'
  BY DEF ReadInRange, ReadersSeeStableFile, TypeOK, Started
<1>8. RepliesReachCaller'
  BY <1>1 DEF RepliesReachCaller, TypeOK
<1> QED
  BY <1>2, <1>3, <1>4, <1>5, <1>6, <1>8

LEMMA LockRequestPreserves ==
  ASSUME IInv, NEW c \in Clients, LockRequest(c)
  PROVE  IInv'
<1> USE DEF IInv, LockRequest, Receive, fileVars, Respond
<1>1. \A d \in Clients : pc[d] # "receiving"
  BY DEF RepliesReachCaller
<1>2. TypeOK'
  <2>1. [op |-> "lock", ok |-> ~locked, n |-> 0] \in Responses
    <3>1. locked = TRUE \/ locked = FALSE
      BY DEF TypeOK
    <3> QED
      BY <3>1 DEF Responses
  <2> QED
    BY <2>1 DEF TypeOK
<1>3. ServesCur'
  BY DEF ServesCur, Busy, TypeOK
<1>4. RequestsMatch'
  BY DEF RequestsMatch, TypeOK
<1>5. Counted' /\ NoReaderDuringWrite' /\ WriteInRange'
  BY <1>1 DEF Counted, NoReaderDuringWrite, WriteInRange, TypeOK
<1>6. ReadInRange' /\ ReadersSeeStableFile'
  BY DEF ReadInRange, ReadersSeeStableFile, TypeOK, Started
<1>8. RepliesReachCaller'
  BY <1>1 DEF RepliesReachCaller, TypeOK
<1> QED
  BY <1>2, <1>3, <1>4, <1>5, <1>6, <1>8

LEMMA UnlockRequestPreserves ==
  ASSUME IInv, NEW c \in Clients, UnlockRequest(c)
  PROVE  IInv'
<1> USE DEF IInv, UnlockRequest, Receive, fileVars, Respond
<1>1. \A d \in Clients : pc[d] # "receiving"
  BY DEF RepliesReachCaller
<1>2. TypeOK'
  BY DEF TypeOK, Responses
<1>3. ServesCur'
  BY DEF ServesCur, Busy, TypeOK
<1>4. RequestsMatch'
  BY DEF RequestsMatch, TypeOK
<1>5. Counted' /\ NoReaderDuringWrite' /\ WriteInRange'
  BY <1>1 DEF Counted, NoReaderDuringWrite, WriteInRange, TypeOK
<1>6. ReadInRange' /\ ReadersSeeStableFile'
  BY DEF ReadInRange, ReadersSeeStableFile, TypeOK, Started
<1>8. RepliesReachCaller'
  BY <1>1 DEF RepliesReachCaller, TypeOK
<1> QED
  BY <1>2, <1>3, <1>4, <1>5, <1>6, <1>8
LEMMA StartWritePreserves ==
  ASSUME IInv, StartWrite
  PROVE  IInv'
<1> USE DEF IInv, StartWrite, Waited, clientVars
<1>1. req[cur] \in Requests
  BY CurrentRequest DEF NoRequest, TypeOK
<1>2. req[cur].pos \in 0 .. MaxSize /\ req[cur].len \in 0 .. MaxSize + 1
  BY <1>1, RequestFacts
<1>3. pc[cur] = "receiving" /\ cur \in Clients
  BY DEF ServesCur, Busy, TypeOK
<1>4. CASE req[cur].pos > MaxSize - req[cur].len
  <2> USE <1>4 DEF Respond
  <2>1. TypeOK'
    <3>1. [op |-> "write", ok |-> FALSE, n |-> 0] \in Responses
      BY DEF Responses
    <3> QED
      BY <3>1 DEF TypeOK
  <2>2. ServesCur' /\ RequestsMatch' /\ Counted' /\ NoReaderDuringWrite' /\ WriteInRange'
    BY <1>3 DEF ServesCur, Busy, RequestsMatch, Counted, NoReaderDuringWrite, WriteInRange
  <2>3. ReadInRange' /\ ReadersSeeStableFile'
    BY DEF ReadInRange, ReadersSeeStableFile, Started
  <2>4. RepliesReachCaller'
    BY <1>3 DEF RepliesReachCaller
  <2> QED
    BY <2>1, <2>2, <2>3, <2>4
<1>5. CASE ~(req[cur].pos > MaxSize - req[cur].len)
  <2> USE <1>5
  <2>1. TypeOK'
    BY <1>2 DEF TypeOK
  <2>2. ServesCur' /\ RequestsMatch' /\ Counted' /\ NoReaderDuringWrite'
    BY <1>3 DEF ServesCur, Busy, RequestsMatch, Counted, NoReaderDuringWrite
  <2>3. WriteInRange'
    <3>1. server' = "write" /\ position' = req[cur].pos /\ req' = req /\ cur' = cur
      OBVIOUS
    <3>2. req[cur].pos + req[cur].len <= MaxSize /\ req[cur].pos <= req[cur].pos + req[cur].len
      BY <1>2
    <3> QED
      BY <1>2, <3>1, <3>2 DEF WriteInRange, End
  <2>4. ReadInRange' /\ ReadersSeeStableFile'
    BY DEF ReadInRange, ReadersSeeStableFile, Started
  <2>5. RepliesReachCaller'
    BY <1>3 DEF RepliesReachCaller
  <2> QED
    BY <2>1, <2>2, <2>3, <2>4, <2>5
<1> QED
  BY <1>4, <1>5

LEMMA WriteChunkPreserves ==
  ASSUME IInv, WriteChunk
  PROVE  IInv'
<1> USE DEF IInv, WriteChunk, clientVars
<1> DEFINE n == End(req[cur]) - position
<1>1. /\ req[cur] \in Requests /\ req[cur].op = "write"
      /\ req[cur].pos \in 0 .. MaxSize /\ req[cur].len \in 0 .. MaxSize + 1
      /\ req[cur].val \in Values
  BY CurrentRequest, RequestFacts DEF NoRequest, TypeOK, ServesCur
<1>2. pc[cur] = "receiving" /\ cur \in Clients
  BY DEF ServesCur, Busy, TypeOK
<1>3. position \in Nat /\ n \in Nat \ {0}
  BY <1>1 DEF TypeOK, End
<1>4. Chunk(position, n) \in 1 .. n
  BY <1>3, ChunkSize
<1>5. position' = position + Chunk(position, n)
  OBVIOUS
<1>6. position' \in position .. End(req[cur])
  BY <1>1, <1>3, <1>4, <1>5 DEF End
<1> HIDE DEF n
<1>7. TypeOK'
  <2>1. content' \in [Places -> Values]
    BY <1>1 DEF TypeOK
  <2>2. dirty' \in BOOLEAN
    BY Zenon DEF TypeOK
  <2>3. position' \in 0 .. MaxSize
    <3>1. End(req[cur]) \in Nat /\ End(req[cur]) <= MaxSize
      BY <1>1 DEF WriteInRange, End
    <3>2. position \in Nat
      BY <1>3
    <3> HIDE DEF IInv, WriteChunk
    <3> QED
      BY <1>6, <3>1, <3>2
  <2> QED
    BY <2>1, <2>2, <2>3 DEF TypeOK
<1>8. ServesCur' /\ RequestsMatch' /\ Counted' /\ NoReaderDuringWrite'
  BY <1>2 DEF ServesCur, Busy, RequestsMatch, Counted, NoReaderDuringWrite
<1>9. WriteInRange'
  BY <1>1, <1>6, <1>3 DEF WriteInRange, End
<1>10. \A c \in Clients : pc[c] # "awaiting"
  BY DEF Counted, NoReaderDuringWrite
<1>11. ReadInRange' /\ ReadersSeeStableFile'
  BY <1>10 DEF ReadInRange, ReadersSeeStableFile
<1>12. RepliesReachCaller'
  BY <1>2 DEF RepliesReachCaller
<1> QED
  BY <1>7, <1>8, <1>9, <1>11, <1>12

\* A write ends, after its last chunk or before.
LEMMA FinishPreserves ==
  ASSUME IInv, server = "write", NEW ok \in BOOLEAN, Finish(ok)
  PROVE  IInv'
<1> USE DEF IInv, Finish, Grow, Respond, clientVars
<1>1. /\ req[cur] \in Requests /\ req[cur].op = "write"
      /\ req[cur].pos \in 0 .. MaxSize /\ req[cur].len \in 0 .. MaxSize + 1
  BY CurrentRequest, RequestFacts DEF NoRequest, TypeOK, ServesCur
<1>2. pc[cur] = "receiving" /\ cur \in Clients
  BY DEF ServesCur, Busy, TypeOK
<1>3. TypeOK'
  <2>1. res' \in Responses
    BY <1>1 DEF TypeOK, Responses, WriteInRange, End
  <2>2. dirty' \in BOOLEAN
    BY Zenon DEF TypeOK
  <2>3. size' \in 0 .. MaxSize
    BY DEF TypeOK
  <2> QED
    BY <2>1, <2>2, <2>3 DEF TypeOK
<1>4. ServesCur' /\ RequestsMatch' /\ Counted' /\ NoReaderDuringWrite' /\ WriteInRange'
  BY <1>2 DEF ServesCur, Busy, RequestsMatch, Counted, NoReaderDuringWrite, WriteInRange
<1>5. \A c \in Clients : pc[c] # "awaiting"
  BY DEF Counted, NoReaderDuringWrite
<1>6. ReadInRange' /\ ReadersSeeStableFile'
  BY <1>5 DEF ReadInRange, ReadersSeeStableFile
<1>7. RepliesReachCaller'
  BY <1>1, <1>2 DEF RepliesReachCaller
<1> QED
  BY <1>3, <1>4, <1>6, <1>7

LEMMA EndClosePreserves ==
  ASSUME IInv, EndClose
  PROVE  IInv'
<1> USE DEF IInv, EndClose, Waited, Respond, clientVars, fileVars
<1>1. pc[cur] = "receiving" /\ cur \in Clients
  BY DEF ServesCur, Busy, TypeOK
<1>2. TypeOK'
  BY DEF TypeOK, Responses
<1>3. ServesCur' /\ RequestsMatch' /\ Counted' /\ NoReaderDuringWrite' /\ WriteInRange'
  BY <1>1 DEF ServesCur, Busy, RequestsMatch, Counted, NoReaderDuringWrite, WriteInRange
<1>4. ReadInRange' /\ ReadersSeeStableFile'
  BY DEF ReadInRange, ReadersSeeStableFile, Started
<1>5. RepliesReachCaller'
  BY <1>1 DEF RepliesReachCaller
<1> QED
  BY <1>2, <1>3, <1>4, <1>5

LEMMA ReplyPreserves ==
  ASSUME IInv, NEW c \in Clients, Reply(c)
  PROVE  IInv'
<1> USE DEF IInv, Reply, fileVars
<1>1. c = cur /\ res.op = req[c].op /\ \A d \in Clients : pc[d] = "receiving" => d = c
  BY DEF RepliesReachCaller
<1>2. server' \in {"loop", "closed", "panicked"}
  OBVIOUS
<1>3. req[c] # NoRequest /\ rd[c] = NoRead
  BY DEF RequestsMatch
<1>4. TypeOK'
  <2>1. res' \in Responses
    BY DEF NoResponse, Responses
  <2>2. pc' \in [Clients -> {"idle", "sending", "receiving", "awaiting"}]
    BY DEF TypeOK
  <2>3. req' \in [Clients -> Requests \cup {NoRequest}]
    BY DEF TypeOK
  <2>4. iface' \in [Clients -> {"public", "private"}]
    BY DEF TypeOK
  <2> QED
    BY <1>2, <2>1, <2>2, <2>3, <2>4 DEF TypeOK
<1>5. ServesCur' /\ NoReaderDuringWrite' /\ WriteInRange'
  BY <1>2 DEF ServesCur, Busy, NoReaderDuringWrite, WriteInRange
<1>6. RequestsMatch'
  BY <1>1, <1>3 DEF RequestsMatch, TypeOK
<1>7. Counted'
  BY <1>1 DEF Counted, TypeOK
<1>8. ReadInRange' /\ ReadersSeeStableFile'
  <2>1. ~Started(c)
    BY <1>3 DEF Started, NoRead
  <2>2. \A d \in Clients : pc'[d] = "awaiting" /\ Started(d)' =>
          /\ pc[d] = "awaiting" /\ Started(d)
          /\ req'[d] = req[d] /\ rd'[d] = rd[d]
    BY <2>1 DEF Started, TypeOK
  <2>3. size' = size /\ content' = content
    OBVIOUS
  <2> HIDE DEF Reply
  <2> QED
    BY <2>2, <2>3 DEF ReadInRange, ReadersSeeStableFile, End
<1>10. RepliesReachCaller'
  BY <1>1 DEF RepliesReachCaller, TypeOK
<1> QED
  BY <1>4, <1>5, <1>6, <1>7, <1>8, <1>10

LEMMA StartReadPreserves ==
  ASSUME IInv, NEW c \in Clients, StartRead(c)
  PROVE  IInv'
<1> USE DEF IInv, StartRead, fileVars
<1>1. /\ req[c] \in Requests /\ req[c].op = "read" /\ rd[c].want < 0
      /\ req[c].pos \in 0 .. MaxSize /\ req[c].len \in 0 .. MaxSize + 1
  BY CurrentRequest, RequestFacts DEF NoRequest, TypeOK, RequestsMatch, Started
<1>2. CASE req[c].pos > size
  <2> USE <1>2
  <2>1. TypeOK' /\ ServesCur' /\ RequestsMatch' /\ Counted' /\ NoReaderDuringWrite' /\ WriteInRange'
    BY DEF TypeOK, ServesCur, Busy, RequestsMatch, Counted, NoReaderDuringWrite, WriteInRange
  <2>2. ReadInRange' /\ ReadersSeeStableFile' /\ RepliesReachCaller'
    BY DEF ReadInRange, ReadersSeeStableFile, Started, RepliesReachCaller
  <2> QED
    BY <2>1, <2>2
<1>3. CASE ~(req[c].pos > size)
  <2> DEFINE w == IF End(req[c]) > size THEN size - req[c].pos ELSE req[c].len
  <2> USE <1>3
  <2>1. w \in 0 .. MaxSize /\ req[c].pos + w <= size
    <3>1. size \in 0 .. MaxSize
      BY DEF TypeOK
    <3> HIDE DEF IInv, StartRead
    <3>2. CASE End(req[c]) > size
      BY <1>1, <3>1, <3>2 DEF End
    <3>3. CASE ~(End(req[c]) > size)
      BY <1>1, <3>1, <3>3 DEF End
    <3> QED
      BY <3>2, <3>3
  <2>2. rd' = [rd EXCEPT ![c] = [want |-> w, got |-> 0, data |-> NoBytes]]
    OBVIOUS
  <2> HIDE DEF w
  <2>3. TypeOK'
    <3>1. w \in -1 .. MaxSize
      BY <2>1
    <3>2. rd' \in [Clients -> ReadStates]
      BY <2>2, <3>1, NoBytesType DEF TypeOK, ReadStates
    <3> QED
      BY <3>2 DEF TypeOK, ReadStates
  <2>4. ServesCur' /\ RequestsMatch' /\ Counted' /\ NoReaderDuringWrite' /\ WriteInRange'
    BY <2>2 DEF TypeOK, ServesCur, Busy, RequestsMatch, Counted, NoReaderDuringWrite, WriteInRange
  <2>5. \A f : NoBytes = [i \in 0 .. 0 - 1 |-> f[req[c].pos + i]]
    BY DEF NoBytes
  <2>6. ReadersSeeStableFile'
    <3>1. rd'[c] = [want |-> w, got |-> 0, data |-> NoBytes] /\ \A d \in Clients : d # c => rd'[d] = rd[d]
      BY <2>2 DEF TypeOK
    <3>2. UNCHANGED <<size, content, pc, req>>
      OBVIOUS
    <3> HIDE DEF IInv, StartRead
    <3> SUFFICES ASSUME NEW d \in Clients, pc[d] = "awaiting", Started(d)'
                 PROVE  /\ rd'[d].want = IF End(req[d]) > size THEN size - req[d].pos ELSE req[d].len
                        /\ rd'[d].data = [i \in 0 .. rd'[d].got - 1 |-> content[req[d].pos + i]]
      BY <3>2 DEF ReadersSeeStableFile, End
    <3>3. CASE d = c
      BY <2>5, <3>1, <3>3 DEF w
    <3>4. CASE d # c
      <4>1. ReadersSeeStableFile
        BY DEF IInv
      <4> QED
        BY <3>1, <3>4, <4>1 DEF ReadersSeeStableFile, Started
    <3> QED
      BY <3>3, <3>4
  <2>7. ReadInRange'
    BY <1>1, <2>1, <2>2, <2>5 DEF ReadInRange, Started, TypeOK, NoRead
  <2>8. RepliesReachCaller'
    BY DEF RepliesReachCaller
  <2> QED
    BY <2>3, <2>4, <2>6, <2>7, <2>8
<1> QED
  BY <1>2, <1>3

LEMMA EndReadPreserves ==
  ASSUME IInv, NEW c \in Clients, EndRead(c)
  PROVE  IInv'
<1> USE DEF IInv, EndRead, Done, fileVars, serverVars
<1>1. cur # c \/ ~Busy
  BY DEF ServesCur
<1>2. TypeOK'
  <2>1. NoRead \in ReadStates
    BY NoReadType
  <2> QED
    BY <2>1 DEF TypeOK, ReadStates
<1>3. ServesCur' /\ WriteInRange'
  BY <1>1 DEF ServesCur, Busy, TypeOK, WriteInRange
<1>4. RequestsMatch' /\ Counted' /\ NoReaderDuringWrite'
  BY DEF RequestsMatch, Counted, NoReaderDuringWrite, TypeOK
<1>5. ReadInRange' /\ ReadersSeeStableFile'
  <2>1. \A d \in Clients : pc'[d] = "awaiting" =>
          /\ pc[d] = "awaiting" /\ (Started(d)' <=> Started(d))
          /\ req'[d] = req[d] /\ rd'[d] = rd[d]
    BY DEF Started, TypeOK
  <2>2. size' = size /\ content' = content
    OBVIOUS
  <2> HIDE DEF EndRead
  <2> QED
    BY <2>1, <2>2 DEF ReadInRange, ReadersSeeStableFile, End
<1>6. RepliesReachCaller'
  BY DEF RepliesReachCaller, TypeOK
<1> QED
  BY <1>2, <1>3, <1>4, <1>5, <1>6
LEMMA ReadChunkPreserves ==
  ASSUME IInv, NEW c \in Clients, ReadChunk(c)
  PROVE  IInv'
<1> USE DEF IInv
<1> DEFINE from == req[c].pos
           got == rd[c].got
           n == Chunk(from + got, rd[c].want - got)
           data == [i \in 0 .. (got + n) - 1 |-> IF i < got THEN rd[c].data[i] ELSE content[from + i]]
<1>1. /\ pc[c] = "awaiting" /\ Started(c) /\ got < rd[c].want
      /\ rd' = [rd EXCEPT ![c] = [want |-> rd[c].want, got |-> got + n, data |-> data]]
      /\ UNCHANGED <<fileVars, waitGroup, pc, req, iface, serverVars>>
  BY DEF ReadChunk
<1>2. from \in 0 .. MaxSize
  BY <1>1, CurrentRequest, RequestFacts DEF NoRequest, RequestsMatch, TypeOK
<1>3. got \in 0 .. MaxSize /\ rd[c].want \in 0 .. MaxSize /\ size \in 0 .. MaxSize
  BY <1>1 DEF TypeOK, Started
<1>4. from + rd[c].want <= size
  BY <1>1 DEF ReadInRange
<1>5. n \in 1 .. rd[c].want - got
  <2>1. from + got \in Nat /\ rd[c].want - got \in Nat \ {0}
    BY <1>1, <1>2, <1>3
  <2> QED
    BY <2>1, ChunkSize
<1>6. rd[c].data = [i \in 0 .. got - 1 |-> content[from + i]]
  BY <1>1 DEF ReadersSeeStableFile
<1> HIDE DEF n
<1>7. data = [i \in 0 .. (got + n) - 1 |-> content[from + i]]
  <2>1. \A i \in 0 .. (got + n) - 1 : i < got => i \in 0 .. got - 1
    BY <1>3, <1>5
  <2> QED
    BY <1>6, <2>1
<1> HIDE DEF data
<1>8. TypeOK'
  <2>1. \A i \in 0 .. (got + n) - 1 : from + i \in Places
    BY <1>2, <1>3, <1>4, <1>5 DEF Places
  <2>2. got + n \in 0 .. MaxSize
    BY <1>3, <1>5
  <2>3. data \in [0 .. (got + n) - 1 -> Values]
    <3>1. content \in [Places -> Values]
      BY DEF TypeOK
    <3>2. \A i \in 0 .. (got + n) - 1 : content[from + i] \in Values
      BY <2>1, <3>1
    <3>3. [i \in 0 .. (got + n) - 1 |-> content[from + i]] \in [0 .. (got + n) - 1 -> Values]
      BY <3>2
    <3> QED
      BY <1>7, <3>3, Zenon
  <2>4. data \in UNION {[0 .. k - 1 -> Values] : k \in 0 .. MaxSize}
    BY <2>2, <2>3
  <2>5. rd' \in [Clients -> [want : -1 .. MaxSize, got : 0 .. MaxSize,
                            data : UNION {[0 .. k - 1 -> Values] : k \in 0 .. MaxSize}]]
    BY <1>1, <1>3, <2>2, <2>4 DEF TypeOK
  <2> QED
    BY <1>1, <2>5 DEF TypeOK, fileVars, serverVars
<1>9. ServesCur' /\ RequestsMatch' /\ Counted' /\ NoReaderDuringWrite' /\ WriteInRange'
  BY <1>1 DEF ServesCur, Busy, RequestsMatch, Counted, NoReaderDuringWrite, WriteInRange,
              TypeOK, fileVars, serverVars
<1>10. rd'[c] = [want |-> rd[c].want, got |-> got + n, data |-> data]
  BY <1>1 DEF TypeOK
<1>11. \A d \in Clients : d # c => rd'[d] = rd[d]
  BY <1>1 DEF TypeOK
<1>12. ReadInRange'
  <2>1. got + n <= rd[c].want
    BY <1>3, <1>5
  <2> QED
    BY <1>1, <1>4, <1>10, <1>11, <2>1 DEF ReadInRange, Started, fileVars
<1>13. ReadersSeeStableFile'
  <2>1. ASSUME NEW d \in Clients, pc'[d] = "awaiting", Started(d)'
        PROVE  /\ rd'[d].want = IF End(req[d]) > size THEN size - req[d].pos ELSE req[d].len
               /\ rd'[d].data = [i \in 0 .. rd'[d].got - 1 |-> content[req[d].pos + i]]
    <3>1. CASE d = c
      <4>1. rd[c].want = IF End(req[c]) > size THEN size - req[c].pos ELSE req[c].len
        BY <1>1 DEF ReadersSeeStableFile
      <4>2. rd'[c].want = rd[c].want /\ rd'[c].got = got + n /\ rd'[c].data = data
        BY <1>10
      <4>3. rd'[c].data = [i \in 0 .. rd'[c].got - 1 |-> content[req[c].pos + i]]
        BY <1>7, <4>2, Zenon
      <4> QED
        BY <3>1, <4>1, <4>2, <4>3, Zenon
    <3>2. CASE d # c
      BY <1>1, <1>11, <2>1, <3>2 DEF ReadersSeeStableFile, Started
    <3> QED
      BY <3>1, <3>2
  <2>2. UNCHANGED <<size, content, req>>
    BY <1>1 DEF fileVars
  <2> QED
    BY <2>1, <2>2 DEF ReadersSeeStableFile, End
<1>14. RepliesReachCaller'
  BY <1>1 DEF RepliesReachCaller, serverVars
<1> QED
  BY <1>8, <1>9, <1>12, <1>13, <1>14

LEMMA StutterPreserves == ASSUME IInv, UNCHANGED vars PROVE IInv'
<1>1. UNCHANGED <<content, size, dirty, before>>
      /\ UNCHANGED <<locked, server, cur, position, res>>
      /\ UNCHANGED <<waitGroup, pc, req, iface, rd>>
  BY DEF vars, fileVars, serverVars, clientVars
<1>2. TypeOK'
  BY <1>1 DEF IInv, TypeOK
<1>3. ServesCur' /\ RequestsMatch' /\ Counted'
  BY <1>1 DEF IInv, ServesCur, Busy, RequestsMatch, Counted
<1>4. NoReaderDuringWrite' /\ WriteInRange'
  BY <1>1 DEF IInv, NoReaderDuringWrite, WriteInRange
<1>5. ReadInRange' /\ ReadersSeeStableFile'
  BY <1>1 DEF IInv, ReadInRange, ReadersSeeStableFile, Started, End
<1>6. RepliesReachCaller'
  BY <1>1 DEF IInv, RepliesReachCaller
<1> QED
  BY <1>2, <1>3, <1>4, <1>5, <1>6 DEF IInv

LEMMA NextPreserves ==
  ASSUME IInv, [Next]_vars
  PROVE  IInv'
<1>1. CASE UNCHANGED vars
  BY <1>1, StutterPreserves
<1>2. CASE Work
  <2>1. CASE StartWrite
    BY <2>1, StartWritePreserves
  <2>2. CASE WriteChunk
    BY <2>2, WriteChunkPreserves
  <2>3. CASE EndWrite \/ ChunkFails
    BY <2>3, FinishPreserves DEF EndWrite, ChunkFails
  <2>4. CASE EndClose
    BY <2>4, EndClosePreserves
  <2> QED
    BY <1>2, <2>1, <2>2, <2>3, <2>4 DEF Work
<1>3. ASSUME NEW c \in Clients, NEW r \in Requests, Call(c, r) PROVE IInv'
  BY <1>3, CallPreserves
<1>4. ASSUME NEW c \in Clients, Serve(c) PROVE IInv'
  BY <1>4, ReadRequestPreserves, WaitRequestPreserves, LockRequestPreserves,
     UnlockRequestPreserves DEF Serve
<1>5. ASSUME NEW c \in Clients, Reply(c) PROVE IInv'
  BY <1>5, ReplyPreserves
<1>6. ASSUME NEW c \in Clients, Goroutine(c) PROVE IInv'
  BY <1>6, StartReadPreserves, ReadChunkPreserves, EndReadPreserves DEF Goroutine
<1> QED
  BY <1>1, <1>2, <1>3, <1>4, <1>5, <1>6 DEF Next

\* IInv holds in every reachable state.
LEMMA Invariance == Spec => []IInv
<1>1. IInv /\ [Next]_vars => IInv'
  BY NextPreserves
<1> QED
  BY InitEstablishes, <1>1, PTL DEF Spec

\* Every variable of the file server keeps its type.
THEOREM TypeCorrectness == Spec => []TypeOK
<1>1. IInv => TypeOK
  BY DEF IInv
<1> QED
  BY <1>1, Invariance, PTL

\* What a read has copied is the file as it is now: writes wait for the reads
\* that were counted before them.
THEOREM StableReads == Spec => []ReadersSeeStableFile
<1>1. IInv => ReadersSeeStableFile
  BY DEF IInv
<1> QED
  BY <1>1, Invariance, PTL

\* The replies of the server reach the client that they are for.
THEOREM ServerSound == Spec => []RepliesReachCaller
<1>1. IInv => RepliesReachCaller
  BY DEF IInv
<1> QED
  BY <1>1, Invariance, PTL
-----------------------------------------------------------------------------
(* The refinement. *)

\* Writes start inside the file or at its end, which never moves back.
NoHoles == \A c \in Clients : req[c].op = "write" => req[c].pos <= size

\* Halfway through a write: the bytes that it has stored so far are new, and
\* those of the file before it are as they were.
Halfway ==
  server = "write" =>
    /\ before = [i \in 0 .. size - 1 |-> before[i]]
    /\ \A i \in Places :
         LET r == req[cur] IN
         /\ r.pos <= i /\ i < position => content[i] = r.val
         /\ i < size /\ ~(r.pos <= i /\ i < position) => content[i] = before[i]

\* A write is answered before the next request is taken.
NoReaderBeforeReply ==
  server = "reply" /\ res.op = "write" => waitGroup = {}

RInv == NoHoles /\ Halfway /\ NoReaderBeforeReply

\* The state of client d's call in the atomic file does not change.
Same(d) == StageOf(d)' = StageOf(d) /\ AskOf(d)' = AskOf(d) /\ AnswerOf(d)' = AnswerOf(d)

LEMMA AllSame ==
  ASSUME \A d \in Clients : Same(d)
  PROVE  UNCHANGED <<Stages, Asks, Answers>>
BY DEF Same, Stages, Asks, Answers

LEMMA OthersSame ==
  ASSUME NEW c \in Clients, \A d \in Clients \ {c} : Same(d)
  PROVE  /\ Stages' = [Stages EXCEPT ![c] = StageOf(c)']
         /\ Asks' = [Asks EXCEPT ![c] = AskOf(c)']
         /\ Answers' = [Answers EXCEPT ![c] = AnswerOf(c)']
BY DEF Same, Stages, Asks, Answers

\* A client that a step leaves alone.
LEMMA Untouched ==
  ASSUME IInv, NEW d \in Clients, pc'[d] = pc[d], req'[d] = req[d], rd'[d] = rd[d],
         pc[d] = "receiving" => server' = server /\ res' = res
  PROVE  Same(d)
<1>1. (InFile(d)' <=> InFile(d)) /\ (Started(d)' <=> Started(d))
  BY DEF InFile, Started
<1>2. CASE pc[d] = "receiving"
  <2>1. (Answered(d)' <=> Answered(d)) /\ res' = res
    BY <1>1, <1>2 DEF Answered
  <2> QED
    BY <1>1, <2>1 DEF Same, StageOf, AskOf, AnswerOf, NoAnswer, NoRequest
<1>3. CASE pc[d] # "receiving"
  <2>1. Answered(d)' <=> Answered(d)
    BY <1>1, <1>3 DEF Answered
  <2>2. Answered(d) => req[d].op = "read"
    BY <1>3 DEF Answered, IInv, RequestsMatch
  <2> QED
    BY <1>1, <2>1, <2>2 DEF Same, StageOf, AskOf, AnswerOf, NoAnswer, NoRequest
<1> QED
  BY <1>2, <1>3

\* A client whose call is not answered, before and after.
LEMMA StillAsked ==
  ASSUME NEW d \in Clients, req'[d] = req[d], ~Answered(d), ~Answered(d)'
  PROVE  Same(d)
<1>1. InFile(d)' <=> InFile(d)
  BY DEF InFile
<1> QED
  BY <1>1 DEF Same, StageOf, AskOf, AnswerOf, NoAnswer, NoRequest

LEMMA SameBytes ==
  ASSUME UNCHANGED <<content, size, before>>, server' = "write" <=> server = "write"
  PROVE  UNCHANGED <<size, FileBytes>>
BY DEF FileBytes, Bytes

\* A step that the atomic file does not see.
LEMMA Stutter ==
  ASSUME \A d \in Clients : Same(d), UNCHANGED <<size, FileBytes>>
  PROVE  [A!Next]_A!vars
BY AllSame DEF A!vars
-----------------------------------------------------------------------------
(* One lemma per action. *)

LEMMA RequestMaps ==
  ASSUME IInv, NEW c \in Clients, NEW op, Receive(c, op), rd' = rd, server' # "write",
         server' = "reply" => res'.op # "write"
  PROVE  [A!Next]_A!vars
<1>1. server = "loop" /\ pc[c] = "sending" /\ pc' = [pc EXCEPT ![c] = "receiving"]
      /\ UNCHANGED <<content, size, before, req>>
  BY DEF Receive, fileVars
<1>2. \A d \in Clients : pc[d] # "receiving"
  BY <1>1 DEF IInv, RepliesReachCaller
<1>3. pc'[c] = "receiving" /\ \A d \in Clients \ {c} : pc'[d] = pc[d]
  BY <1>1 DEF IInv, TypeOK
<1>4. ~Answered(c) /\ ~Answered(c)'
  BY <1>1, <1>3 DEF Answered
<1>5. Same(c)
  BY <1>1, <1>4, StillAsked
<1>6. \A d \in Clients \ {c} : Same(d)
  BY <1>1, <1>2, <1>3, Untouched
<1>7. UNCHANGED <<size, FileBytes>>
  BY <1>1, SameBytes
<1> QED
  BY <1>5, <1>6, <1>7, Stutter

LEMMA ServeMaps ==
  ASSUME IInv, NEW c \in Clients, Serve(c)
  PROVE  [A!Next]_A!vars
<1>1. CASE ReadRequest(c)
  BY <1>1, RequestMaps DEF ReadRequest, Respond
<1>2. CASE WaitRequest(c)
  BY <1>2, RequestMaps DEF WaitRequest
<1>3. CASE LockRequest(c)
  BY <1>3, RequestMaps DEF LockRequest, Respond
<1>4. CASE UnlockRequest(c)
  BY <1>4, RequestMaps DEF UnlockRequest, Respond
<1> QED
  BY <1>1, <1>2, <1>3, <1>4 DEF Serve

LEMMA CallMaps ==
  ASSUME IInv, NEW c \in Clients, NEW r \in Requests, Call(c, r)
  PROVE  [A!Next]_A!vars
<1>1. /\ pc[c] = "idle" /\ pc' = [pc EXCEPT ![c] = "sending"] /\ req' = [req EXCEPT ![c] = r]
      /\ UNCHANGED <<content, size, before, rd, server, res>>
  BY DEF Call, fileVars, serverVars
<1>2. /\ pc'[c] = "sending" /\ req'[c] = r /\ req[c] = NoRequest
      /\ \A d \in Clients \ {c} : pc'[d] = pc[d] /\ req'[d] = req[d]
  BY <1>1 DEF IInv, TypeOK, RequestsMatch
<1>3. UNCHANGED <<size, FileBytes>>
  BY <1>1, SameBytes
<1>4. \A d \in Clients \ {c} : Same(d)
  BY <1>1, <1>2, Untouched
<1>5. /\ StageOf(c) = "idle" /\ AskOf(c) = NoRequest /\ AnswerOf(c) = NoAnswer
      /\ AnswerOf(c)' = NoAnswer
      /\ ~Answered(c)'
  BY <1>1, <1>2 DEF StageOf, AskOf, AnswerOf, InFile, NoRequest, Answered, NoAnswer
<1>6. CASE r.op \in {"read", "write"}
  <2>1. StageOf(c)' = "asked" /\ AskOf(c)' = r
    BY <1>2, <1>5, <1>6 DEF StageOf, AskOf, InFile
  <2>2. r \in A!Calls
    <3>1. [pos : 0 .. MaxSize, len : 1 .. MaxSize + 1] \subseteq A!AllSpans
      BY DEF A!AllSpans
    <3>2. Spans \subseteq A!AllSpans
      BY <3>1
    <3> QED
      BY <1>6, <3>2 DEF Requests, Reads, Writes, A!Calls
  <2>3. A!Ask(c, r)
    <3>1. Stages[c] = "idle" /\ Stages' = [Stages EXCEPT ![c] = "asked"]
      BY <1>4, <1>5, <2>1, OthersSame DEF Stages
    <3>2. Asks' = [Asks EXCEPT ![c] = r]
      BY <1>4, <2>1, OthersSame
    <3>3. Answers' = Answers
      BY <1>4, <1>5, OthersSame DEF Answers
    <3> QED
      BY <1>3, <1>6, <3>1, <3>2, <3>3 DEF A!Ask
  <2> QED
    BY <2>2, <2>3 DEF A!Next
<1>7. CASE r.op \notin {"read", "write"}
  <2>1. Same(c)
    BY <1>2, <1>5, <1>7 DEF Same, StageOf, AskOf, InFile
  <2> QED
    BY <1>3, <1>4, <2>1, Stutter
<1> QED
  BY <1>6, <1>7

LEMMA ReturnMaps ==
  ASSUME NEW c \in Clients, StageOf(c) = "answered", req'[c] = NoRequest,
         \A d \in Clients \ {c} : Same(d), UNCHANGED <<size, FileBytes>>
  PROVE  A!Next
<1>1. /\ StageOf(c)' = "idle" /\ AskOf(c)' = A!NoCall /\ AnswerOf(c)' = A!NoAnswer
  BY DEF StageOf, AskOf, AnswerOf, InFile, NoRequest, A!NoCall, NoAnswer, A!NoAnswer
<1>2. A!Return(c)
  BY <1>1, OthersSame DEF A!Return, Stages
<1> QED
  BY <1>2 DEF A!Next

LEMMA ReplyMaps ==
  ASSUME IInv, NEW c \in Clients, Reply(c)
  PROVE  [A!Next]_A!vars
<1>1. /\ server = "reply" /\ pc[c] = "receiving" /\ UNCHANGED <<content, size, before, rd>>
      /\ server' \in {"loop", "closed", "panicked"}
      /\ \/ /\ res.op = "read" /\ pc' = [pc EXCEPT ![c] = "awaiting"] /\ req' = req
         \/ /\ res.op # "read" /\ pc' = [pc EXCEPT ![c] = "idle"]
            /\ req' = [req EXCEPT ![c] = NoRequest]
  BY DEF Reply, fileVars
<1>2. c = cur /\ res.op = req[c].op /\ \A d \in Clients \ {c} : pc[d] # "receiving"
  BY <1>1 DEF IInv, RepliesReachCaller
<1>3. \A d \in Clients \ {c} : pc'[d] = pc[d] /\ req'[d] = req[d]
  BY <1>1 DEF IInv, TypeOK
<1>4. \A d \in Clients \ {c} : Same(d)
  BY <1>1, <1>2, <1>3, Untouched
<1>5. UNCHANGED <<size, FileBytes>>
  BY <1>1, SameBytes
<1>6. CASE res.op = "read"
  <2>1. req'[c] = req[c] /\ pc'[c] = "awaiting"
    BY <1>1, <1>6 DEF IInv, TypeOK
  <2>2. ~Started(c)'
    BY <1>1 DEF IInv, RequestsMatch, Started, NoRead
  <2>3. ~Answered(c) /\ ~Answered(c)'
    BY <1>1, <1>6, <2>1, <2>2 DEF Answered
  <2> QED
    BY <1>4, <1>5, <2>1, <2>3, StillAsked, Stutter
<1>7. CASE res.op = "write"
  <2>1. StageOf(c) = "answered" /\ req'[c] = NoRequest
    BY <1>1, <1>2, <1>7 DEF StageOf, InFile, Answered, IInv, TypeOK
  <2> QED
    BY <1>4, <1>5, <2>1, ReturnMaps
<1>8. CASE res.op \notin {"read", "write"}
  <2>1. req'[c] = NoRequest
    BY <1>1, <1>8 DEF IInv, TypeOK
  <2>2. Same(c)
    BY <1>2, <1>8, <2>1 DEF Same, StageOf, AskOf, AnswerOf, InFile, NoRequest, NoAnswer
  <2> QED
    BY <1>4, <1>5, <2>2, Stutter
<1> QED
  BY <1>6, <1>7, <1>8

LEMMA EndReadMaps ==
  ASSUME IInv, NEW c \in Clients, EndRead(c)
  PROVE  A!Next
<1>1. /\ pc[c] = "awaiting" /\ Started(c) /\ rd[c].got = rd[c].want
      /\ pc' = [pc EXCEPT ![c] = "idle"] /\ req' = [req EXCEPT ![c] = NoRequest]
      /\ rd' = [rd EXCEPT ![c] = NoRead]
      /\ UNCHANGED <<content, size, before, server, res>>
  BY DEF EndRead, fileVars, serverVars
<1>2. req'[c] = NoRequest /\ \A d \in Clients \ {c} :
         pc'[d] = pc[d] /\ req'[d] = req[d] /\ rd'[d] = rd[d]
  BY <1>1 DEF IInv, TypeOK
<1>3. \A d \in Clients \ {c} : Same(d)
  BY <1>1, <1>2, Untouched
<1>4. StageOf(c) = "answered"
  BY <1>1 DEF StageOf, InFile, Answered, IInv, RequestsMatch
<1>5. UNCHANGED <<size, FileBytes>>
  BY <1>1, SameBytes
<1> QED
  BY <1>2, <1>3, <1>4, <1>5, ReturnMaps
\* A step of the read goroutine: it takes effect in the atomic file when the
\* last chunk is copied.
LEMMA ReadMaps ==
  ASSUME IInv, IInv', NEW c \in Clients,
         (StartRead(c) /\ req[c].pos <= size) \/ ReadChunk(c)
  PROVE  [A!Next]_A!vars
<1>1. /\ pc[c] = "awaiting" /\ UNCHANGED <<content, size, before, pc, req, server, res>>
      /\ ~Answered(c)
      /\ Started(c)'
      /\ \A d \in Clients \ {c} : rd'[d] = rd[d]
  <2>1. CASE StartRead(c) /\ req[c].pos <= size
    <3>1. /\ pc[c] = "awaiting" /\ ~Started(c) /\ UNCHANGED <<content, size, before, pc, req, res>>
          /\ ~(req[c].pos > size)
      <4>1. pc[c] = "awaiting" /\ ~Started(c) /\ UNCHANGED <<content, size, before, pc, req, res>>
        BY <2>1 DEF StartRead, fileVars
      <4>2. req[c] # NoRequest
        BY <4>1 DEF IInv, RequestsMatch
      <4>3. req[c] \in Requests
        BY <4>2, CurrentRequest DEF IInv
      <4>4. req[c].pos \in Int
        BY <4>3, RequestFacts, SizeAssumption DEF SizeAssumption
      <4>5. size \in Int
        BY SizeAssumption DEF SizeAssumption, IInv, TypeOK
      <4> QED
        BY <2>1, <4>1, <4>4, <4>5
    <3>2. /\ rd' = [rd EXCEPT ![c] = [want |-> IF End(req[c]) > size THEN size - req[c].pos ELSE req[c].len,
                                     got |-> 0, data |-> NoBytes]]
          /\ server' = server
      BY <2>1, <3>1 DEF StartRead
    <3>3. ~Answered(c)
      BY <3>1 DEF Answered
    <3>4. req[c].pos \in 0 .. MaxSize /\ req[c].len \in 0 .. MaxSize + 1 /\ size \in 0 .. MaxSize
      BY <3>1, CurrentRequest, RequestFacts DEF IInv, TypeOK, RequestsMatch, NoRequest
    <3>5. Started(c)'
      <4>1. rd \in [Clients -> [want : -1 .. MaxSize, got : 0 .. MaxSize,
                                data : UNION {[0 .. n - 1 -> Values] : n \in 0 .. MaxSize}]]
        BY DEF IInv, TypeOK
      <4>2. rd'[c].want = IF End(req[c]) > size THEN size - req[c].pos ELSE req[c].len
        BY <3>2, <4>1
      <4>3. size - req[c].pos \in Nat /\ req[c].len \in Nat
        BY <3>1, <3>4, SizeAssumption DEF SizeAssumption
      <4> QED
        BY <4>2, <4>3 DEF Started
    <3> QED
      BY <3>1, <3>2, <3>3, <3>5 DEF IInv, TypeOK
  <2>2. CASE ReadChunk(c)
    <3>1. /\ pc[c] = "awaiting" /\ Started(c) /\ rd[c].got < rd[c].want
          /\ UNCHANGED <<content, size, before, pc, req, server, res>>
      BY <2>2 DEF ReadChunk, fileVars, serverVars
    <3>2. ~Answered(c)
      <4>1. rd[c].got \in 0 .. MaxSize /\ rd[c].want \in -1 .. MaxSize
        BY DEF IInv, TypeOK
      <4>2. rd[c].got # rd[c].want
        BY <3>1, <4>1
      <4> QED
        BY <3>1, <4>2 DEF Answered
    <3>3. rd'[c].want = rd[c].want /\ \A d \in Clients \ {c} : rd'[d] = rd[d]
      BY <2>2 DEF ReadChunk, IInv, TypeOK
    <3> QED
      BY <3>1, <3>2, <3>3 DEF Started
  <2> QED
    BY <2>1, <2>2
<1>2. \A d \in Clients \ {c} : Same(d)
  BY <1>1, Untouched
<1>3. UNCHANGED <<size, FileBytes>>
  BY <1>1, SameBytes
<1>4. CASE ~Answered(c)'
  BY <1>1, <1>2, <1>3, <1>4, StillAsked, Stutter
<1>5. CASE Answered(c)'
  <2>1. req[c].op = "read" /\ req'[c] = req[c] /\ pc'[c] = "awaiting"
    BY <1>1 DEF IInv, RequestsMatch
  <2>2. rd'[c].got = rd'[c].want
    BY <1>5, <2>1 DEF Answered
  <2>3. c \in waitGroup
    BY <1>1 DEF IInv, Counted
  <2>4. FileBytes = Bytes
    BY <2>3 DEF FileBytes, IInv, NoReaderDuringWrite
  <2> DEFINE n == A!Available(req[c].pos, req[c].len)
  <2>5. rd'[c].want = IF End(req[c]) > size THEN size - req[c].pos ELSE req[c].len
    BY <1>1, <2>1 DEF IInv, ReadersSeeStableFile, End
  <2>6. rd'[c].data = [i \in 0 .. rd'[c].got - 1 |-> content[req[c].pos + i]]
    BY <1>1, <2>1 DEF IInv, ReadersSeeStableFile
  <2>7. /\ req[c].pos \in 0 .. MaxSize /\ req[c].len \in 0 .. MaxSize + 1 /\ size \in 0 .. MaxSize
        /\ rd'[c].want \in 0 .. MaxSize /\ req[c].pos + rd'[c].want <= size
    <3>1. req[c].pos \in 0 .. MaxSize /\ req[c].len \in 0 .. MaxSize + 1 /\ size \in 0 .. MaxSize
      BY <2>1, CurrentRequest, RequestFacts DEF IInv, TypeOK, RequestsMatch, NoRequest
    <3>2. req[c].pos + rd'[c].want <= size /\ rd'[c].want >= 0
      BY <1>1, <2>1 DEF IInv, ReadInRange, Started
    <3>3. rd'[c].want \in -1 .. MaxSize
      BY DEF IInv, TypeOK
    <3> QED
      BY <3>1, <3>2, <3>3
  <2>8. n = rd'[c].want
    BY <2>5, <2>7 DEF A!Available, End
  <2>9. rd'[c].data = [i \in 0 .. n - 1 |-> FileBytes[req[c].pos + i]]
    <3>1. \A i \in 0 .. n - 1 : req[c].pos + i \in 0 .. size - 1
      BY <2>7, <2>8
    <3>2. \A i \in 0 .. n - 1 : FileBytes[req[c].pos + i] = content[req[c].pos + i]
      BY <2>4, <3>1 DEF Bytes
    <3> HIDE DEF n
    <3>3. rd'[c].data = [i \in 0 .. n - 1 |-> content[req[c].pos + i]]
      BY <2>2, <2>6, <2>8
    <3> QED
      BY <3>2, <3>3
  <2> HIDE DEF n
  <2>10. StageOf(c) = "asked" /\ StageOf(c)' = "answered" /\ AskOf(c) = req[c] /\ AskOf(c)' = req[c]
    BY <1>1, <1>5, <2>1 DEF StageOf, AskOf, InFile
  <2>11. AnswerOf(c)' = [ok |-> TRUE, n |-> n, data |-> [i \in 0 .. n - 1 |-> FileBytes[req[c].pos + i]]]
    BY <1>5, <2>1, <2>8, <2>9 DEF AnswerOf, InFile
  <2>12. /\ Stages[c] = "asked" /\ Stages' = [Stages EXCEPT ![c] = "answered"]
         /\ Asks[c] = req[c] /\ Asks' = Asks
         /\ Answers' = [Answers EXCEPT ![c] =
              [ok |-> TRUE, n |-> n, data |-> [i \in 0 .. n - 1 |-> FileBytes[req[c].pos + i]]]]
    BY <1>2, <2>10, <2>11, OthersSame DEF Stages, Asks
  <2>13. A!Read(c)
    BY <1>3, <2>1, <2>12 DEF A!Read, A!Answer, n
  <2> QED
    BY <2>13 DEF A!Next
<1> QED
  BY <1>4, <1>5

\* A read past the end takes the program down; the file and the calls are as
\* they were.
LEMMA PanicMaps ==
  ASSUME IInv, RInv, NEW c \in Clients, StartRead(c), ~(req[c].pos <= size)
  PROVE  [A!Next]_A!vars
<1>1. c \in waitGroup
  BY DEF StartRead, IInv, Counted
<1>2. server # "write" /\ ~(server = "reply" /\ res.op = "write")
  BY <1>1 DEF IInv, NoReaderDuringWrite, RInv, NoReaderBeforeReply
<1>3. req[c].pos > size
  BY CurrentRequest, RequestFacts DEF IInv, TypeOK, RequestsMatch, NoRequest, StartRead
<1>4. server' = "panicked" /\ UNCHANGED <<content, size, before, pc, req, rd, res>>
  BY <1>3 DEF StartRead, fileVars
<1>5. \A d \in Clients : Answered(d)' <=> Answered(d)
  BY <1>2, <1>4 DEF Answered, Started
<1>6. \A d \in Clients : Answered(d) => req[d].op = "read"
  BY <1>2 DEF Answered, IInv, RequestsMatch
<1>7. \A d \in Clients : Same(d)
  BY <1>4, <1>5, <1>6 DEF Same, StageOf, AskOf, AnswerOf, InFile, NoRequest, NoAnswer
<1>8. UNCHANGED <<size, FileBytes>>
  BY <1>2, <1>4, SameBytes
<1> QED
  BY <1>7, <1>8, Stutter

LEMMA InitMaps == Init => A!Init
<1> SUFFICES ASSUME Init PROVE A!Init
  OBVIOUS
<1>1. FileBytes = [i \in 0 .. size - 1 |-> content[i]]
  BY DEF Init, FileBytes, Bytes
<1>2. FileBytes \in [0 .. size - 1 -> Values]
  BY <1>1 DEF Init, Places
<1>3. \A c \in Clients : StageOf(c) = "idle" /\ AskOf(c) = A!NoCall /\ AnswerOf(c) = A!NoAnswer
  BY DEF Init, StageOf, AskOf, AnswerOf, InFile, NoRequest, A!NoCall, NoAnswer, A!NoAnswer
<1> QED
  BY <1>2, <1>3 DEF Init, A!Init, Stages, Asks, Answers
\* A write is answered: n bytes of it have been stored.
LEMMA WriteMaps ==
  ASSUME IInv, NEW n \in Nat,
         server \in {"wait", "write"}, req[cur].op = "write", server' = "reply",
         res' = [op |-> "write", ok |-> n = req[cur].len, n |-> n],
         UNCHANGED <<pc, req, rd, cur>>,
         n \in 0 .. MaxSize, n <= req[cur].len,
         size' = (IF n > 0 /\ req[cur].pos + n > size THEN req[cur].pos + n ELSE size),
         FileBytes' = [i \in 0 .. size' - 1 |->
                         IF i >= req[cur].pos /\ i < req[cur].pos + n
                         THEN req[cur].val ELSE FileBytes[i]]
  PROVE  A!Next
<1>1. cur \in Clients /\ pc[cur] = "receiving" /\ \A d \in Clients \ {cur} : pc[d] # "receiving"
  BY DEF IInv, TypeOK, ServesCur, Busy, RepliesReachCaller
<1>2. \A d \in Clients \ {cur} : Same(d)
  BY <1>1, Untouched
<1>3. ~Answered(cur) /\ Answered(cur)'
  BY <1>1 DEF Answered
<1>4. /\ StageOf(cur) = "asked" /\ AskOf(cur) = req[cur]
      /\ StageOf(cur)' = "answered" /\ AskOf(cur)' = req[cur]
      /\ AnswerOf(cur)' = [ok |-> n = req[cur].len, n |-> n, data |-> <<>>]
  BY <1>3 DEF StageOf, AskOf, AnswerOf, InFile
<1>5. /\ Stages[cur] = "asked" /\ Stages' = [Stages EXCEPT ![cur] = "answered"]
      /\ Asks[cur] = req[cur] /\ Asks' = Asks
      /\ Answers' = [Answers EXCEPT ![cur] = [ok |-> n = req[cur].len, n |-> n, data |-> <<>>]]
  BY <1>1, <1>2, <1>4, OthersSame DEF Stages, Asks
<1>6. A!Write(cur, n)
  BY <1>5 DEF A!Write, A!Answer
<1> QED
  BY <1>1, <1>6 DEF A!Next

LEMMA FinishMaps ==
  ASSUME IInv, RInv, server = "write", NEW ok \in BOOLEAN, Finish(ok),
         ok <=> position = End(req[cur])
  PROVE  A!Next
<1> DEFINE r == req[cur]
           n == position - r.pos
<1>1. /\ cur \in Clients /\ r.op = "write" /\ r.pos \in 0 .. MaxSize /\ r.len \in 0 .. MaxSize + 1
      /\ size \in 0 .. MaxSize /\ position \in 0 .. MaxSize
      /\ r.pos <= position /\ position <= r.pos + r.len /\ r.pos <= size
  BY CurrentRequest, RequestFacts DEF IInv, TypeOK, ServesCur, WriteInRange, End, RInv, NoHoles, NoRequest
<1>2. n \in 0 .. MaxSize /\ n <= r.len /\ n \in Nat /\ r.pos + n = position
  BY <1>1
<1>3. ok = (n = r.len)
  <2>1. position = End(r) <=> n = r.len
    BY <1>1 DEF End
  <2> QED
    BY <2>1
<1>4. /\ server' = "reply" /\ res' = [op |-> "write", ok |-> n = r.len, n |-> n]
      /\ UNCHANGED <<pc, req, rd, cur, content, before>>
      /\ size' = IF position > size THEN position ELSE size
  BY <1>3 DEF Finish, Grow, Respond, clientVars
<1>5. size' = IF n > 0 /\ r.pos + n > size THEN r.pos + n ELSE size
  BY <1>1, <1>2, <1>4
<1>6. FileBytes' = [i \in 0 .. size' - 1 |->
                      IF i >= r.pos /\ i < r.pos + n THEN r.val ELSE FileBytes[i]]
  <2>1. FileBytes = before
    BY DEF FileBytes
  <2>2. FileBytes' = [i \in 0 .. size' - 1 |-> content[i]]
    BY <1>4 DEF FileBytes, Bytes
  <2>3. ASSUME NEW i \in 0 .. size' - 1
        PROVE  content[i] = IF i >= r.pos /\ i < r.pos + n THEN r.val ELSE before[i]
    <3>1. i \in Places /\ i \in Nat
      BY <1>1, <1>4 DEF Places
    <3>2. i < size \/ (i >= r.pos /\ i < position)
      BY <1>1, <1>4, <3>1
    <3>3. /\ r.pos <= i /\ i < position => content[i] = r.val
          /\ i < size /\ ~(r.pos <= i /\ i < position) => content[i] = before[i]
      BY <3>1 DEF RInv, Halfway
    <3> QED
      BY <1>1, <1>2, <3>1, <3>2, <3>3
  <2> HIDE DEF n, r
  <2> QED
    BY <2>1, <2>2, <2>3
<1> HIDE DEF n
<1> QED
  BY <1>1, <1>2, <1>4, <1>5, <1>6, WriteMaps

LEMMA WorkMaps ==
  ASSUME IInv, RInv, Work
  PROVE  [A!Next]_A!vars
<1>1. cur \in Clients /\ \A d \in Clients \ {cur} : pc[d] # "receiving" \/ ~Busy
  BY DEF IInv, TypeOK, RepliesReachCaller, Busy
<1>2. ASSUME UNCHANGED <<size, FileBytes, pc, req, rd, cur>>, server \in {"wait", "write"},
             server' = "reply" => res'.op # "write"
      PROVE  [A!Next]_A!vars
  <2>1. \A d \in Clients \ {cur} : Same(d)
    BY <1>1, <1>2, Untouched DEF Busy
  <2>2. pc[cur] = "receiving"
    BY <1>2 DEF IInv, ServesCur, Busy
  <2>3. ~Answered(cur) /\ ~Answered(cur)'
    BY <1>2, <2>2 DEF Answered
  <2>4. Same(cur)
    BY <1>1, <1>2, <2>3, StillAsked
  <2> QED
    BY <1>2, <2>1, <2>4, Stutter
<1>3. CASE StartWrite
  <2>1. /\ server = "wait" /\ req[cur].op = "write"
        /\ UNCHANGED <<content, size, pc, req, rd, cur>>
    BY <1>3 DEF StartWrite, Waited, clientVars
  <2>2. /\ req[cur].pos \in 0 .. MaxSize /\ req[cur].len \in 1 .. MaxSize + 1
    <3>1. req[cur] \in Writes
      BY <1>1, <2>1, CurrentRequest DEF IInv, NoRequest, Requests, Reads
    <3>2. PICK s \in Spans, v \in Values :
            req[cur] = [op |-> "write", pos |-> s.pos, len |-> s.len, val |-> v]
      BY <3>1 DEF Writes
    <3>3. s.pos \in 0 .. MaxSize /\ s.len \in 1 .. MaxSize + 1
      OBVIOUS
    <3> QED
      BY <3>2, <3>3
  <2>3. CASE req[cur].pos > MaxSize - req[cur].len
    <3>1. /\ server' = "reply" /\ UNCHANGED before
          /\ res' = [op |-> "write", ok |-> 0 = req[cur].len, n |-> 0]
      <4>1. server' = "reply" /\ UNCHANGED before /\ res' = [op |-> "write", ok |-> FALSE, n |-> 0]
        BY <1>3, <2>3 DEF StartWrite, Respond
      <4>2. FALSE = (0 = req[cur].len)
        BY <2>2
      <4> QED
        BY <4>1, <4>2
    <3>2. FileBytes' = Bytes /\ FileBytes = Bytes
      BY <2>1, <3>1 DEF FileBytes, Bytes
    <3>3. \A i \in 0 .. size - 1 : ~(i >= req[cur].pos /\ i < req[cur].pos + 0)
      BY <2>2
    <3>4. FileBytes' = [i \in 0 .. size' - 1 |->
                          IF i >= req[cur].pos /\ i < req[cur].pos + 0
                          THEN req[cur].val ELSE FileBytes[i]]
      BY <2>1, <3>2, <3>3 DEF Bytes
    <3>5. size' = IF 0 > 0 /\ req[cur].pos + 0 > size THEN req[cur].pos + 0 ELSE size
      BY <2>1
    <3>6. 0 <= req[cur].len /\ 0 \in 0 .. MaxSize /\ 0 \in Nat
      BY <2>2
    <3>7. server \in {"wait", "write"} /\ req[cur].op = "write" /\ UNCHANGED <<pc, req, rd, cur>>
      BY <2>1
    <3>8. A!Next
      BY <3>1, <3>4, <3>5, <3>6, <3>7, WriteMaps
    <3> QED
      BY <3>8
  <2>4. CASE ~(req[cur].pos > MaxSize - req[cur].len)
    <3>1. server' = "write" /\ before' = Bytes
      BY <1>3, <2>4 DEF StartWrite
    <3>2. UNCHANGED FileBytes
      BY <2>1, <3>1 DEF FileBytes
    <3> QED
      BY <1>2, <2>1, <3>1, <3>2
  <2> QED
    BY <2>3, <2>4
<1>4. CASE WriteChunk
  <2>1. server = "write" /\ UNCHANGED <<size, before, server, pc, req, rd, cur>>
    BY <1>4 DEF WriteChunk, clientVars
  <2>2. UNCHANGED FileBytes
    BY <2>1 DEF FileBytes
  <2> QED
    BY <1>2, <2>1, <2>2
<1>5. CASE EndWrite \/ ChunkFails
  <2>1. CASE EndWrite
    BY <2>1, FinishMaps DEF EndWrite
  <2>2. CASE ChunkFails
    <3>1. position # End(req[cur])
      <4>1. position \in Nat
        BY DEF IInv, TypeOK
      <4> QED
        BY <2>2, <4>1 DEF ChunkFails
    <3> QED
      BY <2>2, <3>1, FinishMaps DEF ChunkFails
  <2> QED
    BY <1>5, <2>1, <2>2
<1>6. CASE EndClose
  <2>1. /\ server = "wait" /\ server' = "reply" /\ res'.op = "close"
        /\ UNCHANGED <<content, size, before, pc, req, rd, cur>>
    BY <1>6 DEF EndClose, Waited, Respond, fileVars, clientVars
  <2>2. UNCHANGED <<size, FileBytes>>
    BY <2>1, SameBytes
  <2> QED
    BY <1>2, <2>1, <2>2
<1> QED
  BY <1>3, <1>4, <1>5, <1>6 DEF Work
-----------------------------------------------------------------------------
(* RInv is an invariant. *)

LEMMA NoHolesKept ==
  ASSUME IInv, IInv', NoHoles, Next
  PROVE  NoHoles'
<1>1. ASSUME size' >= size, \A c \in Clients : req'[c].op = "write" => req'[c] = req[c]
      PROVE  NoHoles'
  <2>1. \A c \in Clients : req[c].op = "write" => req[c].pos \in 0 .. MaxSize
    BY CurrentRequest, RequestFacts DEF IInv, NoRequest
  <2>2. size \in 0 .. MaxSize /\ size' \in 0 .. MaxSize
    BY DEF IInv, TypeOK
  <2> QED
    BY <1>1, <2>1, <2>2 DEF NoHoles
<1>2. CASE Work
  <2>1. req' = req
    BY <1>2 DEF Work, StartWrite, WriteChunk, EndWrite, ChunkFails, Finish, EndClose, clientVars
  <2>2. size' = size \/ size' = IF position > size THEN position ELSE size
    BY <1>2 DEF Work, StartWrite, WriteChunk, EndWrite, ChunkFails, Finish, Grow, EndClose, fileVars
  <2>3. size' >= size
    <3>1. size \in Int /\ position \in Int
      BY DEF IInv, TypeOK
    <3> QED
      BY <2>2, <3>1
  <2> QED
    BY <1>1, <2>1, <2>3
<1>3. ASSUME NEW c \in Clients, NEW r \in Requests, Call(c, r)
      PROVE  NoHoles'
  BY <1>3 DEF Call, MayCall, NoHoles, fileVars, IInv, TypeOK
<1>4. ASSUME NEW c \in Clients, Serve(c) \/ Reply(c) \/ Goroutine(c)
      PROVE  NoHoles'
  <2>1. size' = size
    BY <1>4 DEF Serve, ReadRequest, WaitRequest, LockRequest, UnlockRequest, Receive, Reply,
       Goroutine, StartRead, ReadChunk, EndRead, fileVars
  <2>2. req' = req \/ req' = [req EXCEPT ![c] = NoRequest]
    BY <1>4 DEF Serve, ReadRequest, WaitRequest, LockRequest, UnlockRequest, Receive, Reply,
       Goroutine, StartRead, ReadChunk, EndRead
  <2>3. size' >= size
    BY <2>1 DEF IInv, TypeOK
  <2>4. \A d \in Clients : req'[d].op = "write" => req'[d] = req[d]
    <3>1. req \in [Clients -> Requests \cup {NoRequest}]
      BY DEF IInv, TypeOK
    <3>2. ASSUME NEW d \in Clients, req' = [req EXCEPT ![c] = NoRequest], req'[d].op = "write"
          PROVE  req'[d] = req[d]
      <4>1. d # c
        BY <3>1, <3>2 DEF NoRequest
      <4> QED
        BY <3>1, <3>2, <4>1
    <3> QED
      BY <2>2, <3>2
  <2> QED
    BY <1>1, <2>3, <2>4
<1> QED
  BY <1>2, <1>3, <1>4 DEF Next

LEMMA HalfwayKept ==
  ASSUME IInv, NoHoles, Halfway, Next
  PROVE  Halfway'
<1>1. CASE StartWrite
  <2>1. CASE server' = "write"
    <3>1. /\ server' = "write" /\ position' = req[cur].pos /\ before' = Bytes
          /\ UNCHANGED <<content, size, cur, req>>
      BY <1>1, <2>1 DEF StartWrite, Respond, clientVars
    <3>2. before' = [i \in 0 .. size - 1 |-> content[i]]
      BY <3>1 DEF Bytes
    <3>3. before' = [i \in 0 .. size - 1 |-> before'[i]]
      BY <3>2
    <3>4. \A i \in Places : i < size => before'[i] = content[i]
      BY <3>2 DEF Places, IInv, TypeOK
    <3>5. \A i \in Places : ~(req[cur].pos <= i /\ i < req[cur].pos)
      <4>1. req[cur].pos \in Int
        BY <1>1, CurrentRequest, RequestFacts DEF StartWrite, IInv, TypeOK, NoRequest
      <4> QED
        BY <4>1 DEF Places
    <3> QED
      BY <3>1, <3>3, <3>4, <3>5 DEF Halfway
  <2> QED
    BY <2>1 DEF Halfway
<1>2. CASE WriteChunk
  <2> DEFINE n == End(req[cur]) - position
             next == position + Chunk(position, n)
  <2>1. /\ req[cur].pos \in 0 .. MaxSize /\ req[cur].len \in 0 .. MaxSize + 1
        /\ position \in 0 .. MaxSize /\ cur \in Clients /\ server = "write"
        /\ req[cur].pos <= position /\ position < End(req[cur])
    BY <1>2, CurrentRequest, RequestFacts DEF WriteChunk, IInv, TypeOK, ServesCur, WriteInRange, NoRequest
  <2>2. n \in Nat \ {0} /\ position \in Nat
    BY <2>1 DEF End
  <2>3. next \in Nat /\ next > position
    BY <2>2, ChunkSize
  <2>4. /\ content' = [i \in Places |->
                         IF i >= position /\ i < next THEN req[cur].val ELSE content[i]]
        /\ position' = next /\ UNCHANGED <<size, before, server, cur, req>>
    BY <1>2 DEF WriteChunk, clientVars
  <2> HIDE DEF next
  <2>5. ASSUME NEW i \in Places
        PROVE  /\ req[cur].pos <= i /\ i < next => content'[i] = req[cur].val
               /\ i < size /\ ~(req[cur].pos <= i /\ i < next) => content'[i] = before[i]
    <3>1. content'[i] = IF i >= position /\ i < next THEN req[cur].val ELSE content[i]
      BY <2>4
    <3>2. /\ req[cur].pos <= i /\ i < position => content[i] = req[cur].val
          /\ i < size /\ ~(req[cur].pos <= i /\ i < position) => content[i] = before[i]
      BY <2>1 DEF Halfway
    <3>3. i \in Int
      BY DEF Places
    <3> QED
      BY <2>1, <2>3, <3>1, <3>2, <3>3
  <2>6. before = [i \in 0 .. size - 1 |-> before[i]]
    BY <2>1 DEF Halfway
  <2> QED
    BY <2>4, <2>5, <2>6 DEF Halfway
<1>3. CASE EndWrite \/ ChunkFails \/ EndClose
  BY <1>3 DEF EndWrite, ChunkFails, Finish, EndClose, Respond, Halfway
<1>4. ASSUME NEW c \in Clients, NEW r \in Requests, Call(c, r)
      PROVE  Halfway'
  <2>1. UNCHANGED <<content, size, before, server, cur, position>>
    BY <1>4 DEF Call, fileVars, serverVars
  <2>2. server = "write" => req'[cur] = req[cur]
    BY <1>4 DEF Call, IInv, TypeOK, ServesCur, Busy
  <2> QED
    BY <2>1, <2>2 DEF Halfway
<1>5. ASSUME NEW c \in Clients, Serve(c) \/ Reply(c)
      PROVE  server' # "write"
  BY <1>5 DEF Serve, ReadRequest, WaitRequest, LockRequest, UnlockRequest, Respond, Reply
<1>6. ASSUME NEW c \in Clients, Goroutine(c)
      PROVE  Halfway'
  <2>1. UNCHANGED <<content, size, before, cur, position>> /\ server' \in {server, "panicked"}
    BY <1>6 DEF Goroutine, StartRead, ReadChunk, EndRead, fileVars, serverVars
  <2>2. server = "write" => req'[cur] = req[cur]
    BY <1>6 DEF Goroutine, StartRead, ReadChunk, EndRead, IInv, TypeOK, ServesCur, Busy
  <2> QED
    BY <2>1, <2>2 DEF Halfway
<1> QED
  BY <1>1, <1>2, <1>3, <1>4, <1>5, <1>6 DEF Next, Work, Halfway

LEMMA AnsweredAlone ==
  ASSUME IInv, NoReaderBeforeReply, Next
  PROVE  NoReaderBeforeReply'
<1>1. CASE Work
  <2>1. CASE StartWrite \/ EndClose
    BY <2>1 DEF StartWrite, EndClose, Waited, NoReaderBeforeReply
  <2>2. CASE WriteChunk
    BY <2>2 DEF WriteChunk, NoReaderBeforeReply
  <2>3. CASE EndWrite \/ ChunkFails
    BY <2>3 DEF EndWrite, ChunkFails, Finish, IInv, NoReaderDuringWrite, NoReaderBeforeReply
  <2> QED
    BY <1>1, <2>1, <2>2, <2>3 DEF Work
<1>2. ASSUME NEW c \in Clients, NEW r \in Requests, Call(c, r)
      PROVE  NoReaderBeforeReply'
  BY <1>2 DEF Call, serverVars, NoReaderBeforeReply
<1>3. ASSUME NEW c \in Clients, Serve(c) \/ Reply(c)
      PROVE  ~(server' = "reply" /\ res'.op = "write")
  BY <1>3 DEF Serve, ReadRequest, WaitRequest, LockRequest, UnlockRequest, Respond, Reply
<1>4. ASSUME NEW c \in Clients, Goroutine(c)
      PROVE  NoReaderBeforeReply'
  BY <1>4 DEF Goroutine, StartRead, ReadChunk, EndRead, Done, serverVars, NoReaderBeforeReply
<1> QED
  BY <1>1, <1>2, <1>3, <1>4 DEF Next, NoReaderBeforeReply
-----------------------------------------------------------------------------
LEMMA NextMaps ==
  ASSUME IInv, IInv', RInv, [Next]_vars
  PROVE  [A!Next]_A!vars
<1>1. CASE UNCHANGED vars
  <2>1. UNCHANGED <<content, size, before, server, res, pc, req, rd>>
    BY <1>1 DEF vars, fileVars, serverVars, clientVars
  <2>2. \A d \in Clients : Same(d)
    BY <2>1, Untouched
  <2> QED
    BY <2>1, <2>2, SameBytes, Stutter
<1>2. CASE Work
  BY <1>2, WorkMaps
<1>3. ASSUME NEW c \in Clients, NEW r \in Requests, Call(c, r)
      PROVE  [A!Next]_A!vars
  BY <1>3, CallMaps
<1>4. ASSUME NEW c \in Clients, Serve(c) \/ Reply(c)
      PROVE  [A!Next]_A!vars
  BY <1>4, ServeMaps, ReplyMaps
<1>5. ASSUME NEW c \in Clients, Goroutine(c)
      PROVE  [A!Next]_A!vars
  BY <1>5, ReadMaps, PanicMaps, EndReadMaps DEF Goroutine
<1> QED
  BY <1>1, <1>2, <1>3, <1>4, <1>5 DEF Next

\* Every behaviour of the file server is one of the atomic file: reads and
\* writes take effect one at a time, in between their call and their return.
THEOREM Implementation == Spec => ImplementsAtomicFile
<1>1. Init => RInv
  BY DEF Init, RInv, NoHoles, Halfway, NoReaderBeforeReply, NoRequest
<1>2. IInv /\ IInv' /\ RInv /\ [Next]_vars => RInv'
  <2>1. UNCHANGED vars /\ RInv => RInv'
    BY DEF vars, fileVars, serverVars, clientVars, RInv, NoHoles, Halfway, NoReaderBeforeReply
  <2> QED
    BY <2>1, NoHolesKept, HalfwayKept, AnsweredAlone DEF RInv
<1>3. Init => A!Init
  BY InitMaps
<1>4. IInv /\ IInv' /\ RInv /\ [Next]_vars => [A!Next]_A!vars
  BY NextMaps
<1> QED
  BY <1>1, <1>2, <1>3, <1>4, Invariance, PTL DEF Spec, ImplementsAtomicFile, A!Spec
=============================================================================
