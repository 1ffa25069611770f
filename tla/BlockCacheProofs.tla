--------------------------- MODULE BlockCacheProofs ---------------------------
(***************************************************************************)
(* The block cache keeps the block of every client in its buffer until it   *)
(* is put back: for any number of clients, buffers, hash chains, devices    *)
(* and blocks, if nobody asks for a block that is in the cache or used by   *)
(* another client (MCBlockCacheJoin, MCBlockCacheTwice and MCBlockCacheCount *)
(* show why).  If moreover no load meets another one or the server in a     *)
(* hash chain (MCBlockCacheCollide shows why), every block in the cache is  *)
(* found, the server stays up while a buffer is free, and the cache is a    *)
(* pool with LRU replacement.                                               *)
(*                                                                         *)
(* If instead blocks are asked for again and again, but all fit into the    *)
(* cache, every change of a block is kept.                                  *)
(***************************************************************************)
EXTENDS BlockCache, FiniteSetTheorems, WellFoundedInduction, TLAPS

-----------------------------------------------------------------------------
(* What is assumed of the constants. *)

\* Nobody asks for a block that is in the cache or that another client uses.
NobodyAsks == Asks = {}

\* There is one client, or no two blocks share a hash chain with each other or
\* with the unused buffers (and nobody makes unused buffers of used ones).
Alone == \A c, d \in Clients : c = d
Apart ==
  /\ "invalidate" \notin Ops
  /\ \A b \in Blocks : Bucket(b[2]) # 0
  /\ \A a, b \in Blocks : Bucket(a[2]) = Bucket(b[2]) => a = b
Undisturbed == NobodyAsks /\ (Alone \/ Apart)
-----------------------------------------------------------------------------
(* The inductive invariant. *)

\* The server works for the client that is receiving, if any.
Serving ==
  /\ server # "hit"
  /\ server \in {"unhash", "lock", "reply"} => pc[cur] = "receiving"
  /\ server \in {"unhash", "lock"} => req[cur].op = "get" /\ bp \in Slots
  /\ \A c \in Clients : pc[c] = "receiving" =>
       c = cur /\ server \in {"unhash", "lock", "reply", "hung", "panicked"}

\* The call that a client is in.
Calling ==
  \A c \in Clients :
    /\ pc[c] = "idle" <=> req[c].op = "none"
    /\ pc[c] = "awaiting" => req[c].op = "get" /\ awaits[c] = c
    /\ req[c].op \in {"get", "put"} => holds[c] = Nothing /\ req[c].block \in Blocks
    /\ req[c].op = "put" => req[c].slot \in Slots
    /\ req[c].op = "get" => req[c].arg \in {"NORMAL", "NO_READ"}
    /\ holds[c] # Nothing => holds[c].slot \in Slots /\ holds[c].block \in Blocks

\* The buffer that the server has taken and has not started to load.
Given(s) == server = "reply" /\ ~res.ready /\ res.slot = s

\* A response fits the call; no block is found in the cache, so a buffer that is
\* sent is one to be loaded.
Responding ==
  server = "reply" =>
    /\ Expects(req[cur].op, res.kind)
    /\ res.kind = "async" <=> req[cur].op = "get"
    /\ res.ready => res.slot = nil
    /\ ~res.ready => res.kind = "async" /\ res.slot = bp /\ bp \in Slots /\ waiting[bp] = <<cur>>

\* A buffer is loaded for the one client that waits for it.
ServedTo(s, c) == waiting[s] = <<c>>
Awaited ==
  /\ \A s \in Slots : waiting[s] # <<>> => Loading(s) \/ Given(s)
  /\ \A s \in Slots : Loading(s) =>
       \E c \in Clients : ServedTo(s, c) /\ pc[c] = "awaiting" /\ load[s].block = req[c].block
  /\ \A c \in Clients : pc[c] = "awaiting" => \E s \in Slots : Loading(s) /\ ServedTo(s, c)
  /\ \A r, s \in Slots : waiting[r] = waiting[s] /\ waiting[r] # <<>> => r = s
  /\ server \in {"unhash", "lock"} => ~Loading(bp)
  /\ server = "reply" /\ ~res.ready => ~Loading(bp)

\* A buffer is in the hands of one client, which put the block it asked for there.
Possession ==
  \A c \in Clients, s \in Slots : Has(c, s) =>
    /\ ~Taken(s) /\ IdentityOf(s) = Wants(c) /\ Wants(c) \in Blocks
    /\ \A d \in Clients : Has(d, s) => d = c

\* No two clients want one block, and nobody wants one of a device that is given up.
Wanted ==
  /\ \A c, d \in Clients : Wants(c) = Wants(d) /\ Wants(c) # NoBlock => c = d
  /\ \A c \in Clients : req[c].op \in {"unmount", "invalidate"} => Quiet(req[c].block[1])

\* A block that is asked for is not in the cache until its load has begun.
Begun(s) == load[s].stage \in {"insert", "read", "wake"}
Fresh ==
  /\ \A c \in Clients, s \in Slots : req[c].op = "get" /\ IdentityOf(s) = req[c].block =>
       Begun(s) /\ ServedTo(s, c)
  /\ \A s \in Slots : Begun(s) => IdentityOf(s) = load[s].block
  /\ \A r, s \in Slots : IdentityOf(r) = IdentityOf(s) /\ IdentityOf(r) \in Blocks => r = s

\* A buffer counts its client.
CountsHolder ==
  \A s \in Slots : count[s] = IF Begun(s) \/ \E c \in Clients : Has(c, s) THEN 1 ELSE 0

\* The links hold the buffers that are not in use, each once.
Line(q) ==
  /\ \A i, j \in 1 .. Len(q) : q[i] = q[j] => i = j
  /\ \A s \in Slots : ~InUse(s) <=> \E i \in 1 .. Len(q) : q[i] = s
  /\ Linked(q)
Chained == server # "panicked" => \E q \in Seq(Slots) : Line(q)

\* All buffers are in use when the server says so, and when it is taken down.
Says ==
  /\ server = "reply" /\ res.kind = "async" /\ res.ready => \A s \in Slots : InUse(s)

IInv ==
  /\ TypeOK /\ Serving /\ Calling /\ Responding /\ Awaited /\ Possession /\ Wanted /\ Fresh
  /\ CountsHolder /\ Chained /\ Says

\* Undisturbed, the hash chains hold the buffers that are not being moved.
InTable(s) ==
  /\ load[s].stage \notin {"start", "insert"} /\ ~Given(s)
  /\ server = "lock" => bp # s
On(h) == {s \in Slots : InTable(s) /\ Bucket(Blockno[s]) = h}
Members(q) == {q[i] : i \in 1 .. Len(q)}
Along(links, p, q) ==
  /\ \A i, j \in 1 .. Len(q) : q[i] = q[j] => i = j
  /\ p = IF Len(q) = 0 THEN nil ELSE q[1]
  /\ \A i \in 1 .. Len(q) : links[q[i]] = IF i = Len(q) THEN nil ELSE q[i + 1]
Table ==
  \A h \in 0 .. numhash - 1 : \E q \in Seq(Slots) : Along(b_hash, buf_hash[h], q) /\ Members(q) = On(h)

\* A buffer is put into a chain by one load at a time, and not while the server takes
\* one out.
Moving(s, h) == load[s].stage \in {"start", "insert"} /\ Bucket(load[s].block[2]) = h
Apiece ==
  /\ server = "unhash" =>
       /\ prev_ptr = buf_hash[Bucket(Blockno[bp])]
       /\ \A s \in Slots : ~Moving(s, Bucket(Blockno[bp]))
  /\ \A s \in Slots : load[s].stage = "insert" =>
       b_hash[s] = buf_hash[Bucket(load[s].block[2])]
  /\ \A r, s \in Slots, h \in 0 .. numhash - 1 : Moving(r, h) /\ Moving(s, h) => r = s
Named == Apart => \A s \in Slots : IdentityOf(s) \in Blocks \cup {NoBlock}

\* The server stays up while a buffer is free.
Up == server # "hung" /\ (server = "panicked" => \A s \in Slots : InUse(s))
HInv == Table /\ Apiece /\ Named /\ Up
-----------------------------------------------------------------------------
(* Requests, slots and types *)

LEMMA RequestsAre ==
  \A r \in Requests \cup {NoRequest} :
    /\ r.op \in {"get", "put", "mount", "unmount", "invalidate", "flush", "close", "none"}
    /\ r.op \in {"get", "put"} => r.block \in Blocks
    /\ r.op = "get" => r.arg \in {"NORMAL", "NO_READ"}
    /\ IF r.op = "put" THEN r.slot \in Slots ELSE r.slot = nil
    /\ r.op \in {"mount", "unmount", "invalidate", "flush"} => r.block[1] \in Devices
    /\ r.op = "invalidate" => "invalidate" \in Ops
    /\ r.op = "none" <=> r = NoRequest
BY WorkloadAssumption DEF Requests, AllRequests, Request, NoRequest, Blocks

LEMMA NilIsNoSlot ==
  /\ nil \notin Slots /\ numslots \in Nat \ {0, 1} /\ Links = Slots \cup {nil}
  /\ \A s \in Slots : s \in Nat
  /\ \A s \in Links : s # nil => s \in Slots
BY SlotsAssumption DEF nil, Slots, Links

LEMMA NoBlockIsNone ==
  /\ NoBlock \notin Blocks /\ NO_DEV \notin Devices
  /\ \A b \in Blocks : b[1] \in Devices /\ b[2] \in Numbers /\ b = <<b[1], b[2]>> /\ b # NoBlock
  /\ \A b \in Blocks : b[1] \in Nat /\ b[2] \in Nat
<1>1. NO_DEV \notin Nat /\ NO_DEV \notin Devices
  BY BlocksAssumption DEF NO_DEV
<1>2. NoBlock \notin Blocks
  BY <1>1 DEF NoBlock, Blocks
<1>3. ASSUME NEW b \in Blocks
      PROVE  b[1] \in Devices /\ b[2] \in Numbers /\ b = <<b[1], b[2]>>
  BY DEF Blocks
<1> QED BY <1>1, <1>2, <1>3, BlocksAssumption

LEMMA NumbersAre ==
  ASSUME TypeOK, NEW s \in Slots
  PROVE  Blockno[s] \in Nat
<1>1. Blockno[s] \in Numbers \cup {0}
  BY DEF TypeOK
<1>2. Numbers \subseteq Nat /\ 0 \in Nat
  BY BlocksAssumption
<1> QED BY <1>1, <1>2, Zenon

LEMMA BucketsAre == \A n \in Nat : Bucket(n) \in 0 .. numhash - 1
BY SlotsAssumption DEF Bucket

LEMMA ClientsCount == Cardinality(Clients) \in Nat
BY ClientsAssumption, FS_CardinalityType

\* A search of the hash chains finds what is in the table only.
LEMMA FirstIs ==
  ASSUME NEW p, NEW S, S \subseteq Slots, S = {}
  PROVE  First(p, S) = nil
BY DEF First

LEMMA NotFound ==
  ASSUME IInv, NEW c \in Clients, pc[c] # "awaiting", req[c].op = "get"
  PROVE  /\ \A s \in Slots : IdentityOf(s) # req[c].block
         /\ Search(req[c].block) = nil
<1>1. ASSUME NEW s \in Slots, IdentityOf(s) = req[c].block
      PROVE  FALSE
  <2>1. load[s].stage # "off" /\ waiting[s] = <<c>>
    BY <1>1 DEF IInv, Fresh, Begun, ServedTo
  <2>2. PICK d \in Clients : waiting[s] = <<d>> /\ pc[d] = "awaiting"
    BY <2>1 DEF IInv, Awaited, Loading, ServedTo
  <2> QED BY <2>1, <2>2
<1>2. {s \in Slots : IdentityOf(s) = req[c].block} = {}
  BY <1>1
<1> QED BY <1>1, <1>2, FirstIs DEF Search
-----------------------------------------------------------------------------
(* Types *)

LEMMA Typed == IInv => TypeOK
BY DEF IInv

LEMMA CallTypes ==
  ASSUME TypeOK, NEW c \in Clients, NEW r \in Requests, Call(c, r)
  PROVE  TypeOK'
<1>1. pc' \in [Clients -> {"idle", "sending", "receiving", "awaiting"}]
  BY DEF TypeOK, Call
<1>2. req' \in [Clients -> Requests \cup {NoRequest}]
  BY DEF TypeOK, Call
<1>3. Nothing \in [slot : Links, block : Blocks \cup {NoBlock}]
  BY NilIsNoSlot DEF Nothing
<1>4. holds' \in [Clients -> [slot : Links, block : Blocks \cup {NoBlock}]]
  BY <1>3 DEF TypeOK, Call
<1> QED BY <1>1, <1>2, <1>4 DEF TypeOK, Call, bufs, lru, hash, store, serverVars

LEMMA ModifyTypes ==
  ASSUME TypeOK, NEW c \in Clients, NEW v \in Values, Modify(c, v)
  PROVE  TypeOK'
BY DEF TypeOK, Modify, lru, hash, serverVars, clientVars

LEMMA ReceiveTypes ==
  ASSUME TypeOK, NEW c \in Clients, NEW op, Receive(c, op)
  PROVE  /\ pc' \in [Clients -> {"idle", "sending", "receiving", "awaiting"}]
         /\ cur' \in Clients
         /\ req' \in [Clients -> Requests \cup {NoRequest}]
         /\ awaits' \in [Clients -> Clients]
         /\ holds' \in [Clients -> [slot : Links, block : Blocks \cup {NoBlock}]]
         /\ load' \in [Slots -> [stage : {"off", "start", "insert", "read", "wake"},
                        block : Blocks \cup {NoBlock}, mode : {"NORMAL", "NO_READ"}]]
BY DEF TypeOK, Receive

LEMMA RespondTypes ==
  ASSUME NEW kind \in {"none", "async", "err", "empty"}, NEW s \in Links, NEW ready \in BOOLEAN,
         Respond(kind, s, ready)
  PROVE  /\ server' \in {"loop", "hit", "unhash", "lock", "reply", "closed", "hung", "panicked"}
         /\ res' \in [kind : {"none", "async", "err", "empty"}, slot : Links, ready : BOOLEAN]
BY DEF Respond

LEMMA RemoveTypes ==
  ASSUME TypeOK, NEW s \in Slots, rm_lru(s)
  PROVE  /\ next' \in [Slots -> Links] /\ prev' \in [Slots -> Links]
         /\ front' \in Links /\ rear' \in Links
<1> DEFINE n == next[s]
           p == prev[s]
<1>0. /\ n \in Links /\ p \in Links /\ front \in Links /\ rear \in Links
      /\ next \in [Slots -> Links] /\ prev \in [Slots -> Links]
  BY DEF TypeOK
<1>1. IF p # nil THEN next' = [next EXCEPT ![p] = n] /\ UNCHANGED front
                 ELSE front' = n /\ UNCHANGED next
  BY DEF rm_lru
<1>2. IF n # nil THEN prev' = [prev EXCEPT ![n] = p] /\ UNCHANGED rear
                 ELSE rear' = p /\ UNCHANGED prev
  BY DEF rm_lru
<1> HIDE DEF n, p
<1>3. next' \in [Slots -> Links] /\ front' \in Links
  BY <1>0, <1>1
<1>4. prev' \in [Slots -> Links] /\ rear' \in Links
  BY <1>0, <1>2
<1> QED BY <1>3, <1>4

LEMMA PutTypes ==
  ASSUME TypeOK, NEW s \in Slots, PutFront(s) \/ PutRear(s)
  PROVE  /\ next' \in [Slots -> Links] /\ prev' \in [Slots -> Links]
         /\ front' \in Links /\ rear' \in Links
<1>1. CASE PutFront(s)
  BY <1>1 DEF TypeOK, PutFront, Links
<1>2. CASE PutRear(s)
  BY <1>2 DEF TypeOK, PutRear, Links
<1> QED BY <1>1, <1>2

LEMMA NextSlotTypes ==
  ASSUME TypeOK, NEW c \in Clients
  PROVE  /\ req[c] \in Requests \cup {NoRequest}
         /\ req[c].block[1] \in Devices \cup {NO_DEV}
<1>1. req[c] \in Requests \cup {NoRequest}
  BY DEF TypeOK
<1>2. req[c].block[1] \in Devices \cup {NO_DEV}
  BY <1>1 DEF Requests, AllRequests, Request, NoRequest, Blocks, NoBlock
<1> QED BY <1>1, <1>2

LEMMA GetTypes ==
  ASSUME IInv, NEW c \in Clients, GetBlock(c)
  PROVE  TypeOK'
<1>0. TypeOK /\ front \in Links /\ rear \in Links
  BY Typed DEF TypeOK
<1>1. Receive(c, "get") /\ pc[c] = "sending" /\ req[c].op = "get" /\ UNCHANGED <<bufs, hash, waiting, store>>
  BY DEF GetBlock, Receive
<1>2. Search(req[c].block) = nil
  BY <1>1, NotFound
<1>3. CASE server' = "hung" /\ UNCHANGED <<bp, prev_ptr, res, lru>>
  BY <1>0, <1>1, <1>3, ReceiveTypes DEF TypeOK, bufs, hash, store, lru
<1>4. CASE Respond("async", nil, TRUE) /\ UNCHANGED <<bp, prev_ptr, lru>>
  <2>1. /\ server' \in {"loop", "hit", "unhash", "lock", "reply", "closed", "hung", "panicked"}
        /\ res' \in [kind : {"none", "async", "err", "empty"}, slot : Links, ready : BOOLEAN]
    BY <1>4, RespondTypes, NilIsNoSlot
  <2> QED BY <1>0, <1>1, <1>4, <2>1, ReceiveTypes DEF TypeOK, bufs, hash, store, lru
<1>5. CASE /\ Oldest # nil /\ rm_lru(Oldest)
           /\ bp' = Oldest
           /\ prev_ptr' = buf_hash[Bucket(Blockno[Oldest])]
           /\ server' = "unhash"
           /\ UNCHANGED res
  <2>1. front \in Slots /\ rm_lru(front) /\ bp' = front /\ prev_ptr' = buf_hash[Bucket(Blockno[front])]
    BY <1>0, <1>5, NilIsNoSlot DEF Oldest
  <2>2. Blockno[front] \in Nat
    BY <1>0, <2>1, NumbersAre
  <2>3. prev_ptr' \in Links
    BY <1>0, <2>1, <2>2, BucketsAre DEF TypeOK
  <2>4. /\ next' \in [Slots -> Links] /\ prev' \in [Slots -> Links]
        /\ front' \in Links /\ rear' \in Links
    BY <1>0, <2>1, RemoveTypes
  <2> QED BY <1>0, <1>1, <1>5, <2>1, <2>3, <2>4, ReceiveTypes DEF TypeOK, bufs, hash, store
<1>6. \/ server' = "hung" /\ UNCHANGED <<bp, prev_ptr, res, lru>>
      \/ Respond("async", nil, TRUE) /\ UNCHANGED <<bp, prev_ptr, lru>>
      \/ /\ Oldest # nil /\ rm_lru(Oldest)
         /\ bp' = Oldest
         /\ prev_ptr' = buf_hash[Bucket(Blockno[Oldest])]
         /\ server' = "unhash"
         /\ UNCHANGED res
  BY <1>2 DEF GetBlock
<1> QED BY <1>3, <1>4, <1>5, <1>6

LEMMA UnhashTypes ==
  ASSUME IInv, Unhash
  PROVE  TypeOK'
<1>0. TypeOK /\ bp \in Slots
  BY Typed DEF IInv, Serving, Unhash
<1>1. b_hash' \in [Slots -> Links] /\ buf_hash' \in [0 .. numhash - 1 -> Links]
  <2>1. CASE UNCHANGED hash
    BY <1>0, <2>1 DEF TypeOK, hash
  <2>2. CASE Unlink
    <3>1. b_hash[bp] \in Links
      BY <1>0 DEF TypeOK
    <3>2. CASE prev_ptr = bp
      BY <1>0, <2>2, <3>1, <3>2 DEF TypeOK, Unlink, After
    <3>3. CASE prev_ptr # bp
      BY <1>0, <2>2, <3>1, <3>3 DEF TypeOK, Unlink, After
    <3> QED BY <3>2, <3>3
  <2> QED BY <2>1, <2>2 DEF Unhash
<1>2. server' \in {"lock", "panicked"}
  BY DEF Unhash
<1> QED BY <1>0, <1>1, <1>2 DEF TypeOK, Unhash, bufs, lru, store, clientVars

LEMMA KeepCallbackTypes ==
  ASSUME IInv, KeepCallback
  PROVE  TypeOK'
<1>0. TypeOK /\ bp \in Slots /\ ~Loading(bp) /\ server = "lock"
  BY Typed DEF IInv, Serving, KeepCallback, Awaited
<1>1. waiting[bp] = <<>>
  BY <1>0 DEF IInv, Awaited, Given
<1>2. waiting' = [waiting EXCEPT ![bp] = <<cur>>]
  BY <1>0, <1>1 DEF KeepCallback, TypeOK
<1>3. waiting' \in [Slots -> {<<>>} \cup {<<c>> : c \in Clients}]
  BY <1>0, <1>2 DEF TypeOK
<1>4. /\ server' \in {"loop", "hit", "unhash", "lock", "reply", "closed", "hung", "panicked"}
      /\ res' \in [kind : {"none", "async", "err", "empty"}, slot : Links, ready : BOOLEAN]
  BY <1>0, RespondTypes, NilIsNoSlot DEF KeepCallback
<1> QED BY <1>0, <1>3, <1>4 DEF TypeOK, KeepCallback, bufs, lru, hash, store, clientVars

LEMMA ServedTypes ==
  ASSUME TypeOK, NEW c \in Clients, NEW op, Receive(c, op),
         NEW kind \in {"none", "async", "err", "empty"}, Respond(kind, nil, TRUE)
  PROVE  /\ server' \in {"loop", "hit", "unhash", "lock", "reply", "closed", "hung", "panicked"}
         /\ res' \in [kind : {"none", "async", "err", "empty"}, slot : Links, ready : BOOLEAN]
BY RespondTypes, NilIsNoSlot

LEMMA MountTypes ==
  ASSUME TypeOK, NEW c \in Clients, MountDevice(c)
  PROVE  TypeOK'
<1>1. Receive(c, "mount") /\ req[c].op = "mount"
  BY DEF MountDevice, Receive
<1>2. req[c].block[1] \in Devices
  BY <1>1, RequestsAre, NextSlotTypes
<1>3. devs' \subseteq Devices
  BY <1>2 DEF MountDevice, TypeOK
<1>4. Respond("err", nil, TRUE)
  BY DEF MountDevice
<1> QED BY <1>1, <1>3, <1>4, ReceiveTypes, ServedTypes DEF TypeOK, MountDevice, bufs, lru, hash

LEMMA UnmountTypes ==
  ASSUME TypeOK, NEW c \in Clients, UnmountDevice(c)
  PROVE  TypeOK'
<1>1. Receive(c, "unmount") /\ Respond("err", nil, TRUE)
  BY DEF UnmountDevice
<1>2. devs' \subseteq Devices
  BY DEF UnmountDevice, TypeOK
<1> QED BY <1>1, <1>2, ReceiveTypes, ServedTypes DEF TypeOK, UnmountDevice, bufs, lru, hash

LEMMA InvalidateTypes ==
  ASSUME TypeOK, NEW c \in Clients, Invalidate(c)
  PROVE  TypeOK'
<1>1. Receive(c, "invalidate") /\ Respond("empty", nil, TRUE)
  BY DEF Invalidate, Answer
<1>2. Devno' \in [Slots -> Devices \cup {NO_DEV}] /\ latest' \in [Blocks -> Values \cup {nil}]
  BY DEF Invalidate, TypeOK
<1> QED BY <1>1, <1>2, ReceiveTypes, ServedTypes DEF TypeOK, Invalidate, lru, hash

LEMMA FlushTypes ==
  ASSUME TypeOK, NEW c \in Clients, Flush(c)
  PROVE  TypeOK' /\ disk' = disk
<1>1. Receive(c, "flush") /\ Respond("empty", nil, TRUE)
  BY DEF Flush, Answer
<1>2. disk' = disk
  BY DEF Flush, TypeOK, actuallywrite
<1> QED BY <1>1, <1>2, ReceiveTypes, ServedTypes DEF TypeOK, Flush, bufs, lru, hash

LEMMA CloseTypes ==
  ASSUME TypeOK, NEW c \in Clients, CloseRequest(c)
  PROVE  TypeOK'
<1>1. Receive(c, "close") /\ Respond("err", nil, TRUE)
  BY DEF CloseRequest
<1> QED BY <1>1, ReceiveTypes, ServedTypes DEF TypeOK, CloseRequest, bufs, lru, hash, store

\* A client that puts a block back is the only one that its buffer counts.
LEMMA Returning ==
  ASSUME IInv, NEW c \in Clients, pc[c] = "sending", req[c].op = "put"
  PROVE  /\ req[c].slot \in Slots /\ Has(c, req[c].slot)
         /\ count[req[c].slot] = 1 /\ ~StillInUse(req[c].slot)
         /\ ~Taken(req[c].slot) /\ IdentityOf(req[c].slot) \in Blocks
<1>1. req[c].slot \in Slots
  BY DEF IInv, Calling
<1>2. Has(c, req[c].slot)
  BY DEF Has
<1>3. count[req[c].slot] = 1
  BY <1>1, <1>2 DEF IInv, CountsHolder
<1>4. ~StillInUse(req[c].slot)
  BY <1>3 DEF StillInUse
<1> QED BY <1>1, <1>2, <1>3, <1>4 DEF IInv, Possession

LEMMA CountBounds ==
  0 \in -(MaxHits + Cardinality(Clients)) .. numslots /\ 1 \in -(MaxHits + Cardinality(Clients)) .. numslots
BY ClientsCount, WorkloadAssumption, SlotsAssumption

LEMMA PutBlockTypes ==
  ASSUME IInv, NEW c \in Clients, PutBlock(c)
  PROVE  TypeOK'
<1>0. TypeOK /\ Receive(c, "put") /\ Respond("err", nil, TRUE) /\ pc[c] = "sending" /\ req[c].op = "put"
  BY Typed DEF PutBlock, Receive
<1> DEFINE s == req[c].slot
<1>1. /\ s \in Slots /\ count[s] = 1 /\ ~StillInUse(s)
  BY <1>0, Returning
<1>2. count' = [count EXCEPT ![s] = 0]
  BY <1>0, <1>1 DEF PutBlock, TypeOK
<1>3. PutFront(s) \/ PutRear(s)
  BY <1>1 DEF PutBlock
<1>4. disk' \in [Blocks -> Values]
  <2>1. WriteBlock(s, req[c].arg)
    BY <1>1 DEF PutBlock
  <2>2. Block[s] \in Values /\ disk \in [Blocks -> Values]
    BY <1>0, <1>1 DEF TypeOK
  <2> HIDE DEF s
  <2> QED BY <2>1, <2>2 DEF WriteBlock
<1>5. /\ next' \in [Slots -> Links] /\ prev' \in [Slots -> Links]
      /\ front' \in Links /\ rear' \in Links
  BY <1>0, <1>1, <1>3, PutTypes
<1>6. count' \in [Slots -> -(MaxHits + Cardinality(Clients)) .. numslots]
  BY <1>0, <1>1, <1>2, CountBounds DEF TypeOK
<1> QED BY <1>0, <1>4, <1>5, <1>6, ReceiveTypes, ServedTypes DEF TypeOK, PutBlock, hash

LEMMA ReturnTypes ==
  ASSUME TypeOK, NEW c \in Clients, NEW s \in Links, Return(c, s),
         req[c].op = "get" => req[c].block \in Blocks, s # nil => req[c].op = "get"
  PROVE  /\ pc' \in [Clients -> {"idle", "sending", "receiving", "awaiting"}]
         /\ req' \in [Clients -> Requests \cup {NoRequest}]
         /\ holds' \in [Clients -> [slot : Links, block : Blocks \cup {NoBlock}]]
<1>1. CASE s = nil
  BY <1>1 DEF TypeOK, Return
<1>2. CASE s # nil
  <2>1. [slot |-> s, block |-> req[c].block] \in [slot : Links, block : Blocks \cup {NoBlock}]
    BY <1>2
  <2>2. holds' = [holds EXCEPT ![c] = [slot |-> s, block |-> req[c].block]]
    BY <1>2 DEF Return
  <2>3. holds' \in [Clients -> [slot : Links, block : Blocks \cup {NoBlock}]]
    BY <2>1, <2>2 DEF TypeOK
  <2> QED BY <2>3 DEF TypeOK, Return
<1> QED BY <1>1, <1>2

\* Reply answers the client that the server works for.
LEMMA Replies ==
  ASSUME IInv, NEW c \in Clients, Reply(c)
  PROVE  /\ c = cur /\ server = "reply" /\ pc[c] = "receiving" /\ Expects(req[c].op, res.kind)
         /\ res.kind = "async" <=> req[c].op = "get"
         /\ \/ res.ready /\ res.slot = nil
            \/ /\ ~res.ready /\ res.slot = bp /\ bp \in Slots /\ res.kind = "async"
               /\ waiting[bp] = <<c>> /\ ~Loading(bp)
BY DEF IInv, Reply, Serving, Responding, Awaited

LEMMA ReplyCases ==
  ASSUME IInv, NEW c \in Clients, Reply(c)
  PROVE  \/ /\ req[c].op = "get" /\ res.ready /\ server' = "panicked" /\ UNCHANGED <<load, clientVars>>
         \/ /\ req[c].op # "get" /\ res.ready
            /\ server' = IF req[c].op = "close" THEN "closed" ELSE "loop"
            /\ UNCHANGED <<load, awaits, holds>> /\ Return(c, nil)
         \/ /\ req[c].op = "get" /\ ~res.ready /\ server' = "loop"
            /\ load' = [load EXCEPT ![bp] =
                 [stage |-> "start", block |-> req[c].block, mode |-> req[c].arg]]
            /\ pc' = [pc EXCEPT ![c] = "awaiting"]
            /\ awaits' = [awaits EXCEPT ![c] = c]
            /\ UNCHANGED <<req, holds>>
<1>0. bp \in Slots => bp # nil
  BY NilIsNoSlot
<1>1. CASE req[c].op = "get" /\ res.ready
  BY <1>1, Replies DEF Reply
<1>2. CASE req[c].op # "get"
  BY <1>2, Replies DEF Reply, Return
<1>3. CASE req[c].op = "get" /\ ~res.ready
  BY <1>0, <1>3, Replies DEF Reply
<1> QED BY <1>1, <1>2, <1>3

LEMMA ReplyTypes ==
  ASSUME IInv, NEW c \in Clients, Reply(c)
  PROVE  TypeOK'
<1>0. TypeOK /\ res' = NoResponse /\ UNCHANGED <<bufs, lru, hash, waiting, store, bp, prev_ptr, cur>>
  BY Typed DEF Reply
<1>1. res' \in [kind : {"none", "async", "err", "empty"}, slot : Links, ready : BOOLEAN]
  BY <1>0, NilIsNoSlot DEF NoResponse
<1>2. CASE server' = "panicked" /\ UNCHANGED <<load, clientVars>>
  BY <1>0, <1>1, <1>2 DEF TypeOK, bufs, lru, hash, store, clientVars
<1>3. CASE /\ server' = IF req[c].op = "close" THEN "closed" ELSE "loop"
           /\ UNCHANGED <<load, awaits, holds>> /\ Return(c, nil)
  <2>1. /\ pc' \in [Clients -> {"idle", "sending", "receiving", "awaiting"}]
        /\ req' \in [Clients -> Requests \cup {NoRequest}]
    BY <1>0, <1>3 DEF Return, TypeOK
  <2> QED BY <1>0, <1>1, <1>3, <2>1 DEF TypeOK, bufs, lru, hash, store
<1>4. CASE /\ req[c].op = "get" /\ server' = "loop" /\ bp \in Slots
           /\ load' = [load EXCEPT ![bp] =
                 [stage |-> "start", block |-> req[c].block, mode |-> req[c].arg]]
           /\ pc' = [pc EXCEPT ![c] = "awaiting"]
           /\ awaits' = [awaits EXCEPT ![c] = c]
           /\ UNCHANGED <<req, holds>>
  <2>1. req[c].block \in Blocks /\ req[c].arg \in {"NORMAL", "NO_READ"}
    BY <1>4, NextSlotTypes, RequestsAre, Typed
  <2>2. [stage |-> "start", block |-> req[c].block, mode |-> req[c].arg]
          \in [stage : {"off", "start", "insert", "read", "wake"},
               block : Blocks \cup {NoBlock}, mode : {"NORMAL", "NO_READ"}]
    BY <2>1
  <2>3. load' \in [Slots -> [stage : {"off", "start", "insert", "read", "wake"},
                        block : Blocks \cup {NoBlock}, mode : {"NORMAL", "NO_READ"}]]
    BY <1>0, <1>4, <2>2 DEF TypeOK
  <2> QED BY <1>0, <1>1, <1>4, <2>3 DEF TypeOK, bufs, lru, hash, store
<1> QED BY <1>2, <1>3, <1>4, ReplyCases, Replies

\* A buffer that is loaded, the client it is for and its block.
LEMMA LoadedFor ==
  ASSUME IInv, NEW s \in Slots, Loading(s)
  PROVE  \E c \in Clients :
           /\ waiting[s] = <<c>> /\ pc[c] = "awaiting" /\ req[c].op = "get" /\ awaits[c] = c
           /\ load[s].block = req[c].block /\ req[c].block \in Blocks /\ Wants(c) = load[s].block
           /\ Taken(s) /\ \A d \in Clients : ~Has(d, s)
<1>1. PICK c \in Clients : waiting[s] = <<c>> /\ pc[c] = "awaiting" /\ load[s].block = req[c].block
  BY DEF IInv, Awaited, ServedTo
<1>2. req[c].op = "get" /\ awaits[c] = c /\ req[c].block \in Blocks
  BY <1>1 DEF IInv, Calling
<1>3. Taken(s)
  BY DEF Taken
<1>4. \A d \in Clients : ~Has(d, s)
  BY <1>3 DEF IInv, Possession
<1> QED BY <1>1, <1>2, <1>3, <1>4 DEF Wants

Loads == [stage : {"off", "start", "insert", "read", "wake"},
          block : Blocks \cup {NoBlock}, mode : {"NORMAL", "NO_READ"}]

LEMMA LoadTypes == TypeOK => load \in [Slots -> Loads]
BY DEF TypeOK, Loads

LEMMA StageTypes ==
  ASSUME TypeOK, NEW s \in Slots, NEW to \in {"off", "start", "insert", "read", "wake"},
         load' = [load EXCEPT ![s].stage = to]
  PROVE  /\ load' \in [Slots -> Loads]
         /\ load'[s].stage = to /\ load'[s].block = load[s].block /\ load'[s].mode = load[s].mode
         /\ \A r \in Slots : r # s => load'[r] = load[r]
<1>0. load \in [Slots -> Loads]
  BY LoadTypes
<1>1. load[s] \in Loads
  BY <1>0
<1> DEFINE new == [load[s] EXCEPT !.stage = to]
<1>2. new \in Loads /\ new.stage = to /\ new.block = load[s].block /\ new.mode = load[s].mode
  BY <1>1 DEF Loads
<1>3. load' = [load EXCEPT ![s] = new]
  BY <1>0
<1> HIDE DEF new
<1> QED BY <1>0, <1>2, <1>3

LEMMA LoadBlockTypes ==
  ASSUME IInv, NEW s \in Slots, LoadBlock(s)
  PROVE  TypeOK'
<1>0. TypeOK /\ load[s].stage = "start" /\ Loading(s)
  BY Typed DEF LoadBlock, Step, Loading
<1> DEFINE b == load[s].block
<1>1. PICK c \in Clients : b \in Blocks /\ \A d \in Clients : ~Has(d, s)
  BY <1>0, LoadedFor
<1>2. b[1] \in Devices /\ b[2] \in Numbers
  BY <1>1, NoBlockIsNone
<1>3. load' = [load EXCEPT ![s].stage = "insert"]
  BY DEF LoadBlock, Step
<1>4. load' \in [Slots -> Loads]
  BY <1>0, <1>3, StageTypes
<1>5. Devno' \in [Slots -> Devices \cup {NO_DEV}] /\ Blockno' \in [Slots -> Numbers \cup {0}]
  BY <1>0, <1>2 DEF LoadBlock, TypeOK
<1>6. Block' \in [Slots -> Values]
  BY <1>0, BlocksAssumption DEF LoadBlock, TypeOK
<1>7. count[s] = 0
  BY <1>0, <1>1 DEF IInv, CountsHolder, Begun
<1>8. count' \in [Slots -> -(MaxHits + Cardinality(Clients)) .. numslots]
  <2>1. count' = [count EXCEPT ![s] = 1]
    BY <1>0, <1>7 DEF LoadBlock, Counted, TypeOK
  <2> QED BY <1>0, <2>1, CountBounds DEF TypeOK
<1>9. b_hash' \in [Slots -> Links]
  <2>1. Bucket(b[2]) \in 0 .. numhash - 1
    BY <1>1, NoBlockIsNone, BucketsAre
  <2> QED BY <1>0, <2>1 DEF LoadBlock, TypeOK
<1> QED BY <1>0, <1>4, <1>5, <1>6, <1>8, <1>9 DEF TypeOK, Loads, LoadBlock, lru, store, serverVars, clientVars

LEMMA RehashTypes ==
  ASSUME IInv, NEW s \in Slots, Rehash(s)
  PROVE  TypeOK'
<1>0. TypeOK /\ load' = [load EXCEPT ![s].stage = "read"]
  BY Typed DEF Rehash, Step
<1>1. load' \in [Slots -> Loads]
  BY <1>0, StageTypes
<1>2. buf_hash' \in [0 .. numhash - 1 -> Links]
  BY <1>0, NilIsNoSlot DEF Rehash, TypeOK
<1> QED BY <1>0, <1>1, <1>2 DEF TypeOK, Loads, Rehash, bufs, lru, store, serverVars, clientVars

LEMMA ReadTypes ==
  ASSUME IInv, NEW s \in Slots, Read(s)
  PROVE  TypeOK'
<1>0. TypeOK /\ load' = [load EXCEPT ![s].stage = "wake"] /\ Loading(s)
  BY Typed DEF Read, Step, Loading
<1> DEFINE b == load[s].block
<1>1. b \in Blocks
  BY <1>0, LoadedFor
<1>2. load' \in [Slots -> Loads]
  BY <1>0, StageTypes
<1>3. Block' \in [Slots -> Values]
  <2>1. disk[b] \in Values
    BY <1>0, <1>1 DEF TypeOK
  <2> QED BY <1>0, <2>1 DEF Read, TypeOK
<1>4. latest' \in [Blocks -> Values \cup {nil}]
  BY <1>0, <1>1, <1>3 DEF Read, TypeOK
<1> QED BY <1>0, <1>2, <1>3, <1>4 DEF TypeOK, Loads, Read, lru, hash, serverVars, clientVars

LEMMA Wakes ==
  ASSUME IInv, NEW s \in Slots, NEW c \in Clients, Wake(s, c)
  PROVE  /\ Loading(s) /\ waiting[s] = <<c>> /\ waiting' = [waiting EXCEPT ![s] = <<>>]
         /\ load' = [load EXCEPT ![s] = Idle]
         /\ req[c].op = "get" /\ req[c].block = load[s].block /\ req[c].block \in Blocks
         /\ pc' = [pc EXCEPT ![c] = "idle"] /\ req' = [req EXCEPT ![c] = NoRequest]
         /\ holds' = [holds EXCEPT ![c] = [slot |-> s, block |-> req[c].block]]
<1>1. Loading(s)
  BY DEF Wake, Loading
<1>2. PICK d \in Clients :
           /\ waiting[s] = <<d>> /\ pc[d] = "awaiting" /\ req[d].op = "get" /\ awaits[d] = d
           /\ load[s].block = req[d].block /\ req[d].block \in Blocks
  BY <1>1, LoadedFor
<1>3. awaits[c] = c /\ pc[c] = "awaiting"
  BY DEF Wake, IInv, Calling
<1>4. c = d
  BY <1>2, <1>3 DEF Wake
<1>5. waiting' = [waiting EXCEPT ![s] = <<>>]
  <2>1. Tail(waiting[s]) = <<>>
    BY <1>2
  <2>2. waiting \in [Slots -> {<<>>} \cup {<<e>> : e \in Clients}]
    BY Typed DEF TypeOK
  <2> QED BY <2>1, <2>2 DEF Wake, Served
<1>6. Len(waiting[s]) = 1
  BY <1>2
<1>7. Return(c, s) /\ s # nil
  BY NilIsNoSlot DEF Wake
<1> QED BY <1>1, <1>2, <1>4, <1>5, <1>6, <1>7 DEF Wake, Return

LEMMA WakeTypes ==
  ASSUME IInv, NEW s \in Slots, NEW c \in Clients, Wake(s, c)
  PROVE  TypeOK'
<1>0. TypeOK
  BY Typed
<1>1. waiting' \in [Slots -> {<<>>} \cup {<<d>> : d \in Clients}]
  BY <1>0, Wakes DEF TypeOK
<1>2. Idle \in [stage : {"off", "start", "insert", "read", "wake"},
                        block : Blocks \cup {NoBlock}, mode : {"NORMAL", "NO_READ"}]
  BY DEF Idle
<1>3. load' \in [Slots -> Loads]
  <2>1. Idle \in Loads
    BY <1>2 DEF Loads
  <2> QED BY <1>0, <2>1, Wakes, LoadTypes
<1>4. /\ pc' \in [Clients -> {"idle", "sending", "receiving", "awaiting"}]
      /\ req' \in [Clients -> Requests \cup {NoRequest}]
      /\ holds' \in [Clients -> [slot : Links, block : Blocks \cup {NoBlock}]]
  BY <1>0, Wakes, ReturnTypes, NilIsNoSlot DEF Wake
<1> QED BY <1>0, <1>1, <1>3, <1>4 DEF TypeOK, Loads, Wake, bufs, lru, hash, store, serverVars
-----------------------------------------------------------------------------
(* Steps of clients and goroutines *)

Known == TypeOK /\ Serving /\ Calling /\ Responding /\ Awaited /\ Possession /\ Wanted /\ Fresh
LEMMA KnownIs == IInv => Known /\ CountsHolder /\ Chained /\ Says
BY DEF IInv, Known

\* The chain of free buffers lasts while the same ones are free.
LEMMA LineKept ==
  ASSUME Chained, server # "panicked", UNCHANGED lru, \A s \in Slots : InUse(s)' <=> InUse(s)
  PROVE  Chained'
<1>1. PICK q \in Seq(Slots) : Line(q)
  BY DEF Chained
<1>2. Linked(q)'
  BY <1>1 DEF Line, Linked, lru
<1>3. Line(q)'
  BY <1>1, <1>2 DEF Line
<1> QED BY <1>3 DEF Chained

LEMMA HoldersSame ==
  ASSUME UNCHANGED <<pc, req, holds>>
  PROVE  /\ \A c, s : Has(c, s)' <=> Has(c, s)
         /\ \A c : Wants(c)' = Wants(c)
         /\ \A d : Quiet(d)' <=> Quiet(d)
<1>1. \A c : Wants(c)' = Wants(c)
  BY DEF Wants
<1>2. \A c, s : Has(c, s)' <=> Has(c, s)
  BY DEF Has
<1>3. \A d : Quiet(d)' <=> Quiet(d)
  BY DEF Quiet, Wants
<1> QED BY <1>1, <1>2, <1>3

LEMMA SameEverywhere ==
  ASSUME IInv, TypeOK', UNCHANGED <<Devno, Blockno, count, lru, waiting, serverVars, load, clientVars>>
  PROVE  IInv'
<1>0. Known /\ CountsHolder /\ Chained /\ Says
  BY KnownIs
<1>1. /\ \A c, s : Has(c, s)' <=> Has(c, s)
      /\ \A c : Wants(c)' = Wants(c)
      /\ \A d : Quiet(d)' <=> Quiet(d)
  BY HoldersSame DEF clientVars
<1>2. \A s : Taken(s)' <=> Taken(s)
  BY DEF Taken, Loading, serverVars
<1>3. \A s : InUse(s)' <=> InUse(s)
  BY <1>1, <1>2 DEF InUse, serverVars
<1>4. Serving' /\ Calling' /\ Responding'
  BY <1>0 DEF Known, Serving, Calling, Responding, serverVars, clientVars
<1>5. Awaited'
  BY <1>0 DEF Known, Awaited, Loading, Given, ServedTo, serverVars, clientVars
<1>6. Possession'
  BY <1>0, <1>1, <1>2 DEF Known, Possession, IdentityOf
<1>7. Wanted'
  BY <1>0, <1>1 DEF Known, Wanted, clientVars
<1>8. Fresh'
  BY <1>0 DEF Known, Fresh, IdentityOf, Begun, ServedTo, clientVars
<1>9. CountsHolder'
  BY <1>0, <1>1 DEF CountsHolder, Begun
<1>10. Says'
  BY <1>0, <1>3 DEF Says, serverVars
<1>11. Chained'
  BY <1>0, <1>3, LineKept DEF Chained, serverVars
<1> QED BY <1>4, <1>5, <1>6, <1>7, <1>8, <1>9, <1>10, <1>11 DEF IInv

LEMMA ModifyStep ==
  ASSUME IInv, NEW c \in Clients, NEW v \in Values, Modify(c, v)
  PROVE  IInv'
<1>1. TypeOK'
  BY Typed, ModifyTypes
<1> QED BY <1>1, SameEverywhere DEF Modify

LEMMA Stutters == ASSUME IInv, UNCHANGED vars PROVE IInv'
<1>1. TypeOK'
  BY Typed DEF TypeOK, vars, bufs, lru, hash, store, serverVars, clientVars
<1> QED BY <1>1, SameEverywhere DEF vars, bufs

\* A load goes on.
LEMMA LoadGoesOn ==
  ASSUME IInv, NEW s \in Slots, Loading(s), server # "panicked",
         NEW to \in {"insert", "read", "wake"}, load' = [load EXCEPT ![s].stage = to],
         UNCHANGED <<lru, waiting, serverVars, clientVars>>
  PROVE  /\ Serving' /\ Calling' /\ Responding' /\ Awaited' /\ Wanted' /\ Chained' /\ Says'
         /\ \A c, r : Has(c, r)' <=> Has(c, r)
         /\ \A c : Wants(c)' = Wants(c)
         /\ \A r \in Slots : Taken(r)' <=> Taken(r)
         /\ \A r \in Slots : InUse(r)' <=> InUse(r)
         /\ load'[s].stage = to
         /\ \A r \in Slots : load'[r].block = load[r].block
         /\ \A r \in Slots : r # s => load'[r] = load[r]
<1>0. Known /\ CountsHolder /\ Chained /\ Says /\ TypeOK
  BY KnownIs, Typed
<1>1. /\ \A c, r : Has(c, r)' <=> Has(c, r)
      /\ \A c : Wants(c)' = Wants(c)
      /\ \A d : Quiet(d)' <=> Quiet(d)
  BY HoldersSame DEF clientVars
<1>2. /\ load'[s].stage = to /\ load'[s].block = load[s].block
      /\ \A r \in Slots : r # s => load'[r] = load[r]
  BY <1>0, StageTypes
<1>3. \A r \in Slots : Loading(r)' <=> Loading(r)
  BY <1>2 DEF Loading
<1>4. \A r \in Slots : Taken(r)' <=> Taken(r)
  BY <1>3 DEF Taken, serverVars
<1>5. \A r \in Slots : InUse(r)' <=> InUse(r)
  BY <1>1, <1>4 DEF InUse, serverVars
<1>6. Serving' /\ Calling' /\ Responding'
  BY <1>0 DEF Known, Serving, Calling, Responding, serverVars, clientVars
<1>7. \A r \in Slots : load'[r].block = load[r].block
  BY <1>2
<1>8. Awaited'
  <2>1. \A r \in Slots : waiting'[r] # <<>> => Loading(r)' \/ Given(r)'
    BY <1>0, <1>3 DEF Known, Awaited, Given, serverVars
  <2>2. \A r \in Slots : Loading(r)' =>
       \E c \in Clients : waiting'[r] = <<c>> /\ pc'[c] = "awaiting" /\ load'[r].block = req'[c].block
    BY <1>0, <1>3, <1>7 DEF Known, Awaited, ServedTo, clientVars
  <2>3. \A c \in Clients : pc'[c] = "awaiting" => \E r \in Slots : Loading(r)' /\ waiting'[r] = <<c>>
    BY <1>0, <1>3 DEF Known, Awaited, ServedTo, clientVars
  <2>4. /\ server' \in {"unhash", "lock"} => ~Loading(bp)'
        /\ server' = "reply" /\ ~res'.ready => ~Loading(bp)'
    <3>1. (server \in {"unhash", "lock"} => bp \in Slots) /\ (server = "reply" /\ ~res.ready => bp \in Slots)
      BY <1>0 DEF Known, Serving, Responding
    <3> QED BY <1>0, <1>3, <3>1 DEF Known, Awaited, serverVars, Loading
  <2> QED BY <1>0, <2>1, <2>2, <2>3, <2>4 DEF Known, Awaited, ServedTo
<1>9. Wanted'
  BY <1>0, <1>1 DEF Known, Wanted, clientVars
<1>10. Says'
  BY <1>0, <1>5 DEF Says, serverVars
<1>11. Chained'
  BY <1>0, <1>5, LineKept
<1> QED BY <1>1, <1>2, <1>4, <1>5, <1>6, <1>7, <1>8, <1>9, <1>10, <1>11

LEMMA InsertedStep ==
  ASSUME IInv, NEW s \in Slots, Begun(s), server # "panicked", TypeOK',
         NEW to \in {"insert", "read", "wake"}, load' = [load EXCEPT ![s].stage = to],
         UNCHANGED <<Devno, Blockno, count, lru, waiting, serverVars, clientVars>>
  PROVE  IInv'
<1>0. Known /\ CountsHolder /\ Chained /\ Says /\ Loading(s)
  BY KnownIs DEF Begun, Loading
<1>1. /\ Serving' /\ Calling' /\ Responding' /\ Awaited' /\ Wanted' /\ Chained' /\ Says'
      /\ \A c, r : Has(c, r)' <=> Has(c, r)
      /\ \A c : Wants(c)' = Wants(c)
      /\ \A r \in Slots : Taken(r)' <=> Taken(r)
      /\ load'[s].stage = to
      /\ \A r \in Slots : load'[r].block = load[r].block
      /\ \A r \in Slots : r # s => load'[r] = load[r]
  BY <1>0, LoadGoesOn
<1>2. \A r \in Slots : Begun(r)' <=> Begun(r)
  BY <1>1 DEF Begun
<1>3. Possession'
  BY <1>0, <1>1 DEF Known, Possession, IdentityOf
<1>4. Fresh'
  BY <1>0, <1>1, <1>2 DEF Known, Fresh, IdentityOf, ServedTo, clientVars
<1>5. CountsHolder'
  BY <1>0, <1>1, <1>2 DEF CountsHolder
<1> QED BY <1>1, <1>3, <1>4, <1>5 DEF IInv

LEMMA RehashStep == ASSUME IInv, NEW s \in Slots, Rehash(s) PROVE IInv'
<1>1. Begun(s)
  BY DEF Rehash, Step, Begun
<1> QED BY <1>1, RehashTypes, InsertedStep DEF Rehash, Step, bufs

LEMMA ReadStep == ASSUME IInv, NEW s \in Slots, Read(s) PROVE IInv'
<1>1. Begun(s)
  BY DEF Read, Step, Begun
<1> QED BY <1>1, ReadTypes, InsertedStep DEF Read, Step, bufs

LEMMA LoadBlockStep == ASSUME IInv, NEW s \in Slots, LoadBlock(s) PROVE IInv'
<1> DEFINE b == load[s].block
<1>0. /\ Known /\ CountsHolder /\ Chained /\ Says /\ Loading(s) /\ server # "panicked" /\ TypeOK
      /\ load[s].stage = "start"
      /\ UNCHANGED <<lru, waiting, serverVars, clientVars>>
      /\ load' = [load EXCEPT ![s].stage = "insert"]
  BY KnownIs, Typed DEF LoadBlock, Step, Loading
<1>1. /\ Serving' /\ Calling' /\ Responding' /\ Awaited' /\ Wanted' /\ Chained' /\ Says'
      /\ \A c, r : Has(c, r)' <=> Has(c, r)
      /\ \A c : Wants(c)' = Wants(c)
      /\ \A r \in Slots : Taken(r)' <=> Taken(r)
      /\ load'[s].stage = "insert"
      /\ \A r \in Slots : load'[r].block = load[r].block
      /\ \A r \in Slots : r # s => load'[r] = load[r]
  BY <1>0, LoadGoesOn
<1>2. PICK d \in Clients :
        /\ waiting[s] = <<d>> /\ req[d].op = "get" /\ b = req[d].block /\ b \in Blocks /\ Wants(d) = b
        /\ Taken(s) /\ \A c \in Clients : ~Has(c, s)
  BY <1>0, LoadedFor
<1>3. /\ IdentityOf(s)' = b
      /\ \A r \in Slots : r # s => IdentityOf(r)' = IdentityOf(r)
  <2>1. Devno' = [Devno EXCEPT ![s] = b[1]] /\ Blockno' = [Blockno EXCEPT ![s] = b[2]]
    BY DEF LoadBlock
  <2>2. Devno'[s] = b[1] /\ Blockno'[s] = b[2]
    BY <1>0, <2>1 DEF TypeOK
  <2>3. b = <<b[1], b[2]>>
    BY <1>2, NoBlockIsNone
  <2> QED BY <1>0, <2>1, <2>2, <2>3 DEF TypeOK, IdentityOf
<1>4. /\ Begun(s)' /\ ~Begun(s)
      /\ \A r \in Slots : r # s => (Begun(r)' <=> Begun(r))
  BY <1>0, <1>1 DEF Begun
<1>5. Possession'
  BY <1>0, <1>1, <1>2, <1>3 DEF Known, Possession
<1>6. \A r \in Slots : r # s => IdentityOf(r) # b
  BY <1>0, <1>2 DEF Known, Fresh, Awaited, ServedTo
<1>7. Fresh'
  <2>1. ASSUME NEW c \in Clients, NEW r \in Slots, req'[c].op = "get", IdentityOf(r)' = req'[c].block
        PROVE  Begun(r)' /\ waiting'[r] = <<c>>
    <3>1. req[c].op = "get" /\ IdentityOf(r)' = req[c].block /\ waiting'[r] = waiting[r]
      BY <1>0, <2>1 DEF clientVars
    <3>2. CASE r = s
      <4>1. Wants(c) = b
        BY <1>3, <3>1, <3>2 DEF Wants
      <4>2. c = d
        BY <1>0, <1>2, <4>1, NoBlockIsNone DEF Known, Wanted
      <4> QED BY <1>2, <1>4, <3>1, <3>2, <4>2
    <3>3. CASE r # s
      BY <1>0, <1>3, <1>4, <3>1, <3>3 DEF Known, Fresh, ServedTo
    <3> QED BY <3>2, <3>3
  <2>2. \A r \in Slots : Begun(r)' => IdentityOf(r)' = load'[r].block
    BY <1>0, <1>1, <1>3, <1>4 DEF Known, Fresh
  <2>3. \A r, t \in Slots : IdentityOf(r)' = IdentityOf(t)' /\ IdentityOf(r)' \in Blocks => r = t
    BY <1>0, <1>3, <1>6 DEF Known, Fresh
  <2>4. Blocks' = Blocks
    OBVIOUS
  <2> QED BY <2>1, <2>2, <2>3, <2>4 DEF Fresh, ServedTo
<1>8. CountsHolder'
  <2>1. count[s] = 0
    BY <1>0, <1>2, <1>4 DEF CountsHolder
  <2>2. count' = [count EXCEPT ![s] = 1]
    BY <1>0, <2>1 DEF LoadBlock, Counted, TypeOK
  <2>3. count'[s] = 1 /\ \A r \in Slots : r # s => count'[r] = count[r]
    BY <1>0, <2>2 DEF TypeOK
  <2> QED BY <1>0, <1>1, <1>4, <2>3 DEF CountsHolder
<1> QED BY <1>1, <1>5, <1>7, <1>8, LoadBlockTypes DEF IInv

LEMMA WakeStep ==
  ASSUME IInv, NEW s \in Slots, NEW c \in Clients, Wake(s, c)
  PROVE  IInv' /\ \A r \in Slots : InUse(r)' <=> InUse(r)
<1>0. /\ Known /\ CountsHolder /\ Chained /\ Says /\ server # "panicked" /\ TypeOK
      /\ load[s].stage = "wake" /\ pc[c] = "awaiting"
      /\ UNCHANGED <<bufs, lru, serverVars, awaits>>
  BY KnownIs, Typed DEF Wake
<1>1. /\ Loading(s) /\ waiting[s] = <<c>> /\ waiting' = [waiting EXCEPT ![s] = <<>>]
      /\ load' = [load EXCEPT ![s] = Idle]
      /\ req[c].op = "get" /\ req[c].block = load[s].block /\ req[c].block \in Blocks
      /\ pc' = [pc EXCEPT ![c] = "idle"] /\ req' = [req EXCEPT ![c] = NoRequest]
      /\ holds' = [holds EXCEPT ![c] = [slot |-> s, block |-> req[c].block]]
  BY Wakes
<1>2. /\ waiting'[s] = <<>> /\ load'[s] = Idle
      /\ \A r \in Slots : r # s => waiting'[r] = waiting[r] /\ load'[r] = load[r]
      /\ pc'[c] = "idle" /\ req'[c] = NoRequest /\ holds'[c] = [slot |-> s, block |-> req[c].block]
      /\ \A d \in Clients : d # c => pc'[d] = pc[d] /\ req'[d] = req[d] /\ holds'[d] = holds[d]
  BY <1>0, <1>1 DEF TypeOK
<1>3. NoRequest.op = "none" /\ NoRequest.slot = nil /\ s # nil /\ Nothing.slot = nil /\ Nothing.block = NoBlock
  BY NilIsNoSlot DEF NoRequest, Request, Nothing
<1>4. holds[c] = Nothing /\ awaits[c] = c
  BY <1>0, <1>1 DEF Known, Calling
<1>5. /\ \A r \in Slots : ~Has(c, r) /\ (Has(c, r)' <=> r = s)
      /\ \A d \in Clients, r \in Slots : d # c => (Has(d, r)' <=> Has(d, r))
  <2>1. \A r \in Slots : ~Has(c, r)
    BY <1>0, <1>3, <1>4, NilIsNoSlot DEF Has
  <2>2. \A r \in Slots : Has(c, r)' <=> r = s
    BY <1>2 DEF Has
  <2>3. \A d \in Clients, r \in Slots : d # c => (Has(d, r)' <=> Has(d, r))
    BY <1>2 DEF Has
  <2> QED BY <2>1, <2>2, <2>3
<1>6. \A d \in Clients : Wants(d)' = Wants(d)
  <2>1. Wants(c)' = Wants(c)
    BY <1>1, <1>2, <1>3 DEF Wants
  <2> QED BY <1>2, <2>1 DEF Wants
<1>7. ~Loading(s)' /\ \A r \in Slots : r # s => (Loading(r)' <=> Loading(r)) /\ (Begun(r)' <=> Begun(r))
  BY <1>2 DEF Loading, Idle, Begun
<1>8. Begun(s) /\ ~Begun(s)'
  BY <1>0, <1>7 DEF Begun, Loading
<1>9. /\ Taken(s) /\ ~Taken(s)'
      /\ \A r \in Slots : r # s => (Taken(r)' <=> Taken(r))
  BY <1>0, <1>1, <1>7 DEF Known, Awaited, Responding, Taken, serverVars
<1>10. \A r \in Slots : InUse(r)' <=> InUse(r)
  <2>1. InUse(s)' /\ InUse(s)
    BY <1>5, <1>9 DEF InUse
  <2>2. ASSUME NEW r \in Slots, r # s PROVE InUse(r)' <=> InUse(r)
    <3>1. (\E d \in Clients : Has(d, r)') <=> (\E d \in Clients : Has(d, r))
      BY <1>5, <2>2
    <3> QED BY <1>0, <1>9, <2>2, <3>1 DEF InUse, serverVars
  <2> QED BY <2>1, <2>2
<1>11. server \in {"unhash", "lock", "reply"} => cur # c
  BY <1>0 DEF Known, Serving
<1>12. cur \in Clients /\ bp \in Links
  BY <1>0 DEF TypeOK
<1>13. Serving'
  BY <1>0, <1>2, <1>11, <1>12 DEF Known, Serving, serverVars
<1>14. Calling'
  <2>1. \A d \in Clients : d # c => /\ pc'[d] = pc[d] /\ req'[d] = req[d]
                                  /\ holds'[d] = holds[d] /\ awaits'[d] = awaits[d]
    BY <1>0, <1>2
  <2>2. holds'[c].slot \in Slots /\ holds'[c].block \in Blocks
    BY <1>1, <1>2
  <2> QED BY <1>0, <1>2, <1>3, <2>1, <2>2 DEF Known, Calling
<1>15. Responding'
  <2>1. server = "reply" => req'[cur] = req[cur]
    BY <1>2, <1>11, <1>12
  <2>2. server = "reply" /\ ~res.ready => waiting'[bp] = <<cur>>
    BY <1>0, <1>1, <1>2, <1>11, <1>12 DEF Known, Responding
  <2> QED BY <1>0, <2>1, <2>2 DEF Known, Responding, serverVars
<1>16. Awaited'
  <2>1. \A r \in Slots : waiting'[r] # <<>> => Loading(r)' \/ Given(r)'
    BY <1>0, <1>2, <1>7 DEF Known, Awaited, Given, serverVars
  <2>2. ASSUME NEW r \in Slots, Loading(r)'
        PROVE  \E d \in Clients : waiting'[r] = <<d>> /\ pc'[d] = "awaiting" /\ load'[r].block = req'[d].block
    <3>1. r # s /\ Loading(r)
      BY <1>7, <2>2
    <3>2. PICK d \in Clients : waiting[r] = <<d>> /\ pc[d] = "awaiting" /\ load[r].block = req[d].block
      BY <1>0, <3>1 DEF Known, Awaited, ServedTo
    <3>3. d # c
      <4>1. \A u, v \in Slots : waiting[u] = waiting[v] /\ waiting[u] # <<>> => u = v
        BY <1>0 DEF Known, Awaited
      <4>2. <<d>> # <<>>
        OBVIOUS
      <4>3. waiting[r] # waiting[s]
        BY <3>1, <3>2, <4>1, <4>2
      <4> QED BY <1>1, <3>2, <4>3
    <3> QED BY <1>2, <3>1, <3>2, <3>3
  <2>3. ASSUME NEW d \in Clients, pc'[d] = "awaiting"
        PROVE  \E r \in Slots : Loading(r)' /\ waiting'[r] = <<d>>
    <3>1. d # c /\ pc[d] = "awaiting"
      BY <1>2, <2>3
    <3>2. PICK r \in Slots : Loading(r) /\ waiting[r] = <<d>>
      BY <1>0, <3>1 DEF Known, Awaited, ServedTo
    <3>3. r # s
      BY <1>1, <3>1, <3>2
    <3> QED BY <1>2, <1>7, <3>2, <3>3
  <2>4. \A r, t \in Slots : waiting'[r] = waiting'[t] /\ waiting'[r] # <<>> => r = t
    BY <1>0, <1>2 DEF Known, Awaited
  <2>5. /\ server' \in {"unhash", "lock"} => ~Loading(bp)'
        /\ server' = "reply" /\ ~res'.ready => ~Loading(bp)'
    <3>1. (server \in {"unhash", "lock"} => bp \in Slots) /\ (server = "reply" /\ ~res.ready => bp \in Slots)
      BY <1>0 DEF Known, Serving, Responding
    <3> QED BY <1>0, <1>1, <1>7, <3>1 DEF Known, Awaited, serverVars, Loading
  <2> QED BY <2>1, <2>2, <2>3, <2>4, <2>5 DEF Awaited, ServedTo
<1>17. \A r \in Slots : IdentityOf(r)' = IdentityOf(r)
  BY <1>0 DEF bufs, IdentityOf
<1>18. IdentityOf(s) = req[c].block
  BY <1>0, <1>1, <1>8 DEF Known, Fresh
<1>19. Possession'
  <2>1. ASSUME NEW d \in Clients, NEW r \in Slots, Has(d, r)'
        PROVE  /\ ~Taken(r)' /\ IdentityOf(r)' = Wants(d)' /\ Wants(d)' \in Blocks
               /\ \A e \in Clients : Has(e, r)' => e = d
    <3>1. CASE r = s
      <4>1. \A e \in Clients : ~Has(e, s)
        BY <1>0, <1>9 DEF Known, Possession
      <4>2. d = c /\ \A e \in Clients : Has(e, s)' => e = c
        BY <1>5, <2>1, <3>1, <4>1
      <4>3. Wants(c) = req[c].block
        BY <1>1 DEF Wants
      <4> QED BY <1>1, <1>6, <1>9, <1>17, <1>18, <3>1, <4>2, <4>3
    <3>2. CASE r # s
      <4>1. d # c /\ Has(d, r) /\ \A e \in Clients : Has(e, r)' => Has(e, r)
        BY <1>5, <2>1, <3>2
      <4> QED BY <1>0, <1>6, <1>9, <1>17, <3>2, <4>1 DEF Known, Possession
    <3> QED BY <3>1, <3>2
  <2> QED BY <2>1 DEF Possession
<1>20. Wanted'
  <2>1. \A d \in Clients : req'[d].op \in {"unmount", "invalidate"} =>
           req[d].op \in {"unmount", "invalidate"} /\ req'[d] = req[d]
    BY <1>2, <1>3
  <2>2. \A d : Quiet(d) => Quiet(d)'
    BY <1>6 DEF Quiet
  <2> QED BY <1>0, <1>6, <2>1, <2>2 DEF Known, Wanted
<1>21. Fresh'
  <2>1. ASSUME NEW d \in Clients, NEW r \in Slots, req'[d].op = "get", IdentityOf(r)' = req'[d].block
        PROVE  Begun(r)' /\ waiting'[r] = <<d>>
    <3>1. d # c /\ req'[d] = req[d]
      BY <1>2, <1>3, <2>1
    <3>2. Begun(r) /\ waiting[r] = <<d>>
      BY <1>0, <1>17, <2>1, <3>1 DEF Known, Fresh, ServedTo
    <3>3. r # s
      BY <1>1, <3>1, <3>2
    <3> QED BY <1>2, <1>7, <3>2, <3>3
  <2>2. \A r \in Slots : Begun(r)' => IdentityOf(r)' = load'[r].block
    BY <1>0, <1>2, <1>7, <1>8, <1>17 DEF Known, Fresh
  <2>3. \A r, t \in Slots : IdentityOf(r)' = IdentityOf(t)' /\ IdentityOf(r)' \in Blocks => r = t
    BY <1>0, <1>17 DEF Known, Fresh
  <2> QED BY <2>1, <2>2, <2>3 DEF Fresh, ServedTo
<1>22. CountsHolder'
  <2>1. ASSUME NEW r \in Slots
        PROVE  (Begun(r)' \/ \E d \in Clients : Has(d, r)') <=> (Begun(r) \/ \E d \in Clients : Has(d, r))
    BY <1>5, <1>7, <1>8
  <2>2. count' = count
    BY <1>0 DEF bufs
  <2> QED BY <1>0, <2>1, <2>2 DEF CountsHolder
<1>23. Says'
  BY <1>0, <1>10 DEF Says, serverVars
<1>24. Chained'
  BY <1>0, <1>10, LineKept
<1> QED BY <1>10, <1>13, <1>14, <1>15, <1>16, <1>19, <1>20, <1>21, <1>22, <1>23, <1>24, WakeTypes DEF IInv

LEMMA CallStep ==
  ASSUME NobodyAsks, IInv, NEW c \in Clients, NEW r \in Requests, Call(c, r)
  PROVE  IInv' /\ \A s \in Slots : InUse(s)' <=> InUse(s)
<1>0. /\ Known /\ CountsHolder /\ Chained /\ Says /\ server # "panicked" /\ TypeOK
      /\ pc[c] = "idle" /\ MayCall(c, r)
      /\ pc' = [pc EXCEPT ![c] = "sending"] /\ req' = [req EXCEPT ![c] = r]
      /\ holds' = IF r.op = "put" THEN [holds EXCEPT ![c] = Nothing] ELSE holds
      /\ UNCHANGED <<bufs, lru, hash, waiting, store, serverVars, load, awaits>>
  BY KnownIs, Typed DEF Call, Closing
<1>1. req[c] = NoRequest /\ req[c].op = "none"
  <2>1. req[c].op = "none"
    BY <1>0 DEF Known, Calling
  <2> QED BY <1>0, <2>1, RequestsAre DEF TypeOK
<1>2. /\ pc'[c] = "sending" /\ req'[c] = r
      /\ holds'[c] = IF r.op = "put" THEN Nothing ELSE holds[c]
      /\ \A d \in Clients : d # c => pc'[d] = pc[d] /\ req'[d] = req[d] /\ holds'[d] = holds[d]
  BY <1>0 DEF TypeOK
<1>3. /\ r.op \in {"get", "put", "mount", "unmount", "invalidate", "flush", "close"}
      /\ r.op \in {"get", "put"} => r.block \in Blocks
      /\ r.op = "get" => r.arg \in {"NORMAL", "NO_READ"}
      /\ IF r.op = "put" THEN r.slot \in Slots ELSE r.slot = nil
  BY RequestsAre DEF Requests, AllRequests, Request
<1>4. NoRequest.slot = nil /\ Nothing.slot = nil /\ Nothing.block = NoBlock
  BY DEF NoRequest, Request, Nothing
<1>5. r.op = "put" => holds[c] # Nothing /\ r.slot = holds[c].slot /\ r.block = holds[c].block
  BY <1>0 DEF MayCall
<1>6. r.op = "get" => /\ holds[c] = Nothing /\ ~GivenUp(r.block[1])
                      /\ ~Cached(r.block) /\ \A d \in Clients : Wants(d) # r.block
  BY <1>0 DEF MayCall, NobodyAsks
<1>7. \A d \in Clients, s \in Slots : Has(d, s)' <=> Has(d, s)
  <2>1. ASSUME NEW d \in Clients, NEW s \in Slots, d # c PROVE Has(d, s)' <=> Has(d, s)
    BY <1>2, <2>1 DEF Has
  <2>2. ASSUME NEW s \in Slots PROVE Has(c, s)' <=> Has(c, s)
    <3>1. s # nil
      BY NilIsNoSlot
    <3>2. Has(c, s) <=> holds[c].slot = s
      BY <1>0 DEF Has
    <3>3. Has(c, s)' <=> holds'[c].slot = s \/ r.slot = s
      BY <1>2 DEF Has
    <3> QED BY <1>2, <1>3, <1>4, <1>5, <3>1, <3>2, <3>3
  <2> QED BY <2>1, <2>2
<1>8. /\ \A d \in Clients : d # c => Wants(d)' = Wants(d)
      /\ Wants(c)' = IF r.op = "get" THEN r.block ELSE Wants(c)
  <2>1. \A d \in Clients : d # c => Wants(d)' = Wants(d)
    BY <1>2 DEF Wants
  <2>2. Wants(c) = holds[c].block
    BY <1>1 DEF Wants
  <2>3. Wants(c)' = IF r.op \in {"get", "put"} THEN r.block ELSE holds[c].block
    BY <1>2 DEF Wants
  <2> QED BY <1>5, <2>1, <2>2, <2>3
<1>9. r.op = "get" => Wants(c) = NoBlock
  BY <1>1, <1>4, <1>6 DEF Wants
<1>10. /\ \A s : Taken(s)' <=> Taken(s)
       /\ \A s : Loading(s)' <=> Loading(s)
       /\ \A s : Begun(s)' <=> Begun(s)
  BY <1>0 DEF Taken, Loading, Begun, serverVars
<1>11. \A s \in Slots : InUse(s)' <=> InUse(s)
  BY <1>0, <1>7, <1>10 DEF InUse, serverVars
<1>12. server \in {"unhash", "lock", "reply"} => cur # c
  BY <1>0 DEF Known, Serving
<1>13. cur \in Clients
  BY <1>0 DEF TypeOK
<1>14. Serving'
  BY <1>0, <1>2, <1>12, <1>13 DEF Known, Serving, serverVars
<1>15. Calling'
  <2>1. ASSUME NEW d \in Clients, d # c
        PROVE  pc'[d] = pc[d] /\ req'[d] = req[d] /\ holds'[d] = holds[d] /\ awaits'[d] = awaits[d]
    BY <1>0, <1>2, <2>1
  <2>2. holds[c] # Nothing => holds[c].slot \in Slots /\ holds[c].block \in Blocks
    BY <1>0 DEF Known, Calling
  <2>3. /\ pc'[c] # "idle" /\ pc'[c] # "awaiting" /\ req'[c].op # "none"
        /\ req'[c].op \in {"get", "put"} => holds'[c] = Nothing /\ req'[c].block \in Blocks
        /\ req'[c].op = "put" => req'[c].slot \in Slots
        /\ req'[c].op = "get" => req'[c].arg \in {"NORMAL", "NO_READ"}
        /\ holds'[c] # Nothing => holds'[c].slot \in Slots /\ holds'[c].block \in Blocks
    BY <1>2, <1>3, <1>5, <1>6, <2>2
  <2> QED BY <1>0, <2>1, <2>3 DEF Known, Calling
<1>16. Responding'
  <2>1. server = "reply" => req'[cur] = req[cur]
    BY <1>2, <1>12, <1>13
  <2> QED BY <1>0, <2>1 DEF Known, Responding, serverVars
<1>17. Awaited'
  <2>1. ASSUME NEW d \in Clients, pc[d] = "awaiting"
        PROVE  d # c /\ pc'[d] = pc[d] /\ req'[d] = req[d]
    BY <1>0, <1>2, <2>1
  <2>2. \A s \in Slots : Loading(s)' =>
       \E d \in Clients : waiting'[s] = <<d>> /\ pc'[d] = "awaiting" /\ load'[s].block = req'[d].block
    BY <1>0, <1>10, <2>1 DEF Known, Awaited, ServedTo
  <2>3. ASSUME NEW d \in Clients, pc'[d] = "awaiting"
        PROVE  \E s \in Slots : Loading(s)' /\ waiting'[s] = <<d>>
    <3>1. pc[d] = "awaiting"
      BY <1>2, <2>3
    <3> QED BY <1>0, <1>10, <3>1 DEF Known, Awaited, ServedTo
  <2> QED BY <1>0, <1>10, <2>2, <2>3 DEF Known, Awaited, ServedTo, Given, serverVars
<1>18. \A s : IdentityOf(s)' = IdentityOf(s)
  BY <1>0 DEF bufs, IdentityOf
<1>19. Possession'
  <2>1. ASSUME NEW d \in Clients, NEW s \in Slots, Has(d, s)
        PROVE  Wants(d)' = Wants(d)
    <3>1. CASE d # c
      BY <1>8, <3>1
    <3>2. CASE d = c
      <4>1. r.op # "get"
        BY <1>0, <1>9, <2>1, <3>2, NoBlockIsNone DEF Known, Possession
      <4> QED BY <1>8, <3>2, <4>1
    <3> QED BY <3>1, <3>2
  <2> QED BY <1>0, <1>7, <1>10, <1>18, <2>1 DEF Known, Possession
<1>20. Wanted'
  <2>1. ASSUME NEW d \in Clients, NEW e \in Clients, Wants(d)' = Wants(e)', Wants(d)' # NoBlock
        PROVE  d = e
    <3>1. CASE r.op = "get"
      BY <1>0, <1>6, <1>8, <2>1, <3>1 DEF Known, Wanted
    <3>2. CASE r.op # "get"
      BY <1>0, <1>8, <2>1, <3>2 DEF Known, Wanted
    <3> QED BY <3>1, <3>2
  <2>2. ASSUME NEW d \in Clients, req'[d].op \in {"unmount", "invalidate"}, NEW e \in Clients
        PROVE  Wants(e)'[1] # req'[d].block[1]
    <3>1. \A x \in Clients : Wants(x)[1] # req'[d].block[1]
      <4>1. CASE d = c
        BY <1>0, <1>2, <2>2, <4>1 DEF MayCall, Quiet
      <4>2. CASE d # c
        BY <1>0, <1>2, <2>2, <4>2 DEF Known, Wanted, Quiet
      <4> QED BY <4>1, <4>2
    <3>2. CASE e = c /\ r.op = "get"
      <4>1. d # c /\ req'[d] = req[d]
        BY <1>2, <2>2, <3>2
      <4>2. ~(req[d].op \in {"unmount", "invalidate"} /\ req[d].block[1] = r.block[1])
        BY <1>6, <3>2 DEF GivenUp
      <4> QED BY <1>8, <2>2, <3>2, <4>1, <4>2
    <3>3. CASE ~(e = c /\ r.op = "get")
      <4>1. Wants(e)' = Wants(e)
        BY <1>8, <3>3
      <4> QED BY <3>1, <4>1
    <3> QED BY <3>2, <3>3
  <2> QED BY <2>1, <2>2 DEF Wanted, Quiet
<1>21. Fresh'
  <2>1. ASSUME NEW d \in Clients, NEW s \in Slots, req'[d].op = "get", IdentityOf(s) = req'[d].block
        PROVE  Begun(s) /\ waiting[s] = <<d>>
    <3>1. CASE d = c
      BY <1>2, <1>6, <2>1, <3>1 DEF Cached
    <3>2. CASE d # c
      BY <1>0, <1>2, <2>1, <3>2 DEF Known, Fresh, ServedTo
    <3> QED BY <3>1, <3>2
  <2> QED BY <1>0, <1>10, <1>18, <2>1 DEF Known, Fresh, ServedTo
<1>22. CountsHolder'
  <2>1. count' = count
    BY <1>0 DEF bufs
  <2> QED BY <1>0, <1>7, <1>10, <2>1 DEF CountsHolder
<1>23. Says'
  BY <1>0, <1>11 DEF Says, serverVars
<1>24. Chained'
  BY <1>0, <1>11, LineKept
<1>25. TypeOK'
  BY <1>0, CallTypes
<1> QED BY <1>11, <1>14, <1>15, <1>16, <1>17, <1>19, <1>20, <1>21, <1>22, <1>23, <1>24, <1>25 DEF IInv
-----------------------------------------------------------------------------
(* Steps of the server *)

\* A request is received: the server becomes busy with it.
LEMMA Received ==
  ASSUME IInv, NEW c \in Clients, NEW op, Receive(c, op)
  PROVE  /\ server = "loop" /\ pc[c] = "sending" /\ req[c].op = op
         /\ pc' = [pc EXCEPT ![c] = "receiving"] /\ cur' = c /\ UNCHANGED <<req, awaits, holds, load>>
         /\ \A d \in Clients : pc[d] # "receiving"
         /\ \A d \in Clients : Wants(d)' = Wants(d)
         /\ \A d : Quiet(d)' <=> Quiet(d)
         /\ \A d \in Clients, s \in Slots : Has(d, s)' <=> Has(d, s) /\ ~(d = c /\ op = "put")
         /\ \A s : Taken(s) <=> Loading(s)
         /\ \A s \in Slots : InUse(s) <=> Loading(s) \/ \E d \in Clients : Has(d, s)
<1>0. TypeOK /\ Known
  BY KnownIs, Typed
<1>1. /\ server = "loop" /\ pc[c] = "sending" /\ req[c].op = op
      /\ pc' = [pc EXCEPT ![c] = "receiving"] /\ cur' = c /\ UNCHANGED <<req, awaits, holds, load>>
  BY DEF Receive, Ready
<1>2. \A d \in Clients : pc[d] # "receiving"
  BY <1>0, <1>1 DEF Known, Serving
<1>3. \A d : Wants(d)' = Wants(d)
  BY <1>1 DEF Wants
<1>4. \A d : Quiet(d)' <=> Quiet(d)
  BY <1>3 DEF Quiet
<1>5. \A d \in Clients, s \in Slots : Has(d, s)' <=> Has(d, s) /\ ~(d = c /\ op = "put")
  <2>1. \A d \in Clients, s \in Slots : d # c => (Has(d, s)' <=> Has(d, s))
    BY <1>0, <1>1 DEF Has, TypeOK
  <2>2. ASSUME NEW s \in Slots PROVE Has(c, s)' <=> Has(c, s) /\ op # "put"
    <3>1. Has(c, s)' <=> holds[c].slot = s
      BY <1>0, <1>1 DEF Has, TypeOK
    <3>2. Has(c, s) <=> holds[c].slot = s \/ req[c].slot = s
      BY <1>1 DEF Has
    <3>3. op = "put" => holds[c].slot # s
      BY <1>0, <1>1, NilIsNoSlot DEF Known, Calling, Nothing
    <3>4. op # "put" => req[c].slot # s
      BY <1>0, <1>1, NilIsNoSlot, RequestsAre, NextSlotTypes
    <3> QED BY <3>1, <3>2, <3>3, <3>4
  <2> QED BY <2>1, <2>2
<1>6. \A s : Taken(s) <=> Loading(s)
  BY <1>1 DEF Taken
<1>7. \A s \in Slots : InUse(s) <=> Loading(s) \/ \E d \in Clients : Has(d, s)
  BY <1>1, <1>6 DEF InUse
<1> QED BY <1>1, <1>2, <1>3, <1>4, <1>5, <1>6, <1>7

\* What a request that is received leaves as it was, whatever becomes of it.
LEMMA Receiving ==
  ASSUME IInv, NEW c \in Clients, NEW op, Receive(c, op), TypeOK',
         server' \in {"unhash", "reply", "hung"},
         server' = "unhash" => op = "get" /\ bp' \in Slots,
         UNCHANGED waiting,
         \A s \in Slots : Taken(s)' /\ ~Taken(s) => \A d \in Clients : ~Has(d, s),
         \A s \in Slots : Taken(s) => Taken(s)',
         server' = "unhash" => ~Loading(bp'),
         server' = "reply" => res'.ready
  PROVE  /\ Serving' /\ Calling' /\ Awaited' /\ Wanted'
         /\ UNCHANGED <<Devno, Blockno>> => Possession' /\ Fresh'
<1>0. TypeOK /\ Known
  BY KnownIs, Typed
<1>1. /\ server = "loop" /\ pc[c] = "sending" /\ req[c].op = op
      /\ pc' = [pc EXCEPT ![c] = "receiving"] /\ cur' = c /\ UNCHANGED <<req, awaits, holds, load>>
      /\ \A d \in Clients : pc[d] # "receiving"
      /\ \A d \in Clients : Wants(d)' = Wants(d)
      /\ \A d : Quiet(d)' <=> Quiet(d)
      /\ \A d \in Clients, s \in Slots : Has(d, s)' <=> Has(d, s) /\ ~(d = c /\ op = "put")
  BY Received
<1>2. /\ pc'[c] = "receiving"
      /\ \A d \in Clients : d # c => pc'[d] = pc[d]
  BY <1>0, <1>1 DEF TypeOK
<1>3. Serving'
  BY <1>0, <1>1, <1>2 DEF Known, Serving
<1>4. Calling'
  <2>1. \A d \in Clients : (pc'[d] = "idle" <=> pc[d] = "idle") /\ (pc'[d] = "awaiting" <=> pc[d] = "awaiting")
    BY <1>1, <1>2
  <2> QED BY <1>0, <1>1, <2>1 DEF Known, Calling
<1>5. Awaited'
  <2>1. \A d \in Clients : pc'[d] = "awaiting" <=> pc[d] = "awaiting"
    BY <1>1, <1>2
  <2>2. \A s \in Slots : waiting'[s] # <<>> => Loading(s)'
    BY <1>0, <1>1 DEF Known, Awaited, Given, Loading
  <2>3. \A s : Loading(s)' <=> Loading(s)
    BY <1>1 DEF Loading
  <2> QED BY <1>0, <1>1, <2>1, <2>2, <2>3 DEF Known, Awaited, ServedTo
<1>6. Wanted'
  BY <1>0, <1>1 DEF Known, Wanted
<1>7. ASSUME UNCHANGED <<Devno, Blockno>> PROVE Possession' /\ Fresh'
  <2>1. \A s : IdentityOf(s)' = IdentityOf(s)
    BY <1>7 DEF IdentityOf
  <2>2. \A s : Begun(s)' <=> Begun(s)
    BY <1>1 DEF Begun
  <2>3. Fresh'
    BY <1>0, <1>1, <2>1, <2>2 DEF Known, Fresh, ServedTo
  <2>4. Possession'
    BY <1>0, <1>1, <2>1 DEF Known, Possession
  <2> QED BY <2>3, <2>4
<1> QED BY <1>3, <1>4, <1>5, <1>6, <1>7

\* A request that is answered at once, with neither a buffer nor a change of the
\* table of buffers.
LEMMA Answered ==
  ASSUME IInv, NEW c \in Clients, NEW op, Receive(c, op), TypeOK',
         NEW kind, Respond(kind, nil, TRUE), Expects(op, kind), kind = "async" <=> op = "get",
         UNCHANGED waiting
  PROVE  /\ Serving' /\ Calling' /\ Responding' /\ Awaited' /\ Wanted'
         /\ UNCHANGED <<Devno, Blockno>> => Possession' /\ Fresh'
         /\ \A s \in Slots : Taken(s)' <=> Taken(s)
         /\ \A s \in Slots : InUse(s)' <=> Taken(s) \/ \E d \in Clients : Has(d, s)'
         /\ server' = "reply" /\ res'.kind = kind
<1>1. server' = "reply" /\ res'.ready /\ res'.slot = nil /\ res'.kind = kind
  BY DEF Respond
<1>2. /\ req' = req /\ cur' = c /\ req[c].op = op /\ load' = load
      /\ \A s : Taken(s) <=> Loading(s)
  BY Received
<1>3. \A s \in Slots : Taken(s)' <=> Taken(s)
  BY <1>1, <1>2 DEF Taken, Loading
<1>4. Responding'
  BY <1>1, <1>2 DEF Responding
<1>5. \A s \in Slots : InUse(s)' <=> Taken(s) \/ \E d \in Clients : Has(d, s)'
  BY <1>1, <1>3, NilIsNoSlot DEF InUse
<1>6. /\ Serving' /\ Calling' /\ Awaited' /\ Wanted'
      /\ UNCHANGED <<Devno, Blockno>> => Possession' /\ Fresh'
  BY <1>1, <1>3, Receiving
<1> QED BY <1>1, <1>3, <1>4, <1>5, <1>6

\* Such a request that changes no buffer.
LEMMA OtherAnswered ==
  ASSUME IInv, NEW c \in Clients, NEW op, Receive(c, op), TypeOK', op \notin {"put", "get"},
         NEW kind, Respond(kind, nil, TRUE), Expects(op, kind), kind # "async",
         UNCHANGED <<waiting, count, lru>>
  PROVE  /\ Serving' /\ Calling' /\ Responding' /\ Awaited' /\ Wanted' /\ CountsHolder' /\ Chained' /\ Says'
         /\ UNCHANGED <<Devno, Blockno>> => Possession' /\ Fresh'
         /\ \A d \in Clients, s \in Slots : Has(d, s)' <=> Has(d, s)
         /\ \A s \in Slots : Taken(s)' <=> Taken(s)
<1>0. CountsHolder /\ Chained
  BY KnownIs
<1>1. /\ Serving' /\ Calling' /\ Responding' /\ Awaited' /\ Wanted'
      /\ UNCHANGED <<Devno, Blockno>> => Possession' /\ Fresh'
      /\ \A s \in Slots : Taken(s)' <=> Taken(s)
      /\ \A s \in Slots : InUse(s)' <=> Taken(s) \/ \E d \in Clients : Has(d, s)'
      /\ server' = "reply" /\ res'.kind # "async"
  BY Answered
<1>2. /\ load' = load /\ server = "loop"
      /\ \A d \in Clients, s \in Slots : Has(d, s)' <=> Has(d, s)
      /\ \A s : Taken(s) <=> Loading(s)
      /\ \A s \in Slots : InUse(s) <=> Loading(s) \/ \E d \in Clients : Has(d, s)
  BY Received
<1>3. \A s \in Slots : InUse(s)' <=> InUse(s)
  BY <1>1, <1>2
<1>4. Chained'
  BY <1>0, <1>2, <1>3, LineKept
<1>5. CountsHolder'
  BY <1>0, <1>2 DEF CountsHolder, Begun
<1>6. Says'
  BY <1>1 DEF Says
<1> QED BY <1>1, <1>2, <1>4, <1>5, <1>6

LEMMA Expected ==
  Expects("mount", "err") /\ Expects("unmount", "err") /\ Expects("close", "err")
    /\ Expects("put", "err") /\ Expects("flush", "empty") /\ Expects("invalidate", "empty")
    /\ Expects("get", "async")
BY DEF Expects

LEMMA OtherKept ==
  ASSUME IInv, NEW c \in Clients, NEW op \in {"mount", "unmount", "flush", "close"}, Receive(c, op), TypeOK',
         NEW kind \in {"err", "empty"}, Respond(kind, nil, TRUE), Expects(op, kind),
         UNCHANGED <<Devno, Blockno, count, lru, waiting>>
  PROVE  IInv'
<1>1. op \notin {"put", "get"} /\ kind # "async"
  OBVIOUS
<1>2. /\ Serving' /\ Calling' /\ Responding' /\ Awaited' /\ Wanted' /\ CountsHolder' /\ Chained' /\ Says'
      /\ Possession' /\ Fresh'
  BY <1>1, OtherAnswered
<1> QED BY <1>2 DEF IInv

LEMMA MountStep == ASSUME IInv, NEW c \in Clients, MountDevice(c) PROVE IInv'
<1>1. TypeOK'
  BY Typed, MountTypes
<1>2. Receive(c, "mount") /\ Respond("err", nil, TRUE) /\ UNCHANGED <<Devno, Blockno, count, lru, waiting>>
  BY DEF MountDevice, bufs
<1> QED BY <1>1, <1>2, OtherKept, Expected

LEMMA UnmountStep == ASSUME IInv, NEW c \in Clients, UnmountDevice(c) PROVE IInv'
<1>1. TypeOK'
  BY Typed, UnmountTypes
<1>2. Receive(c, "unmount") /\ Respond("err", nil, TRUE) /\ UNCHANGED <<Devno, Blockno, count, lru, waiting>>
  BY DEF UnmountDevice, bufs
<1> QED BY <1>1, <1>2, OtherKept, Expected

LEMMA FlushStep == ASSUME IInv, NEW c \in Clients, Flush(c) PROVE IInv'
<1>1. TypeOK'
  BY Typed, FlushTypes
<1>2. Receive(c, "flush") /\ Respond("empty", nil, TRUE) /\ UNCHANGED <<Devno, Blockno, count, lru, waiting>>
  BY DEF Flush, Answer, bufs
<1> QED BY <1>1, <1>2, OtherKept, Expected

LEMMA CloseStep == ASSUME IInv, NEW c \in Clients, CloseRequest(c) PROVE IInv'
<1>1. TypeOK'
  BY Typed, CloseTypes
<1>2. Receive(c, "close") /\ Respond("err", nil, TRUE) /\ UNCHANGED <<Devno, Blockno, count, lru, waiting>>
  BY DEF CloseRequest, bufs
<1> QED BY <1>1, <1>2, OtherKept, Expected

\* A device is invalidated when nobody wants a block of it.
LEMMA InvalidateStep == ASSUME IInv, NEW c \in Clients, Invalidate(c) PROVE IInv'
<1> DEFINE d == req[c].block[1]
<1>0. /\ Known /\ TypeOK /\ TypeOK' /\ Receive(c, "invalidate") /\ Respond("empty", nil, TRUE)
      /\ Devno' = [s \in Slots |-> IF Devno[s] = d THEN NO_DEV ELSE Devno[s]]
      /\ UNCHANGED <<Blockno, count, waiting, lru>>
  BY KnownIs, Typed, InvalidateTypes DEF Invalidate, Answer
<1>1. /\ Serving' /\ Calling' /\ Responding' /\ Awaited' /\ Wanted' /\ CountsHolder' /\ Chained' /\ Says'
      /\ \A e \in Clients, s \in Slots : Has(e, s)' <=> Has(e, s)
      /\ \A s \in Slots : Taken(s)' <=> Taken(s)
  BY <1>0, OtherAnswered, Expected
<1>2. /\ req' = req /\ load' = load /\ req[c].op = "invalidate"
      /\ \A e \in Clients : Wants(e)' = Wants(e)
  BY <1>0, Received
<1>3. \A e \in Clients : Wants(e)[1] # d
  BY <1>0, <1>2 DEF Known, Wanted, Quiet
<1>4. ASSUME NEW s \in Slots
      PROVE  /\ IdentityOf(s)[1] # d => IdentityOf(s)' = IdentityOf(s)
             /\ IdentityOf(s)' \in Blocks => IdentityOf(s)' = IdentityOf(s)
  <2>1. Devno'[s] = IF Devno[s] = d THEN NO_DEV ELSE Devno[s]
    BY <1>0
  <2>2. IdentityOf(s)' = <<Devno'[s], Blockno[s]>> /\ IdentityOf(s) = <<Devno[s], Blockno[s]>>
    BY <1>0 DEF IdentityOf
  <2>3. <<NO_DEV, Blockno[s]>> \notin Blocks
    BY NoBlockIsNone
  <2> QED BY <2>1, <2>2, <2>3
<1>5. Possession'
  <2>1. ASSUME NEW e \in Clients, NEW s \in Slots, Has(e, s)
        PROVE  IdentityOf(s)' = IdentityOf(s)
    BY <1>0, <1>3, <1>4, <2>1 DEF Known, Possession
  <2> QED BY <1>0, <1>1, <1>2, <2>1 DEF Known, Possession
<1>6. Fresh'
  <2>1. \A s : Begun(s)' <=> Begun(s)
    BY <1>2 DEF Begun
  <2>2. ASSUME NEW e \in Clients, NEW s \in Slots, req[e].op = "get", IdentityOf(s)' = req[e].block
        PROVE  Begun(s) /\ waiting[s] = <<e>>
    <3>1. req[e].block \in Blocks
      BY <1>0, <2>2 DEF Known, Calling
    <3>2. IdentityOf(s) = req[e].block
      BY <1>4, <2>2, <3>1
    <3> QED BY <1>0, <2>2, <3>2 DEF Known, Fresh, ServedTo
  <2>3. ASSUME NEW s \in Slots, Begun(s)
        PROVE  IdentityOf(s)' = load[s].block
    <3>1. Loading(s)
      BY <2>3 DEF Begun, Loading
    <3>2. PICK e \in Clients : load[s].block = Wants(e)
      BY <3>1, LoadedFor
    <3>3. IdentityOf(s) = load[s].block
      BY <1>0, <2>3 DEF Known, Fresh
    <3> QED BY <1>3, <1>4, <3>2, <3>3
  <2>4. \A r, s \in Slots : IdentityOf(r)' = IdentityOf(s)' /\ IdentityOf(r)' \in Blocks => r = s
    BY <1>0, <1>4 DEF Known, Fresh
  <2> QED BY <1>0, <1>2, <2>1, <2>2, <2>3, <2>4 DEF Fresh, ServedTo
<1> QED BY <1>0, <1>1, <1>5, <1>6 DEF IInv
-----------------------------------------------------------------------------
(* The chain of free buffers *)

LEMMA TailIs ==
  ASSUME NEW q \in Seq(Slots), Len(q) > 0
  PROVE  /\ Tail(q) \in Seq(Slots) /\ Len(Tail(q)) = Len(q) - 1 /\ Len(q) \in Nat
         /\ \A i \in 1 .. Len(q) - 1 : Tail(q)[i] = q[i + 1]
OBVIOUS

LEMMA AppendIs ==
  ASSUME NEW q \in Seq(Slots), NEW s \in Slots
  PROVE  /\ Append(q, s) \in Seq(Slots) /\ Len(Append(q, s)) = Len(q) + 1 /\ Len(q) \in Nat
         /\ Append(q, s)[Len(q) + 1] = s
         /\ \A i \in 1 .. Len(q) : Append(q, s)[i] = q[i]
OBVIOUS

LEMMA PrependIs ==
  ASSUME NEW q \in Seq(Slots), NEW s \in Slots
  PROVE  /\ <<s>> \o q \in Seq(Slots) /\ Len(<<s>> \o q) = Len(q) + 1 /\ Len(q) \in Nat
         /\ (<<s>> \o q)[1] = s
         /\ \A i \in 2 .. Len(q) + 1 : (<<s>> \o q)[i] = q[i - 1]
<1>1. <<s>> \in Seq(Slots) /\ Len(<<s>>) = 1 /\ <<s>>[1] = s
  OBVIOUS
<1>2. /\ <<s>> \o q \in Seq(Slots) /\ Len(<<s>> \o q) = 1 + Len(q)
      /\ \A i \in 1 .. 1 + Len(q) : (<<s>> \o q)[i] = IF i <= 1 THEN <<s>>[i] ELSE q[i - 1]
  BY <1>1
<1>3. Len(q) \in Nat
  OBVIOUS
<1> QED BY <1>1, <1>2, <1>3

\* q is linked, in terms of its length.
LinkedBy(q, n) ==
  /\ front = IF n = 0 THEN nil ELSE q[1]
  /\ rear = IF n = 0 THEN nil ELSE q[n]
  /\ \A i \in 1 .. n :
       /\ next[q[i]] = IF i = n THEN nil ELSE q[i + 1]
       /\ prev[q[i]] = IF i = 1 THEN nil ELSE q[i - 1]

LEMMA LinkedIs ==
  ASSUME NEW q \in Seq(Slots), NEW n \in Nat, Len(q) = n
  PROVE  Linked(q) <=> LinkedBy(q, n)
<1>1. DOMAIN q = 1 .. n
  OBVIOUS
<1>2. /\ 1 \in DOMAIN q <=> n # 0
      /\ n \in DOMAIN q <=> n # 0
      /\ \A i \in DOMAIN q : (i + 1 \in DOMAIN q <=> i # n) /\ (i - 1 \in DOMAIN q <=> i # 1)
  BY <1>1
<1> QED BY <1>1, <1>2 DEF Linked, LinkedBy

LEMMA LinkedIsNext ==
  ASSUME NEW q \in Seq(Slots), NEW n \in Nat, Len(q) = n
  PROVE  Linked(q)' <=> LinkedBy(q, n)'
<1>1. DOMAIN q = 1 .. n
  OBVIOUS
<1>2. /\ 1 \in DOMAIN q <=> n # 0
      /\ n \in DOMAIN q <=> n # 0
      /\ \A i \in DOMAIN q : (i + 1 \in DOMAIN q <=> i # n) /\ (i - 1 \in DOMAIN q <=> i # 1)
  BY <1>1
<1> QED BY <1>1, <1>2 DEF Linked, LinkedBy

LEMMA RemoveFirst ==
  ASSUME TypeOK, NEW q \in Seq(Slots), Len(q) > 0, \A i, j \in 1 .. Len(q) : q[i] = q[j] => i = j,
         Linked(q), rm_lru(q[1]), NEW p \in Seq(Slots), Len(p) = Len(q) - 1,
         \A i \in 1 .. Len(p) : p[i] = q[i + 1]
  PROVE  Linked(p)'
<1>1. PICK k \in Nat : k = Len(q) /\ k > 0
  OBVIOUS
<1>2. /\ front = q[1] /\ rear = q[k] /\ prev[q[1]] = nil
      /\ \A i \in 1 .. k : next[q[i]] = IF i = k THEN nil ELSE q[i + 1]
      /\ \A i \in 1 .. k : prev[q[i]] = IF i = 1 THEN nil ELSE q[i - 1]
      /\ \A i \in 1 .. k : q[i] \in Slots /\ q[i] # nil
  <2>1. \A i \in 1 .. k : q[i] \in Slots
    BY <1>1
  <2>2. LinkedBy(q, k)
    BY <1>1, LinkedIs
  <2>3. \A i \in 1 .. k : q[i] # nil
    BY <2>1, NilIsNoSlot
  <2> QED BY <1>1, <2>1, <2>2, <2>3 DEF LinkedBy
<1>3. next \in [Slots -> Links] /\ prev \in [Slots -> Links]
  BY DEF TypeOK
<1>4. front' = next[q[1]] /\ next' = next
  BY <1>2 DEF rm_lru
<1>5. IF next[q[1]] # nil THEN prev' = [prev EXCEPT ![next[q[1]]] = nil] /\ UNCHANGED rear
                          ELSE rear' = nil /\ UNCHANGED prev
  BY <1>2 DEF rm_lru
<1>6. CASE k = 1
  <2>1. Len(p) = 0 /\ next[q[1]] = nil
    BY <1>1, <1>2, <1>6
  <2>2. front' = nil /\ rear' = nil
    BY <1>4, <1>5, <2>1
  <2>3. LinkedBy(p, 0)'
    BY <2>2 DEF LinkedBy
  <2>4. 0 \in Nat /\ Len(p) = 0
    BY <2>1
  <2> QED BY <2>3, <2>4, LinkedIsNext
<1>7. CASE k > 1
  <2>1. next[q[1]] = q[2] /\ q[2] \in Slots /\ q[2] # nil
    BY <1>1, <1>2, <1>7
  <2>2. front' = q[2] /\ rear' = q[k] /\ prev' = [prev EXCEPT ![q[2]] = nil]
    BY <1>2, <1>4, <1>5, <2>1
  <2>3. PICK l \in Nat : l = k - 1 /\ l > 0 /\ Len(p) = l
    BY <1>1, <1>7
  <2>4. front' = p[1] /\ rear' = p[l]
    BY <2>2, <2>3
  <2>5. ASSUME NEW i \in 1 .. l
        PROVE  /\ next'[p[i]] = IF i = l THEN nil ELSE p[i + 1]
               /\ prev'[p[i]] = IF i = 1 THEN nil ELSE p[i - 1]
    <3>1. p[i] = q[i + 1] /\ i + 1 \in 1 .. k /\ (i + 1 = k <=> i = l) /\ i + 1 # 1
      BY <2>3
    <3>2. i # l => p[i + 1] = q[i + 1 + 1]
      BY <2>3
    <3>3. next'[p[i]] = IF i = l THEN nil ELSE p[i + 1]
      BY <1>2, <1>4, <3>1, <3>2
    <3>4. i # 1 => i - 1 \in 1 .. l /\ p[i - 1] = q[i]
      BY <2>3
    <3>5. q[i + 1] = q[2] <=> i = 1
      BY <1>1, <1>7, <3>1
    <3>6. prev[q[i + 1]] = q[i]
      BY <1>2, <3>1
    <3>7. prev'[p[i]] = IF i = 1 THEN nil ELSE p[i - 1]
      BY <1>2, <1>3, <2>2, <3>1, <3>4, <3>5, <3>6
    <3> QED BY <3>3, <3>7
  <2>6. LinkedBy(p, l)'
    BY <2>3, <2>4, <2>5 DEF LinkedBy
  <2> QED BY <2>3, <2>6, LinkedIsNext
<1> QED BY <1>1, <1>6, <1>7

LEMMA AddLast ==
  ASSUME TypeOK, NEW q \in Seq(Slots), NEW s \in Slots, \A i \in 1 .. Len(q) : q[i] # s,
         Linked(q), PutRear(s), NEW p \in Seq(Slots), Len(p) = Len(q) + 1, p[Len(q) + 1] = s,
         \A i \in 1 .. Len(q) : p[i] = q[i],
         \A i, j \in 1 .. Len(q) : q[i] = q[j] => i = j
  PROVE  Linked(p)'
<1>1. PICK k \in Nat : k = Len(q)
  OBVIOUS
<1>2. LinkedBy(q, k)
  BY <1>1, LinkedIs
<1>3. \A i \in 1 .. k : q[i] \in Slots /\ q[i] # nil
  <2>1. \A i \in 1 .. k : q[i] \in Slots
    BY <1>1
  <2> QED BY <2>1, NilIsNoSlot
<1>4. next \in [Slots -> Links] /\ prev \in [Slots -> Links]
  BY DEF TypeOK
<1>5. \A i \in 1 .. k : p[i] = q[i] /\ q[i] # s
  BY <1>1
<1>6. p[k + 1] = s
  BY <1>1
<1>7. prev' = [prev EXCEPT ![s] = rear] /\ rear' = s
  BY DEF PutRear
<1>8. LinkedBy(p, k + 1)'
  <2>1. CASE k = 0
    <3>1. rear = nil /\ front = nil
      BY <1>2, <2>1 DEF LinkedBy
    <3>2. next' = [next EXCEPT ![s] = nil] /\ front' = s
      BY <3>1 DEF PutRear
    <3>3. next'[s] = nil /\ prev'[s] = nil
      BY <1>4, <1>7, <3>1, <3>2
    <3> QED BY <1>6, <1>7, <2>1, <3>2, <3>3 DEF LinkedBy
  <2>2. CASE k # 0
    <3>1. rear = q[k] /\ front = q[1] /\ rear \in Slots /\ rear # nil /\ rear # s
      BY <1>2, <1>3, <1>5, <2>2 DEF LinkedBy
    <3>2. next' = [next EXCEPT ![s] = nil, ![rear] = s] /\ front' = front
      BY <3>1 DEF PutRear
    <3>3. next'[s] = nil /\ prev'[s] = q[k] /\ next'[q[k]] = s
      BY <1>4, <1>7, <3>1, <3>2
    <3>4. \A t \in Slots : (t # s /\ t # q[k] => next'[t] = next[t]) /\ (t # s => prev'[t] = prev[t])
      BY <1>4, <1>7, <3>1, <3>2
    <3>5. ASSUME NEW i \in 1 .. k + 1
          PROVE  /\ next'[p[i]] = IF i = k + 1 THEN nil ELSE p[i + 1]
                 /\ prev'[p[i]] = IF i = 1 THEN nil ELSE p[i - 1]
      <4>1. CASE i = k + 1
        <5>1. p[i] = s /\ i - 1 = k /\ k \in 1 .. k /\ i # 1 /\ p[k] = q[k]
          BY <1>5, <1>6, <2>2, <4>1
        <5> QED BY <3>3, <4>1, <5>1
      <4>2. CASE i = k
        <5>1. p[i] = q[k] /\ q[k] # s /\ p[i + 1] = s /\ i # k + 1 /\ i \in 1 .. k
          BY <1>5, <1>6, <2>2, <4>2
        <5>2. prev'[p[i]] = prev[q[i]]
          BY <1>3, <3>4, <4>2, <5>1
        <5>3. i # 1 => i - 1 \in 1 .. k
          BY <5>1
        <5> QED BY <1>2, <1>5, <3>3, <5>1, <5>2, <5>3 DEF LinkedBy
      <4>3. CASE i # k + 1 /\ i # k
        <5>1. i \in 1 .. k /\ i + 1 \in 1 .. k /\ (i # 1 => i - 1 \in 1 .. k)
          BY <4>3
        <5>2. p[i] = q[i] /\ p[i + 1] = q[i + 1] /\ (i # 1 => p[i - 1] = q[i - 1]) /\ q[i] # s
          BY <1>5, <5>1
        <5>3. q[i] # q[k]
          BY <1>1, <2>2, <4>3, <5>1
        <5>4. next'[q[i]] = next[q[i]] /\ prev'[q[i]] = prev[q[i]]
          BY <1>3, <3>4, <5>1, <5>2, <5>3
        <5> QED BY <1>2, <4>3, <5>1, <5>2, <5>4 DEF LinkedBy
      <4> QED BY <4>1, <4>2, <4>3
    <3>6. k + 1 # 0 /\ 1 \in 1 .. k /\ p[1] = q[1]
      BY <1>5, <2>2
    <3> QED BY <1>6, <1>7, <3>1, <3>2, <3>5, <3>6 DEF LinkedBy
  <2> QED BY <2>1, <2>2
<1>9. k + 1 \in Nat /\ Len(p) = k + 1
  BY <1>1
<1> QED BY <1>8, <1>9, LinkedIsNext

LEMMA AddFirst ==
  ASSUME TypeOK, NEW q \in Seq(Slots), NEW s \in Slots, \A i \in 1 .. Len(q) : q[i] # s,
         Linked(q), PutFront(s), NEW p \in Seq(Slots), Len(p) = Len(q) + 1, p[1] = s,
         \A i \in 2 .. Len(q) + 1 : p[i] = q[i - 1],
         \A i, j \in 1 .. Len(q) : q[i] = q[j] => i = j
  PROVE  Linked(p)'
<1>1. PICK k \in Nat : k = Len(q)
  OBVIOUS
<1>2. LinkedBy(q, k)
  BY <1>1, LinkedIs
<1>3. \A i \in 1 .. k : q[i] \in Slots /\ q[i] # nil
  <2>1. \A i \in 1 .. k : q[i] \in Slots
    BY <1>1
  <2> QED BY <2>1, NilIsNoSlot
<1>4. next \in [Slots -> Links] /\ prev \in [Slots -> Links]
  BY DEF TypeOK
<1>5. \A i \in 1 .. k : p[i + 1] = q[i] /\ q[i] # s
  <2> TAKE i \in 1 .. k
  <2>1. i + 1 \in 2 .. Len(q) + 1 /\ i + 1 - 1 = i
    BY <1>1
  <2> QED BY <1>1, <2>1
<1>6. p[1] = s
  OBVIOUS
<1>7. next' = [next EXCEPT ![s] = front] /\ front' = s
  BY DEF PutFront
<1>8. LinkedBy(p, k + 1)'
  <2>1. CASE k = 0
    <3>1. rear = nil /\ front = nil
      BY <1>2, <2>1 DEF LinkedBy
    <3>2. prev' = [prev EXCEPT ![s] = nil] /\ rear' = s
      BY <3>1 DEF PutFront
    <3>3. next'[s] = nil /\ prev'[s] = nil
      BY <1>4, <1>7, <3>1, <3>2
    <3> QED BY <1>6, <1>7, <2>1, <3>2, <3>3 DEF LinkedBy
  <2>2. CASE k # 0
    <3>0. 1 \in 1 .. k /\ k \in 1 .. k
      BY <2>2
    <3>1. rear = q[k] /\ front = q[1] /\ front \in Slots /\ front # nil /\ front # s
      BY <1>2, <1>3, <1>5, <2>2, <3>0 DEF LinkedBy
    <3>2. prev' = [prev EXCEPT ![s] = nil, ![front] = s] /\ rear' = rear
      BY <3>1 DEF PutFront
    <3>3. prev'[s] = nil /\ next'[s] = q[1] /\ prev'[q[1]] = s
      BY <1>4, <1>7, <3>1, <3>2
    <3>4. \A t \in Slots : (t # s /\ t # q[1] => prev'[t] = prev[t]) /\ (t # s => next'[t] = next[t])
      BY <1>4, <1>7, <3>1, <3>2
    <3>5. ASSUME NEW i \in 1 .. k + 1
          PROVE  /\ next'[p[i]] = IF i = k + 1 THEN nil ELSE p[i + 1]
                 /\ prev'[p[i]] = IF i = 1 THEN nil ELSE p[i - 1]
      <4>1. CASE i = 1
        <5>1. p[i] = s /\ i # k + 1 /\ p[i + 1] = q[1]
          BY <1>5, <1>6, <2>2, <3>0, <4>1
        <5> QED BY <3>3, <4>1, <5>1
      <4>2. CASE i # 1
        <5>1. PICK j \in 1 .. k : j = i - 1 /\ i = j + 1
          BY <4>2
        <5>2. p[i] = q[j] /\ q[j] # s /\ q[j] \in Slots
          BY <1>3, <1>5, <5>1
        <5>3. next'[p[i]] = IF i = k + 1 THEN nil ELSE p[i + 1]
          <6>1. next'[p[i]] = IF j = k THEN nil ELSE q[j + 1]
            <7>1. next[q[j]] = IF j = k THEN nil ELSE q[j + 1]
              BY <1>2 DEF LinkedBy
            <7> QED BY <3>4, <5>2, <7>1
          <6>2. j # k => j + 1 \in 1 .. k /\ p[j + 1 + 1] = q[j + 1]
            BY <1>5
          <6>3. (i = k + 1 <=> j = k) /\ i + 1 = j + 1 + 1
            BY <5>1
          <6> QED BY <6>1, <6>2, <6>3
        <5>4. prev'[p[i]] = p[i - 1]
          <6>1. CASE j = 1
            BY <1>6, <3>3, <5>1, <5>2, <6>1
          <6>2. CASE j # 1
            <7>1. j - 1 \in 1 .. k /\ p[j - 1 + 1] = q[j - 1] /\ j - 1 + 1 = i - 1
              BY <1>5, <5>1, <6>2
            <7>2. q[j] # q[1]
              BY <1>1, <3>0, <6>2
            <7>3. prev'[q[j]] = prev[q[j]] /\ prev[q[j]] = q[j - 1]
              BY <1>2, <3>4, <5>2, <6>2, <7>2 DEF LinkedBy
            <7> QED BY <5>2, <7>1, <7>3
          <6> QED BY <6>1, <6>2
        <5> QED BY <4>2, <5>3, <5>4
      <4> QED BY <4>1, <4>2
    <3>6. k + 1 # 0 /\ p[k + 1] = q[k]
      BY <1>5, <3>0
    <3> QED BY <1>6, <1>7, <3>1, <3>2, <3>5, <3>6 DEF LinkedBy
  <2> QED BY <2>1, <2>2
<1>9. k + 1 \in Nat /\ Len(p) = k + 1
  BY <1>1
<1> QED BY <1>8, <1>9, LinkedIsNext

LEMMA LineFacts ==
  ASSUME NEW q \in Seq(Slots), Line(q)
  PROVE  /\ Linked(q)
         /\ Len(q) \in Nat
         /\ \A i, j \in 1 .. Len(q) : q[i] = q[j] => i = j
         /\ \A i \in 1 .. Len(q) : q[i] \in Slots /\ ~InUse(q[i])
         /\ \A s \in Slots : ~InUse(s) => \E i \in 1 .. Len(q) : q[i] = s
         /\ front = IF Len(q) = 0 THEN nil ELSE q[1]
<1>1. Linked(q) /\ Len(q) \in Nat
  BY DEF Line
<1>2. LinkedBy(q, Len(q))
  BY <1>1, LinkedIs
<1>3. \A i \in 1 .. Len(q) : q[i] \in Slots
  OBVIOUS
<1> QED BY <1>1, <1>2, <1>3 DEF Line, LinkedBy

LEMMA LineTaken ==
  ASSUME TypeOK, NEW q \in Seq(Slots), Line(q), front # nil, rm_lru(front),
         \A s \in Slots : InUse(s)' <=> InUse(s) \/ s = front
  PROVE  /\ Tail(q) \in Seq(Slots) /\ Line(Tail(q))'
         /\ Len(q) > 0 /\ front = q[1] /\ ~InUse(front) /\ front \in Slots
<1>1. PICK k \in Nat : k = Len(q)
  OBVIOUS
<1>2. /\ Linked(q)
      /\ \A i, j \in 1 .. k : q[i] = q[j] => i = j
      /\ \A i \in 1 .. k : q[i] \in Slots /\ ~InUse(q[i])
      /\ \A s \in Slots : ~InUse(s) => \E i \in 1 .. k : q[i] = s
      /\ front = IF k = 0 THEN nil ELSE q[1]
  BY <1>1, LineFacts
<1>3. k > 0 /\ front = q[1] /\ 1 \in 1 .. k
  BY <1>2
<1>4. PICK p \in Seq(Slots) : p = Tail(q) /\ Len(p) = k - 1 /\ \A i \in 1 .. k - 1 : p[i] = q[i + 1]
  BY <1>1, <1>3, TailIs
<1>5. Linked(p)'
  <2>1. Linked(q) /\ \A i, j \in 1 .. Len(q) : q[i] = q[j] => i = j
    BY LineFacts
  <2>2. rm_lru(q[1]) /\ Len(q) > 0
    BY <1>1, <1>3
  <2>3. Len(p) = Len(q) - 1 /\ \A i \in 1 .. Len(p) : p[i] = q[i + 1]
    BY <1>1, <1>4
  <2> QED BY <2>1, <2>2, <2>3, RemoveFirst
<1>6. \A i, j \in 1 .. Len(p) : p[i] = p[j] => i = j
  <2> TAKE i, j \in 1 .. Len(p)
  <2>1. i + 1 \in 1 .. k /\ j + 1 \in 1 .. k /\ p[i] = q[i + 1] /\ p[j] = q[j + 1]
    BY <1>4
  <2>2. i + 1 = j + 1 => i = j
    BY <1>4
  <2> QED BY <1>2, <2>1, <2>2
<1>7. \A s \in Slots : ~InUse(s)' <=> \E i \in 1 .. Len(p) : p[i] = s
  <2>1. ASSUME NEW s \in Slots, ~InUse(s)'
        PROVE  \E i \in 1 .. Len(p) : p[i] = s
    <3>1. ~InUse(s) /\ s # q[1]
      BY <1>3, <2>1
    <3>2. PICK i \in 1 .. k : q[i] = s
      BY <1>2, <3>1
    <3>3. i - 1 \in 1 .. Len(p) /\ p[i - 1] = q[i]
      <4>1. i # 1
        BY <3>1, <3>2
      <4>2. i - 1 \in 1 .. k - 1 /\ i - 1 + 1 = i
        BY <4>1
      <4> QED BY <1>4, <4>2
    <3> QED BY <3>2, <3>3
  <2>2. ASSUME NEW s \in Slots, NEW i \in 1 .. Len(p), p[i] = s
        PROVE  ~InUse(s)'
    <3>1. i + 1 \in 1 .. k /\ p[i] = q[i + 1] /\ i + 1 # 1
      BY <1>4
    <3>2. s # q[1]
      BY <1>2, <1>3, <2>2, <3>1
    <3> QED BY <1>2, <1>3, <2>2, <3>1, <3>2
  <2> QED BY <2>1, <2>2
<1>8. Line(p)'
  BY <1>5, <1>6, <1>7 DEF Line
<1> QED BY <1>1, <1>2, <1>3, <1>4, <1>8

\* A buffer that is not free becomes the last free one or the first.
LEMMA LineAdded ==
  ASSUME TypeOK, NEW q \in Seq(Slots), Line(q), NEW s \in Slots, InUse(s), ~InUse(s)',
         \A r \in Slots : r # s => (InUse(r)' <=> InUse(r)), PutFront(s) \/ PutRear(s)
  PROVE  \E p \in Seq(Slots) : Line(p)' /\ p \in {Append(q, s), <<s>> \o q}
<1>1. PICK k \in Nat : k = Len(q)
  OBVIOUS
<1>2. /\ Linked(q)
      /\ \A i, j \in 1 .. k : q[i] = q[j] => i = j
      /\ \A i \in 1 .. k : q[i] \in Slots /\ ~InUse(q[i])
      /\ \A r \in Slots : ~InUse(r) => \E i \in 1 .. k : q[i] = r
  BY <1>1, LineFacts
<1>3. \A i \in 1 .. k : q[i] # s /\ q[i] \in Slots /\ ~InUse(q[i])'
  BY <1>2
<1>4. CASE PutRear(s)
  <2>1. PICK p \in Seq(Slots) : p = Append(q, s) /\ Len(p) = k + 1 /\ p[k + 1] = s /\ \A i \in 1 .. k : p[i] = q[i]
    BY <1>1, AppendIs
  <2>2. Linked(p)'
    <3>1. Linked(q) /\ \A i, j \in 1 .. Len(q) : q[i] = q[j] => i = j
      BY LineFacts
    <3>2. \A i \in 1 .. Len(q) : q[i] # s
      BY <1>1, <1>3
    <3>3. Len(p) = Len(q) + 1 /\ p[Len(q) + 1] = s /\ \A i \in 1 .. Len(q) : p[i] = q[i]
      BY <1>1, <2>1
    <3> QED BY <1>4, <3>1, <3>2, <3>3, AddLast
  <2>3. \A i, j \in 1 .. Len(p) : p[i] = p[j] => i = j
    <3> TAKE i, j \in 1 .. Len(p)
    <3>1. (i = k + 1 \/ i \in 1 .. k) /\ (j = k + 1 \/ j \in 1 .. k)
      BY <2>1
    <3> QED BY <1>2, <1>3, <2>1, <3>1
  <2>4. \A r \in Slots : ~InUse(r)' <=> \E i \in 1 .. Len(p) : p[i] = r
    <3>1. ASSUME NEW r \in Slots, ~InUse(r)'
          PROVE  \E i \in 1 .. Len(p) : p[i] = r
      <4>1. CASE r = s
        BY <2>1, <4>1
      <4>2. CASE r # s
        <5>1. PICK i \in 1 .. k : q[i] = r
          BY <1>2, <3>1, <4>2
        <5> QED BY <2>1, <5>1
      <4> QED BY <4>1, <4>2
    <3>2. ASSUME NEW i \in 1 .. Len(p)
          PROVE  ~InUse(p[i])'
      <4>1. i = k + 1 \/ i \in 1 .. k
        BY <2>1
      <4> QED BY <1>3, <2>1, <4>1
    <3> QED BY <3>1, <3>2
  <2> QED BY <2>1, <2>2, <2>3, <2>4 DEF Line
<1>5. CASE PutFront(s)
  <2>1. PICK p \in Seq(Slots) : p = <<s>> \o q /\ Len(p) = k + 1 /\ p[1] = s /\ \A i \in 2 .. k + 1 : p[i] = q[i - 1]
    BY <1>1, PrependIs
  <2>2. Linked(p)'
    <3>1. Linked(q) /\ \A i, j \in 1 .. Len(q) : q[i] = q[j] => i = j
      BY LineFacts
    <3>2. \A i \in 1 .. Len(q) : q[i] # s
      BY <1>1, <1>3
    <3>3. Len(p) = Len(q) + 1 /\ p[1] = s /\ \A i \in 2 .. Len(q) + 1 : p[i] = q[i - 1]
      BY <1>1, <2>1
    <3> QED BY <1>5, <3>1, <3>2, <3>3, AddFirst
  <2>3. ASSUME NEW i \in 1 .. Len(p), i # 1
        PROVE  i - 1 \in 1 .. k /\ p[i] = q[i - 1]
    <3>1. i \in 2 .. k + 1
      BY <2>1, <2>3
    <3> QED BY <2>1, <3>1
  <2>4. \A i, j \in 1 .. Len(p) : p[i] = p[j] => i = j
    <3> TAKE i, j \in 1 .. Len(p)
    <3>1. CASE i = 1 \/ j = 1
      BY <1>3, <2>1, <2>3, <3>1
    <3>2. CASE i # 1 /\ j # 1
      <4>1. i - 1 = j - 1 => i = j
        BY <2>1
      <4> QED BY <1>2, <2>3, <3>2, <4>1
    <3> QED BY <3>1, <3>2
  <2>5. \A r \in Slots : ~InUse(r)' <=> \E i \in 1 .. Len(p) : p[i] = r
    <3>1. ASSUME NEW r \in Slots, ~InUse(r)'
          PROVE  \E i \in 1 .. Len(p) : p[i] = r
      <4>1. CASE r = s
        BY <2>1, <4>1
      <4>2. CASE r # s
        <5>1. PICK i \in 1 .. k : q[i] = r
          BY <1>2, <3>1, <4>2
        <5>2. i + 1 \in 1 .. Len(p) /\ i + 1 # 1 /\ i + 1 - 1 = i
          BY <2>1
        <5> QED BY <2>3, <5>1, <5>2
      <4> QED BY <4>1, <4>2
    <3>2. ASSUME NEW i \in 1 .. Len(p)
          PROVE  ~InUse(p[i])'
      <4>1. CASE i = 1
        BY <2>1, <4>1
      <4>2. CASE i # 1
        BY <1>3, <2>3, <4>2
      <4> QED BY <4>1, <4>2
    <3> QED BY <3>1, <3>2
  <2> QED BY <2>1, <2>2, <2>4, <2>5 DEF Line
<1> QED BY <1>4, <1>5

LEMMA PutBlockStep ==
  ASSUME IInv, NEW c \in Clients, PutBlock(c)
  PROVE  /\ IInv' /\ UNCHANGED load
         /\ \A s \in Slots : Taken(s)' <=> Taken(s)
         /\ \E s \in Slots :
              /\ InUse(s) /\ ~InUse(s)' /\ \A r \in Slots : r # s => (InUse(r)' <=> InUse(r))
              /\ PutFront(s) \/ PutRear(s)
<1>0. /\ Known /\ CountsHolder /\ Chained /\ TypeOK /\ TypeOK'
      /\ Receive(c, "put") /\ Respond("err", nil, TRUE) /\ pc[c] = "sending" /\ req[c].op = "put"
      /\ UNCHANGED <<Devno, Blockno, waiting>>
  BY KnownIs, Typed, PutBlockTypes DEF PutBlock, Receive
<1>1. PICK s \in Slots : s = req[c].slot /\ Has(c, s) /\ count[s] = 1 /\ ~StillInUse(s) /\ ~Taken(s)
  BY <1>0, Returning
<1>2. count' = [count EXCEPT ![s] = 0] /\ (PutFront(s) \/ PutRear(s))
  BY <1>0, <1>1 DEF PutBlock, TypeOK
<1>3. /\ Serving' /\ Calling' /\ Responding' /\ Awaited' /\ Wanted'
      /\ Possession' /\ Fresh'
      /\ \A r \in Slots : Taken(r)' <=> Taken(r)
      /\ \A r \in Slots : InUse(r)' <=> Taken(r) \/ \E d \in Clients : Has(d, r)'
      /\ server' = "reply" /\ res'.kind = "err"
  <2>1. Expects("put", "err") /\ ("err" = "async" <=> "put" = "get")
    BY Expected
  <2> QED BY <1>0, <2>1, Answered
<1>4. /\ load' = load /\ server = "loop"
      /\ \A d \in Clients, r \in Slots : Has(d, r)' <=> Has(d, r) /\ d # c
      /\ \A r : Taken(r) <=> Loading(r)
      /\ \A r \in Slots : InUse(r) <=> Loading(r) \/ \E d \in Clients : Has(d, r)
  BY <1>0, Received
<1>5. \A r \in Slots : Has(c, r) => r = s
  <2> SUFFICES ASSUME NEW r \in Slots, Has(c, r) PROVE r = s
    OBVIOUS
  <2>1. holds[c] = Nothing
    BY <1>0 DEF Known, Calling
  <2>2. holds[c].slot # r
    BY <2>1, NilIsNoSlot DEF Nothing
  <2> QED BY <1>1, <2>2 DEF Has
<1>6. \A d \in Clients : Has(d, s) => d = c
  BY <1>0, <1>1 DEF Known, Possession
<1>7. \A r \in Slots : r # s =>
        ((\E d \in Clients : Has(d, r)') <=> (\E d \in Clients : Has(d, r)))
  BY <1>4, <1>5
<1>8. ~(\E d \in Clients : Has(d, s)')
  BY <1>4, <1>6
<1>9. CountsHolder'
  <2>1. \A r : Begun(r)' <=> Begun(r)
    BY <1>4 DEF Begun
  <2>2. ~Begun(s)
    BY <1>1, <1>4 DEF Begun, Loading
  <2>3. count'[s] = 0 /\ \A r \in Slots : r # s => count'[r] = count[r]
    BY <1>0, <1>1, <1>2 DEF TypeOK
  <2> QED BY <1>0, <1>7, <1>8, <2>1, <2>2, <2>3 DEF CountsHolder
<1>10. Says'
  BY <1>3 DEF Says
<1>11. InUse(s) /\ ~InUse(s)' /\ \A r \in Slots : r # s => (InUse(r)' <=> InUse(r))
  BY <1>1, <1>3, <1>4, <1>7, <1>8
<1>12. Chained'
  <2>1. PICK q \in Seq(Slots) : Line(q)
    BY <1>0, <1>4 DEF Chained
  <2>2. PICK p \in Seq(Slots) : Line(p)'
    BY <1>0, <1>1, <1>2, <1>11, <2>1, LineAdded
  <2> QED BY <2>2 DEF Chained
<1> QED BY <1>0, <1>2, <1>3, <1>4, <1>9, <1>10, <1>11, <1>12 DEF IInv

\* The buffer taken for a block is the first free one.
GotNone(c) == Respond("async", nil, TRUE) /\ UNCHANGED <<bp, prev_ptr, lru>> /\ front = nil
GotHung == server' = "hung" /\ UNCHANGED <<bp, prev_ptr, res, lru>>
GotOldest ==
  /\ front \in Slots /\ rm_lru(front) /\ bp' = front
  /\ prev_ptr' = buf_hash[Bucket(Blockno[front])]
  /\ server' = "unhash" /\ UNCHANGED res
LEMMA Got ==
  ASSUME IInv, NEW c \in Clients, GetBlock(c)
  PROVE  /\ Receive(c, "get") /\ pc[c] = "sending" /\ req[c].op = "get"
         /\ UNCHANGED <<bufs, hash, waiting, store>>
         /\ (GotHung /\ Endless(buf_hash[Bucket(req[c].block[2])])) \/ GotNone(c) \/ GotOldest
<1>1. Receive(c, "get") /\ pc[c] = "sending" /\ req[c].op = "get" /\ UNCHANGED <<bufs, hash, waiting, store>>
  BY DEF GetBlock, Receive
<1>2. Search(req[c].block) = nil
  BY <1>1, NotFound
<1>3. front \in Links
  BY Typed DEF TypeOK
<1>4. \/ server' = "hung" /\ UNCHANGED <<bp, prev_ptr, res, lru>> /\ Endless(buf_hash[Bucket(req[c].block[2])])
      \/ Respond("async", nil, TRUE) /\ UNCHANGED <<bp, prev_ptr, lru>> /\ Oldest = nil
      \/ /\ Oldest # nil /\ rm_lru(Oldest)
         /\ bp' = Oldest
         /\ prev_ptr' = buf_hash[Bucket(Blockno[Oldest])]
         /\ server' = "unhash"
         /\ UNCHANGED res
  BY <1>2 DEF GetBlock
<1> QED BY <1>1, <1>3, <1>4, NilIsNoSlot DEF Oldest, GotNone, GotHung, GotOldest

LEMMA GetNone ==
  ASSUME IInv, NEW c \in Clients, GetBlock(c), GotNone(c)
  PROVE  IInv' /\ (\A s \in Slots : InUse(s)' <=> InUse(s)) /\ \A s \in Slots : InUse(s)
<1>0. /\ Known /\ CountsHolder /\ Chained /\ TypeOK /\ TypeOK'
      /\ Receive(c, "get") /\ Respond("async", nil, TRUE)
      /\ UNCHANGED <<Devno, Blockno, waiting, count, lru>> /\ front = nil
  BY KnownIs, Typed, GetTypes, Got DEF bufs, GotNone
<1>1. /\ Serving' /\ Calling' /\ Responding' /\ Awaited' /\ Wanted'
      /\ Possession' /\ Fresh'
      /\ \A r \in Slots : Taken(r)' <=> Taken(r)
      /\ \A r \in Slots : InUse(r)' <=> Taken(r) \/ \E d \in Clients : Has(d, r)'
      /\ server' = "reply" /\ res'.kind = "async"
  <2>1. Expects("get", "async") /\ ("async" = "async" <=> "get" = "get")
    BY Expected
  <2> QED BY <1>0, <2>1, Answered
<1>2. /\ load' = load /\ server = "loop"
      /\ \A d \in Clients, r \in Slots : Has(d, r)' <=> Has(d, r)
      /\ \A r : Taken(r) <=> Loading(r)
      /\ \A r \in Slots : InUse(r) <=> Loading(r) \/ \E d \in Clients : Has(d, r)
  BY <1>0, Received
<1>3. \A r \in Slots : InUse(r)' <=> InUse(r)
  BY <1>1, <1>2
<1>4. \A r \in Slots : InUse(r)
  <2>1. PICK q \in Seq(Slots) : Line(q)
    BY <1>0, <1>2 DEF Chained
  <2>2. /\ \A i \in 1 .. Len(q) : q[i] \in Slots
        /\ \A s \in Slots : ~InUse(s) => \E i \in 1 .. Len(q) : q[i] = s
        /\ front = IF Len(q) = 0 THEN nil ELSE q[1]
        /\ Len(q) \in Nat
    BY <2>1, LineFacts
  <2>3. Len(q) = 0
    BY <1>0, <2>2, NilIsNoSlot
  <2> QED BY <2>2, <2>3
<1>5. CountsHolder'
  BY <1>0, <1>2 DEF CountsHolder, Begun
<1>6. Says'
  BY <1>3, <1>4 DEF Says
<1>7. Chained'
  BY <1>0, <1>2, <1>3, LineKept
<1> QED BY <1>0, <1>1, <1>3, <1>4, <1>5, <1>6, <1>7 DEF IInv

LEMMA GetHung ==
  ASSUME IInv, NEW c \in Clients, GetBlock(c), GotHung
  PROVE  IInv' /\ \A s \in Slots : InUse(s)' <=> InUse(s)
<1>0. /\ Known /\ CountsHolder /\ Chained /\ TypeOK /\ TypeOK'
      /\ Receive(c, "get") /\ server' = "hung" /\ res' = res
      /\ UNCHANGED <<Devno, Blockno, waiting, count, lru>>
  BY KnownIs, Typed, GetTypes, Got DEF bufs, GotHung
<1>1. /\ load' = load /\ server = "loop"
      /\ \A d \in Clients, r \in Slots : Has(d, r)' <=> Has(d, r)
      /\ \A r : Taken(r) <=> Loading(r)
      /\ \A r \in Slots : InUse(r) <=> Loading(r) \/ \E d \in Clients : Has(d, r)
  BY <1>0, Received
<1>2. \A r : Taken(r)' <=> Taken(r)
  BY <1>0, <1>1 DEF Taken, Loading
<1>3. /\ Serving' /\ Calling' /\ Awaited' /\ Wanted' /\ Possession' /\ Fresh'
  BY <1>0, <1>2, Receiving
<1>4. \A r \in Slots : InUse(r)' <=> InUse(r)
  BY <1>0, <1>1, <1>2 DEF InUse
<1>5. CountsHolder'
  BY <1>0, <1>1 DEF CountsHolder, Begun
<1>6. Says' /\ Responding'
  BY <1>0 DEF Says, Responding
<1>7. Chained'
  BY <1>0, <1>1, <1>4, LineKept
<1> QED BY <1>0, <1>3, <1>4, <1>5, <1>6, <1>7 DEF IInv

LEMMA GetOldest ==
  ASSUME IInv, NEW c \in Clients, GetBlock(c), GotOldest
  PROVE  /\ IInv' /\ ~InUse(front)
         /\ \A s \in Slots : InUse(s)' <=> InUse(s) \/ s = front
         /\ \A s \in Slots : Taken(s)' <=> Taken(s) \/ s = front
<1>0. /\ Known /\ CountsHolder /\ Chained /\ TypeOK /\ TypeOK'
      /\ Receive(c, "get") /\ server' = "unhash" /\ res' = res
      /\ bp' = front /\ front \in Slots /\ rm_lru(front) /\ front # nil
      /\ UNCHANGED <<Devno, Blockno, waiting, count>>
  BY KnownIs, Typed, GetTypes, Got, NilIsNoSlot DEF bufs, GotOldest
<1>1. /\ load' = load /\ server = "loop"
      /\ \A d \in Clients, r \in Slots : Has(d, r)' <=> Has(d, r)
      /\ \A r : Taken(r) <=> Loading(r)
      /\ \A r \in Slots : InUse(r) <=> Loading(r) \/ \E d \in Clients : Has(d, r)
  BY <1>0, Received
<1>2. \A r \in Slots : Taken(r)' <=> Taken(r) \/ r = front
  BY <1>0, <1>1 DEF Taken, Loading
<1>3. \A r \in Slots : InUse(r)' <=> InUse(r) \/ r = front
  BY <1>0, <1>1, <1>2 DEF InUse
<1>4. PICK q \in Seq(Slots) : Line(q)
  BY <1>0, <1>1 DEF Chained
<1>5. Tail(q) \in Seq(Slots) /\ Line(Tail(q))' /\ ~InUse(front)
  BY <1>0, <1>3, <1>4, LineTaken
<1>6. Chained'
  <2>1. PICK p \in Seq(Slots) : Line(p)'
    <3>1. PICK p \in Seq(Slots) : p = Tail(q)
      BY <1>5
    <3> QED BY <1>5, <3>1
  <2> QED BY <2>1 DEF Chained
<1>7. ~Loading(front) /\ \A d \in Clients : ~Has(d, front)
  BY <1>0, <1>1, <1>5
<1>8. /\ Serving' /\ Calling' /\ Awaited' /\ Wanted' /\ Possession' /\ Fresh'
  <2>1. ~Loading(bp')
    BY <1>0, <1>7
  <2>2. \A s \in Slots : Taken(s)' /\ ~Taken(s) => \A d \in Clients : ~Has(d, s)
    BY <1>2, <1>7
  <2>3. \A s \in Slots : Taken(s) => Taken(s)'
    BY <1>2
  <2>4. bp' \in Slots /\ ("get" = "get")
    BY <1>0
  <2> QED BY <1>0, <2>1, <2>2, <2>3, <2>4, Receiving
<1>9. CountsHolder'
  BY <1>0, <1>1 DEF CountsHolder, Begun
<1>10. Says' /\ Responding'
  BY <1>0 DEF Says, Responding
<1> QED BY <1>0, <1>2, <1>3, <1>5, <1>6, <1>8, <1>9, <1>10 DEF IInv

LEMMA GetStep == ASSUME IInv, NEW c \in Clients, GetBlock(c) PROVE IInv'
BY Got, GetNone, GetHung, GetOldest

LEMMA UnhashStep == ASSUME IInv, Unhash PROVE IInv'
<1>0. /\ Known /\ CountsHolder /\ Chained /\ TypeOK /\ TypeOK' /\ server = "unhash"
      /\ server' \in {"lock", "panicked"}
      /\ UNCHANGED <<bufs, lru, waiting, bp, cur, res, load, clientVars>>
  BY KnownIs, Typed, UnhashTypes DEF Unhash
<1>1. /\ \A c, s : Has(c, s)' <=> Has(c, s)
      /\ \A c : Wants(c)' = Wants(c)
      /\ \A d : Quiet(d)' <=> Quiet(d)
  BY <1>0, HoldersSame DEF clientVars
<1>2. Serving' /\ Calling' /\ Responding'
  BY <1>0 DEF Known, Serving, Calling, Responding, clientVars
<1>3. Awaited'
  BY <1>0 DEF Known, Awaited, Loading, Given, ServedTo, clientVars
<1>4. \A s : Taken(s)' => Taken(s)
  BY <1>0 DEF Taken, Loading
<1>5. server' = "lock" => \A s : Taken(s)' <=> Taken(s)
  BY <1>0 DEF Taken, Loading
<1>6. Possession'
  BY <1>0, <1>1, <1>4 DEF Known, Possession, IdentityOf, bufs
<1>7. Wanted'
  BY <1>0, <1>1 DEF Known, Wanted, clientVars
<1>8. Fresh'
  BY <1>0 DEF Known, Fresh, IdentityOf, Begun, ServedTo, clientVars, bufs
<1>9. CountsHolder'
  BY <1>0, <1>1 DEF CountsHolder, Begun, bufs
<1>10. Says'
  BY <1>0 DEF Says
<1>11. Chained'
  <2>1. CASE server' = "panicked"
    BY <2>1 DEF Chained
  <2>2. CASE server' = "lock"
    <3>1. \A s \in Slots : InUse(s)' <=> InUse(s)
      BY <1>0, <1>1, <1>5, <2>2 DEF InUse
    <3> QED BY <1>0, <3>1, LineKept
  <2> QED BY <1>0, <2>1, <2>2
<1> QED BY <1>0, <1>2, <1>3, <1>6, <1>7, <1>8, <1>9, <1>10, <1>11 DEF IInv

LEMMA KeepCallbackStep ==
  ASSUME IInv, KeepCallback
  PROVE  /\ IInv' /\ \A s \in Slots : Taken(s)' <=> Taken(s)
         /\ \A s \in Slots : InUse(s)' <=> InUse(s)
<1>0. /\ Known /\ CountsHolder /\ Chained /\ TypeOK /\ TypeOK' /\ server = "lock" /\ bp \in Slots
      /\ server' = "reply" /\ res' = [kind |-> "async", slot |-> bp, ready |-> FALSE]
      /\ UNCHANGED <<bufs, lru, bp, cur, load, clientVars>>
  BY KnownIs, Typed, KeepCallbackTypes DEF KeepCallback, Respond, Known, Serving
<1>1. /\ \A c, s : Has(c, s)' <=> Has(c, s)
      /\ \A c : Wants(c)' = Wants(c)
      /\ \A d : Quiet(d)' <=> Quiet(d)
  BY <1>0, HoldersSame DEF clientVars
<1>2. /\ ~Loading(bp) /\ waiting[bp] = <<>> /\ req[cur].op = "get" /\ cur \in Clients
      /\ pc[cur] = "receiving"
  BY <1>0 DEF Known, Serving, Awaited, Given, TypeOK
<1>3. waiting' = [waiting EXCEPT ![bp] = <<cur>>]
  <2>1. Append(waiting[bp], cur) = <<cur>>
    BY <1>2
  <2> QED BY <1>0, <2>1 DEF KeepCallback, TypeOK
<1>4. waiting'[bp] = <<cur>> /\ \A s \in Slots : s # bp => waiting'[s] = waiting[s]
  BY <1>0, <1>3 DEF TypeOK
<1>5. Serving' /\ Calling'
  BY <1>0 DEF Known, Serving, Calling, clientVars
<1>6. \A s \in Slots : Given(s)' <=> s = bp
  BY <1>0 DEF Given
<1>7. Responding'
  BY <1>0, <1>2, <1>4, Expected DEF Responding, clientVars
<1>8. \A s : Loading(s)' <=> Loading(s)
  BY <1>0 DEF Loading
<1>9. Awaited'
  <2>1. \A s \in Slots : waiting'[s] # <<>> => Loading(s)' \/ Given(s)'
    BY <1>0, <1>4, <1>6, <1>8 DEF Known, Awaited, Given
  <2>2. \A s \in Slots : Loading(s) => s # bp
    BY <1>2
  <2>3. \A s \in Slots : Loading(s)' =>
       \E c \in Clients : waiting'[s] = <<c>> /\ pc'[c] = "awaiting" /\ load'[s].block = req'[c].block
    BY <1>0, <1>4, <1>8, <2>2 DEF Known, Awaited, ServedTo, clientVars
  <2>4. \A c \in Clients : pc'[c] = "awaiting" => \E s \in Slots : Loading(s)' /\ waiting'[s] = <<c>>
    BY <1>0, <1>4, <1>8, <2>2 DEF Known, Awaited, ServedTo, clientVars
  <2>5. ASSUME NEW s \in Slots, s # bp PROVE waiting[s] # <<cur>>
    <3>1. SUFFICES ASSUME waiting[s] = <<cur>> PROVE FALSE
      OBVIOUS
    <3>2. waiting[s] # <<>>
      BY <3>1
    <3>3. Loading(s)
      BY <1>0, <3>2 DEF Known, Awaited, Given
    <3>4. PICK c \in Clients : waiting[s] = <<c>> /\ pc[c] = "awaiting"
      BY <1>0, <3>3 DEF Known, Awaited, ServedTo
    <3>5. c = cur
      BY <3>1, <3>4
    <3> QED BY <1>2, <3>4, <3>5
  <2>6. \A r, s \in Slots : waiting[r] = waiting[s] /\ waiting[r] # <<>> => r = s
    BY <1>0 DEF Known, Awaited
  <2>7. \A r, s \in Slots : waiting'[r] = waiting'[s] /\ waiting'[r] # <<>> => r = s
    BY <1>4, <2>5, <2>6
  <2> QED BY <1>0, <1>2, <1>8, <2>1, <2>3, <2>4, <2>7 DEF Awaited, ServedTo
<1>10. \A s \in Slots : Taken(s)' <=> Taken(s)
  BY <1>0, <1>8 DEF Taken
<1>11. Possession'
  BY <1>0, <1>1, <1>10 DEF Known, Possession, IdentityOf, bufs
<1>12. Wanted'
  BY <1>0, <1>1 DEF Known, Wanted, clientVars
<1>13. Fresh'
  <2>1. \A s : (Begun(s)' <=> Begun(s)) /\ (Begun(s) => Loading(s)) /\ IdentityOf(s)' = IdentityOf(s)
    BY <1>0 DEF Begun, Loading, IdentityOf, bufs
  <2>2. \A s \in Slots : Begun(s) => waiting'[s] = waiting[s]
    BY <1>2, <1>4, <2>1
  <2> QED BY <1>0, <2>1, <2>2 DEF Known, Fresh, ServedTo, clientVars
<1>14. CountsHolder'
  BY <1>0, <1>1 DEF CountsHolder, Begun, bufs
<1>15. Says'
  BY <1>0 DEF Says
<1>16. \A s \in Slots : InUse(s)' <=> InUse(s)
  BY <1>0, <1>1, <1>10 DEF InUse, Taken
<1>17. Chained'
  BY <1>0, <1>16, LineKept
<1> QED BY <1>0, <1>5, <1>7, <1>9, <1>10, <1>11, <1>12, <1>13, <1>14, <1>15, <1>16, <1>17 DEF IInv

LEMMA ReplyPanics ==
  ASSUME IInv, NEW c \in Clients, Reply(c), req[c].op = "get", res.ready
  PROVE  IInv' /\ server' = "panicked" /\ (\A s \in Slots : InUse(s)' <=> InUse(s)) /\ \A s \in Slots : InUse(s)
<1>0. /\ Known /\ CountsHolder /\ Chained /\ Says /\ TypeOK /\ TypeOK' /\ server' = "panicked"
      /\ res' = NoResponse /\ c = cur /\ server = "reply" /\ pc[c] = "receiving"
      /\ UNCHANGED <<bufs, lru, waiting, bp, cur, load, clientVars>>
      /\ res.kind = "async" /\ res.slot = nil
  BY KnownIs, Typed, ReplyTypes, Replies, ReplyCases DEF Reply
<1>1. /\ \A d, s : Has(d, s)' <=> Has(d, s)
      /\ \A d : Wants(d)' = Wants(d)
      /\ \A d : Quiet(d)' <=> Quiet(d)
  BY <1>0, HoldersSame DEF clientVars
<1>2. \A s \in Slots : Taken(s)' <=> Taken(s)
  BY <1>0 DEF Taken, Loading
<1>3. Serving' /\ Calling' /\ Responding' /\ Says' /\ Chained'
  BY <1>0 DEF Known, Serving, Calling, Responding, Says, Chained, clientVars
<1>4. Awaited'
  BY <1>0 DEF Known, Awaited, Loading, Given, ServedTo, clientVars
<1>5. Possession'
  BY <1>0, <1>1, <1>2 DEF Known, Possession, IdentityOf, bufs
<1>6. Wanted'
  BY <1>0, <1>1 DEF Known, Wanted, clientVars
<1>7. Fresh'
  BY <1>0 DEF Known, Fresh, IdentityOf, Begun, ServedTo, clientVars, bufs
<1>8. CountsHolder'
  BY <1>0, <1>1 DEF CountsHolder, Begun, bufs
<1>9. \A s \in Slots : InUse(s)' <=> InUse(s)
  BY <1>0, <1>1, <1>2, NilIsNoSlot DEF InUse
<1>10. \A s \in Slots : InUse(s)
  BY <1>0 DEF Says
<1> QED BY <1>0, <1>3, <1>4, <1>5, <1>6, <1>7, <1>8, <1>9, <1>10 DEF IInv

LEMMA ReplyEnds ==
  ASSUME IInv, NEW c \in Clients, Reply(c), req[c].op # "get"
  PROVE  IInv' /\ (\A s \in Slots : InUse(s)' <=> InUse(s)) /\ server' \in {"loop", "closed"} /\ UNCHANGED load
<1>0. /\ Known /\ CountsHolder /\ Chained /\ Says /\ TypeOK /\ TypeOK' /\ server' \in {"loop", "closed"}
      /\ res' = NoResponse /\ c = cur /\ server = "reply" /\ pc[c] = "receiving"
      /\ UNCHANGED <<bufs, lru, waiting, bp, cur, load, awaits, holds>>
      /\ pc' = [pc EXCEPT ![c] = "idle"] /\ req' = [req EXCEPT ![c] = NoRequest]
      /\ res.kind # "async" /\ res.slot = nil /\ res.ready
  BY KnownIs, Typed, ReplyTypes, Replies, ReplyCases DEF Reply, Return
<1>1. /\ pc'[c] = "idle" /\ req'[c] = NoRequest
      /\ \A d \in Clients : d # c => pc'[d] = pc[d] /\ req'[d] = req[d]
      /\ NoRequest.op = "none"
  BY <1>0 DEF TypeOK, NoRequest, Request
<1>2. \A d \in Clients, s \in Slots : Has(d, s)' <=> Has(d, s)
  BY <1>0, <1>1 DEF Has
<1>3. /\ \A d \in Clients : d # c => Wants(d)' = Wants(d)
      /\ Wants(c)' = holds[c].block
      /\ Wants(c)' \in {Wants(c), NoBlock}
  <2>1. \A d \in Clients : d # c => Wants(d)' = Wants(d)
    BY <1>0, <1>1 DEF Wants
  <2>2. Wants(c)' = holds[c].block
    BY <1>0, <1>1 DEF Wants
  <2>3. req[c].op = "put" => holds[c] = Nothing
    BY <1>0 DEF Known, Calling
  <2> QED BY <2>1, <2>2, <2>3 DEF Wants, Nothing
<1>4. /\ \A s : Taken(s) <=> Loading(s)
      /\ \A s : Taken(s)' <=> Loading(s)
      /\ \A s : Loading(s)' <=> Loading(s)
      /\ \A s : Begun(s)' <=> Begun(s)
  BY <1>0 DEF Taken, Loading, Begun
<1>5. Serving'
  BY <1>0, <1>1 DEF Known, Serving
<1>6. Calling'
  <2>1. holds[c] # Nothing => holds[c].slot \in Slots /\ holds[c].block \in Blocks
    BY <1>0 DEF Known, Calling
  <2> QED BY <1>0, <1>1, <2>1 DEF Known, Calling
<1>7. Responding' /\ Says'
  BY <1>0 DEF Responding, Says
<1>8. Awaited'
  <2>1. \A d \in Clients : pc'[d] = "awaiting" <=> pc[d] = "awaiting"
    BY <1>0, <1>1
  <2>2. \A d \in Clients : pc[d] = "awaiting" => req'[d] = req[d]
    BY <1>0, <1>1
  <2>3. \A s \in Slots : waiting'[s] # <<>> => Loading(s)'
    BY <1>0, <1>4 DEF Known, Awaited, Given
  <2>4. ASSUME NEW s \in Slots, Loading(s)
        PROVE  \E d \in Clients : waiting'[s] = <<d>> /\ pc'[d] = "awaiting" /\ load'[s].block = req'[d].block
    <3>1. PICK d \in Clients : waiting[s] = <<d>> /\ pc[d] = "awaiting" /\ load[s].block = req[d].block
      BY <1>0, <2>4 DEF Known, Awaited, ServedTo
    <3> QED BY <1>0, <2>1, <2>2, <3>1
  <2> QED BY <1>0, <1>4, <2>1, <2>3, <2>4 DEF Known, Awaited, ServedTo
<1>9. Possession'
  <2>1. ASSUME NEW d \in Clients, NEW s \in Slots, Has(d, s)
        PROVE  Wants(d)' = Wants(d)
    <3>1. CASE d # c
      BY <1>3, <3>1
    <3>2. CASE d = c
      <4>1. holds[c].slot = s
        BY <1>0, <2>1, <3>2 DEF Has
      <4>2. req[c].op # "put"
        BY <1>0, <4>1, NilIsNoSlot DEF Known, Calling, Nothing
      <4> QED BY <1>3, <3>2, <4>2 DEF Wants
    <3> QED BY <3>1, <3>2
  <2> QED BY <1>0, <1>2, <1>4, <2>1 DEF Known, Possession, IdentityOf, bufs
<1>10. Wanted'
  <2>1. ASSUME NEW d \in Clients, NEW e \in Clients, Wants(d)' = Wants(e)', Wants(d)' # NoBlock
        PROVE  d = e
    <3>1. Wants(d)' = Wants(d) /\ Wants(e)' = Wants(e)
      BY <1>3, <2>1
    <3> QED BY <1>0, <2>1, <3>1 DEF Known, Wanted
  <2>2. ASSUME NEW d \in Clients, req'[d].op \in {"unmount", "invalidate"}, NEW e \in Clients
        PROVE  Wants(e)'[1] # req'[d].block[1]
    <3>1. d # c /\ req'[d] = req[d]
      BY <1>1, <2>2
    <3>2. Wants(e)[1] # req[d].block[1] /\ req[d].block[1] \in Devices
      <4>1. req[d].block[1] \in Devices
        BY <1>0, <2>2, <3>1, RequestsAre DEF TypeOK
      <4> QED BY <1>0, <2>2, <3>1, <4>1 DEF Known, Wanted, Quiet
    <3>3. NoBlock[1] # req[d].block[1]
      BY <3>2, NoBlockIsNone DEF NoBlock
    <3> QED BY <1>3, <3>1, <3>2, <3>3
  <2> QED BY <2>1, <2>2 DEF Wanted, Quiet
<1>11. Fresh'
  <2>1. \A d \in Clients : req'[d].op = "get" => req'[d] = req[d]
    BY <1>1
  <2>2. \A s : IdentityOf(s)' = IdentityOf(s)
    BY <1>0 DEF IdentityOf, bufs
  <2> QED BY <1>0, <1>4, <2>1, <2>2 DEF Known, Fresh, ServedTo
<1>12. CountsHolder'
  BY <1>0, <1>2, <1>4 DEF CountsHolder, bufs
<1>13. \A s \in Slots : InUse(s)' <=> InUse(s)
  BY <1>0, <1>2, <1>4, NilIsNoSlot DEF InUse
<1>14. Chained'
  BY <1>0, <1>13, LineKept
<1> QED BY <1>0, <1>5, <1>6, <1>7, <1>8, <1>9, <1>10, <1>11, <1>12, <1>13, <1>14 DEF IInv

LEMMA ReplyLoads ==
  ASSUME IInv, NEW c \in Clients, Reply(c), req[c].op = "get", ~res.ready
  PROVE  IInv' /\ (\A s \in Slots : InUse(s)' <=> InUse(s)) /\ (\A s \in Slots : Taken(s)' <=> Taken(s))
<1>0. /\ Known /\ CountsHolder /\ Chained /\ Says /\ TypeOK /\ TypeOK' /\ server' = "loop"
      /\ res' = NoResponse /\ c = cur /\ server = "reply" /\ pc[c] = "receiving"
      /\ UNCHANGED <<bufs, lru, waiting, bp, cur, req, holds>>
      /\ load' = [load EXCEPT ![bp] =
                 [stage |-> "start", block |-> req[c].block, mode |-> req[c].arg]]
      /\ pc' = [pc EXCEPT ![c] = "awaiting"]
      /\ awaits' = [awaits EXCEPT ![c] = c]
      /\ res.kind = "async" /\ res.slot = bp /\ bp \in Slots /\ waiting[bp] = <<c>> /\ ~Loading(bp)
  BY KnownIs, Typed, ReplyTypes, Replies, ReplyCases DEF Reply
<1>1. /\ pc'[c] = "awaiting" /\ awaits'[c] = c
      /\ \A d \in Clients : d # c => pc'[d] = pc[d] /\ awaits'[d] = awaits[d]
      /\ load'[bp].stage = "start" /\ load'[bp].block = req[c].block
      /\ \A s \in Slots : s # bp => load'[s] = load[s]
  <2>1. /\ pc'[c] = "awaiting" /\ awaits'[c] = c
        /\ \A d \in Clients : d # c => pc'[d] = pc[d] /\ awaits'[d] = awaits[d]
    BY <1>0 DEF TypeOK
  <2>2. load \in [Slots -> Loads]
    BY <1>0, LoadTypes
  <2>3. /\ load'[bp] = [stage |-> "start", block |-> req[c].block, mode |-> req[c].arg]
        /\ \A s \in Slots : s # bp => load'[s] = load[s]
    BY <1>0, <2>2
  <2> QED BY <2>1, <2>3
<1>2. \A d \in Clients, s \in Slots : Has(d, s)' <=> Has(d, s)
  BY <1>0, <1>1 DEF Has
<1>3. \A d : Wants(d)' = Wants(d)
  BY <1>0 DEF Wants
<1>4. /\ Loading(bp)' /\ \A s \in Slots : s # bp => (Loading(s)' <=> Loading(s))
      /\ \A s \in Slots : Begun(s)' <=> Begun(s)
      /\ ~Begun(bp)
  BY <1>0, <1>1 DEF Loading, Begun
<1>5. \A s \in Slots : Taken(s)' <=> Taken(s)
  BY <1>0, <1>4 DEF Taken
<1>6. \A s \in Slots : InUse(s)' <=> InUse(s)
  BY <1>0, <1>2, <1>5 DEF InUse, Taken
<1>7. Serving'
  BY <1>0, <1>1 DEF Known, Serving
<1>8. Calling'
  BY <1>0, <1>1 DEF Known, Calling
<1>9. Responding' /\ Says'
  BY <1>0 DEF Responding, Says
<1>10. Awaited'
  <2>1. \A s \in Slots : waiting'[s] # <<>> => Loading(s)'
    BY <1>0, <1>4 DEF Known, Awaited, Given
  <2>2. ASSUME NEW s \in Slots, Loading(s)'
        PROVE  \E d \in Clients : waiting'[s] = <<d>> /\ pc'[d] = "awaiting" /\ load'[s].block = req'[d].block
    <3>1. CASE s = bp
      BY <1>0, <1>1, <3>1
    <3>2. CASE s # bp
      <4>1. PICK d \in Clients : waiting[s] = <<d>> /\ pc[d] = "awaiting" /\ load[s].block = req[d].block
        BY <1>0, <1>4, <2>2, <3>2 DEF Known, Awaited, ServedTo
      <4> QED BY <1>0, <1>1, <3>2, <4>1
    <3> QED BY <3>1, <3>2
  <2>3. ASSUME NEW d \in Clients, pc'[d] = "awaiting"
        PROVE  \E s \in Slots : Loading(s)' /\ waiting'[s] = <<d>>
    <3>1. CASE d = c
      BY <1>0, <1>4, <3>1
    <3>2. CASE d # c
      <4>1. PICK s \in Slots : Loading(s) /\ waiting[s] = <<d>>
        BY <1>0, <1>1, <2>3, <3>2 DEF Known, Awaited, ServedTo
      <4>2. s # bp
        BY <1>0, <4>1
      <4> QED BY <1>0, <1>4, <4>1, <4>2
    <3> QED BY <3>1, <3>2
  <2> QED BY <1>0, <2>1, <2>2, <2>3 DEF Known, Awaited, ServedTo
<1>11. Possession'
  BY <1>0, <1>2, <1>3, <1>5 DEF Known, Possession, IdentityOf, bufs
<1>12. Wanted'
  BY <1>0, <1>3 DEF Known, Wanted, Quiet
<1>13. Fresh'
  <2>1. \A s : IdentityOf(s)' = IdentityOf(s)
    BY <1>0 DEF IdentityOf, bufs
  <2>2. \A s \in Slots : Begun(s) => load'[s] = load[s]
    BY <1>1, <1>4
  <2> QED BY <1>0, <1>4, <2>1, <2>2 DEF Known, Fresh, ServedTo
<1>14. CountsHolder'
  BY <1>0, <1>2, <1>4 DEF CountsHolder, bufs
<1>15. Chained'
  BY <1>0, <1>6, LineKept
<1> QED BY <1>0, <1>5, <1>6, <1>7, <1>8, <1>9, <1>10, <1>11, <1>12, <1>13, <1>14, <1>15 DEF IInv

LEMMA ReplyStep == ASSUME IInv, NEW c \in Clients, Reply(c) PROVE IInv'
<1>1. CASE req[c].op # "get"
  BY <1>1, ReplyEnds
<1>2. CASE req[c].op = "get" /\ res.ready
  BY <1>2, ReplyPanics
<1>3. CASE req[c].op = "get" /\ ~res.ready
  BY <1>3, ReplyLoads
<1> QED BY <1>1, <1>2, <1>3
-----------------------------------------------------------------------------
(* The invariant *)

LEMMA InitIInv == Init => IInv
<1> SUFFICES ASSUME Init PROVE IInv
  OBVIOUS
<1>0. /\ \A s \in Slots : s \in Nat /\ s # nil
      /\ numslots - 1 \in Slots /\ 0 \in Slots /\ numslots - 1 # 0
      /\ \A s \in Slots : s # numslots - 1 => s + 1 \in Slots
      /\ \A s \in Slots : s # 0 => s - 1 \in Slots
      /\ Slots \subseteq Links /\ nil \in Links
  BY SlotsAssumption DEF Slots, nil, Links
<1>1. TypeOK
  <2>1. count \in [Slots -> -(MaxHits + Cardinality(Clients)) .. numslots]
    BY CountBounds DEF Init
  <2>2. next \in [Slots -> Links] /\ prev \in [Slots -> Links] /\ b_hash \in [Slots -> Links]
    BY <1>0 DEF Init
  <2>3. front \in Links /\ rear \in Links /\ buf_hash \in [0 .. numhash - 1 -> Links]
    BY <1>0 DEF Init
  <2>4. load \in [Slots -> [stage : {"off", "start", "insert", "read", "wake"},
                        block : Blocks \cup {NoBlock}, mode : {"NORMAL", "NO_READ"}]]
    BY DEF Init, Idle
  <2>5. holds \in [Clients -> [slot : Links, block : Blocks \cup {NoBlock}]]
    BY <1>0 DEF Init, Nothing
  <2>6. res \in [kind : {"none", "async", "err", "empty"}, slot : Links, ready : BOOLEAN]
    BY <1>0 DEF Init, NoResponse
  <2> QED BY <1>0, <2>1, <2>2, <2>3, <2>4, <2>5, <2>6, BlocksAssumption DEF TypeOK, Init
<1>2. /\ \A c \in Clients : pc[c] = "idle" /\ req[c] = NoRequest /\ holds[c] = Nothing
      /\ \A s \in Slots : load[s].stage = "off" /\ waiting[s] = <<>> /\ count[s] = 0 /\ IdentityOf(s) = NoBlock
      /\ server = "loop" /\ NoRequest.op = "none" /\ NoRequest.slot = nil /\ Nothing.slot = nil /\ Nothing.block = NoBlock
  BY DEF Init, Idle, NoRequest, Request, Nothing, IdentityOf, NoBlock
<1>3. \A c \in Clients, s \in Slots : ~Has(c, s)
  BY <1>0, <1>2 DEF Has
<1>4. \A s \in Slots : ~Taken(s) /\ ~Begun(s) /\ ~Loading(s)
  BY <1>2 DEF Taken, Begun, Loading
<1>5. Serving /\ Calling /\ Responding /\ Says
  BY <1>2 DEF Serving, Calling, Responding, Says
<1>6. Awaited /\ Possession
  BY <1>2, <1>3, <1>4 DEF Awaited, Possession
<1>7. Wanted
  BY <1>2 DEF Wanted, Wants
<1>8. Fresh
  BY <1>2, <1>4, NoBlockIsNone DEF Fresh
<1>9. CountsHolder
  BY <1>2, <1>3, <1>4 DEF CountsHolder
<1>10. Chained
  <2>1. PICK k \in Nat : k = numslots /\ k > 1
    BY SlotsAssumption
  <2> DEFINE q == [i \in 1 .. k |-> i - 1]
  <2>2. q \in Seq(Slots) /\ Len(q) = k
    BY <2>1 DEF Slots
  <2>3. LinkedBy(q, k)
    BY <2>1 DEF LinkedBy, Init, Slots
  <2>4. Linked(q)
    BY <2>2, <2>3, LinkedIs
  <2>5. \A i, j \in 1 .. k : q[i] = q[j] => i = j
    BY <2>1
  <2>6. \A s \in Slots : ~InUse(s)
    BY <1>2, <1>3, <1>4 DEF InUse
  <2>7. \A s \in Slots : \E i \in 1 .. k : q[i] = s
    <3> TAKE s \in Slots
    <3>1. s + 1 \in 1 .. k /\ q[s + 1] = s
      BY <2>1 DEF Slots
    <3> QED BY <3>1
  <2> HIDE DEF q
  <2> QED BY <2>2, <2>4, <2>5, <2>6, <2>7 DEF Line, Chained
<1> QED BY <1>1, <1>5, <1>6, <1>7, <1>8, <1>9, <1>10 DEF IInv

LEMMA NextIInv == ASSUME NobodyAsks, IInv, [Next]_vars PROVE IInv'
<1>1. CASE UNCHANGED vars
  BY <1>1, Stutters
<1>2. CASE Work
  <2>1. ~Hit
    BY DEF Hit, IInv, Serving
  <2> QED BY <1>2, <2>1, UnhashStep, KeepCallbackStep DEF Work
<1>3. ASSUME NEW s \in Slots, Goroutine(s) PROVE IInv'
  BY <1>3, LoadBlockStep, RehashStep, ReadStep, WakeStep DEF Goroutine
<1>4. ASSUME NEW c \in Clients, NEW r \in Requests, Call(c, r) PROVE IInv'
  BY <1>4, CallStep
<1>5. ASSUME NEW c \in Clients, NEW v \in Values, Modify(c, v) PROVE IInv'
  BY <1>5, ModifyStep
<1>6. ASSUME NEW c \in Clients, Serve(c) PROVE IInv'
  BY <1>6, GetStep, PutBlockStep, MountStep, UnmountStep, InvalidateStep, FlushStep, CloseStep DEF Serve
<1>7. ASSUME NEW c \in Clients, Reply(c) PROVE IInv'
  BY <1>7, ReplyStep
<1> QED BY <1>1, <1>2, <1>3, <1>4, <1>5, <1>6, <1>7 DEF Next

\* The invariant holds of every behaviour in which nobody asks for a block that is
\* cached or used by another client.
THEOREM Invariant == NobodyAsks => (Spec => []IInv)
<1> SUFFICES ASSUME NobodyAsks PROVE Spec => []IInv
  OBVIOUS
<1>1. Init => IInv
  BY InitIInv
<1>2. IInv /\ [Next]_vars => IInv'
  BY NextIInv
<1> QED BY <1>1, <1>2, PTL DEF Spec

\* The buffers, the chains and the table keep their types, and no buffer counts more
\* clients than there are.
THEOREM TypesKept == NobodyAsks => (Spec => []TypeOK)
<1>1. IInv => TypeOK
  BY Typed
<1> QED BY <1>1, Invariant, PTL

\* The block that a client has stays in its buffer, and no other client has the
\* buffer, until the client puts it back.
THEOREM KeepsHeldBlocks == NobodyAsks => (Spec => []HeldBlockKept)
<1>1. IInv => HeldBlockKept
  <2> SUFFICES ASSUME IInv, NEW c \in Clients, holds[c] # Nothing
               PROVE  /\ IdentityOf(holds[c].slot) = holds[c].block
                      /\ ~Taken(holds[c].slot)
                      /\ \A d \in Clients : holds[d].slot = holds[c].slot => d = c
    BY DEF HeldBlockKept
  <2>1. holds[c].slot \in Slots /\ req[c].op \notin {"get", "put"}
    BY DEF IInv, Calling
  <2>2. Has(c, holds[c].slot) /\ \A d \in Clients : holds[d].slot = holds[c].slot => Has(d, holds[c].slot)
    BY DEF Has
  <2>3. Wants(c) = holds[c].block
    BY <2>1 DEF Wants
  <2> QED BY <2>1, <2>2, <2>3 DEF IInv, Possession
<1> QED BY <1>1, Invariant, PTL
-----------------------------------------------------------------------------
(* The hash chains *)

\* A set of numbers has a least one: what stands for induction.
LEMMA Least ==
  ASSUME NEW S \in SUBSET Nat, S # {}
  PROVE  \E x \in S : \A y \in S : ~(y < x)
<1>1. IsWellFoundedOn(OpToRel(<, Nat), Nat)
  BY NatLessThanWellFounded
<1>2. PICK x \in S : \A y \in S : <<y, x>> \notin OpToRel(<, Nat)
  BY <1>1, WFMin
<1>3. ASSUME NEW y \in S PROVE ~(y < x)
  <2>1. <<y, x>> \notin OpToRel(<, Nat)
    BY <1>2
  <2> QED BY <2>1 DEF OpToRel
<1> QED BY <1>3

\* The walk along a hash chain, as a function of the number of links followed.
Walks(p, g) ==
  g = [n \in 0 .. numslots |-> IF n = 0 THEN p ELSE IF g[n - 1] = nil THEN nil ELSE b_hash[g[n - 1]]]
At(q, n) == IF n < Len(q) THEN q[n + 1] ELSE nil

LEMMA NodeIs ==
  ASSUME NEW p, NEW q \in Seq(Slots), Along(b_hash, p, q)
  PROVE  \A n \in 0 .. numslots : Node(p)[n] = At(q, n)
<1> DEFINE g == [n \in 0 .. numslots |-> At(q, n)]
           f == Node(p)
<1>0. PICK k \in Nat : k = Len(q)
  OBVIOUS
<1>1. /\ \A i \in 1 .. k : q[i] \in Slots /\ q[i] # nil
      /\ p = IF k = 0 THEN nil ELSE q[1]
      /\ \A i \in 1 .. k : b_hash[q[i]] = IF i = k THEN nil ELSE q[i + 1]
  <2>1. \A i \in 1 .. k : q[i] \in Slots
    BY <1>0
  <2> QED BY <1>0, <2>1, NilIsNoSlot DEF Along
<1>2. Walks(p, g)
  <2>1. ASSUME NEW n \in 0 .. numslots
        PROVE  g[n] = IF n = 0 THEN p ELSE IF g[n - 1] = nil THEN nil ELSE b_hash[g[n - 1]]
    <3>1. n \in Nat /\ numslots \in Nat
      BY NilIsNoSlot
    <3>2. CASE n = 0
      BY <1>0, <1>1, <3>1, <3>2 DEF At
    <3>3. CASE n # 0
      <4>1. n - 1 \in 0 .. numslots /\ g[n - 1] = At(q, n - 1) /\ g[n] = At(q, n)
        BY <3>1, <3>3
      <4>2. CASE n - 1 < k
        <5>1. n \in 1 .. k /\ At(q, n - 1) = q[n]
          BY <1>0, <3>1, <3>3, <4>2 DEF At
        <5>2. q[n] # nil /\ b_hash[q[n]] = IF n = k THEN nil ELSE q[n + 1]
          BY <1>1, <5>1
        <5>3. At(q, n) = IF n = k THEN nil ELSE q[n + 1]
          BY <1>0, <5>1 DEF At
        <5> QED BY <3>3, <4>1, <5>1, <5>2, <5>3
      <4>3. CASE ~(n - 1 < k)
        <5>1. At(q, n - 1) = nil /\ At(q, n) = nil
          BY <1>0, <3>1, <4>3 DEF At
        <5> QED BY <3>3, <4>1, <5>1
      <4> QED BY <4>2, <4>3
    <3> QED BY <3>2, <3>3
  <2> HIDE DEF g
  <2>2. g = [n \in 0 .. numslots |-> g[n]]
    BY DEF g
  <2> QED BY <2>1, <2>2 DEF Walks
<1>3. Walks(p, f)
  <2>1. f = CHOOSE h : Walks(p, h)
    BY DEF Node, Walks
  <2> HIDE DEF f, g
  <2> QED BY <1>2, <2>1
<1>4. \A n \in 0 .. numslots : f[n] = g[n]
  <2> HIDE DEF f, g
  <2> DEFINE S == {n \in 0 .. numslots : f[n] # g[n]}
  <2> SUFFICES ASSUME S # {} PROVE FALSE
    OBVIOUS
  <2>1. S \in SUBSET Nat
    BY NilIsNoSlot
  <2>2. PICK x \in S : \A y \in S : ~(y < x)
    BY <2>1, Least
  <2>3. x \in 0 .. numslots /\ x \in Nat /\ f[x] # g[x] /\ numslots \in Nat
    BY <2>1, NilIsNoSlot
  <2>4. \A h : Walks(p, h) =>
          h[x] = IF x = 0 THEN p ELSE IF h[x - 1] = nil THEN nil ELSE b_hash[h[x - 1]]
    BY <2>3 DEF Walks
  <2>5. x # 0
    BY <1>2, <1>3, <2>3, <2>4
  <2>6. x - 1 \in 0 .. numslots /\ x - 1 < x
    BY <2>3, <2>5
  <2>7. f[x - 1] = g[x - 1]
    BY <2>2, <2>6
  <2> QED BY <1>2, <1>3, <2>3, <2>4, <2>7
<1>5. \A n \in 0 .. numslots : g[n] = At(q, n)
  OBVIOUS
<1> HIDE DEF g
<1> QED BY <1>4, <1>5

LEMMA ChainIsShort ==
  ASSUME NEW q \in Seq(Slots), \A i, j \in 1 .. Len(q) : q[i] = q[j] => i = j
  PROVE  Len(q) \in Nat /\ Len(q) <= numslots
<1>0. PICK k \in Nat : k = Len(q)
  OBVIOUS
<1>1. q \in [1 .. k -> Slots]
  BY <1>0
<1>2. q \in Injection(1 .. k, Slots)
  BY <1>0, <1>1 DEF Injection, IsInjective
<1>3. IsFiniteSet(Slots) /\ Cardinality(Slots) = numslots
  <2>1. PICK n \in Int : n = numslots - 1 /\ n + 1 = numslots /\ n > 0
    BY SlotsAssumption
  <2>2. IsFiniteSet(0 .. n) /\ Cardinality(0 .. n) = IF 0 > n THEN 0 ELSE n - 0 + 1
    BY FS_Interval
  <2>3. Slots = 0 .. n
    BY <2>1 DEF Slots
  <2> QED BY <2>1, <2>2, <2>3
<1>4. Cardinality(1 .. k) <= Cardinality(Slots)
  BY <1>2, <1>3, FS_Injection
<1>5. Cardinality(1 .. k) = k
  <2>1. Cardinality(1 .. k) = IF 1 > k THEN 0 ELSE k - 1 + 1
    BY FS_Interval
  <2> QED BY <2>1
<1> QED BY <1>0, <1>3, <1>4, <1>5

\* A search finds the one buffer of the chain that it looks for, and ends.
LEMMA FirstOfChain ==
  ASSUME NEW p, NEW q \in Seq(Slots), NEW S, NEW j \in 1 .. Len(q),
         Along(b_hash, p, q), nil \notin S, q[j] \in S,
         \A i \in 1 .. Len(q) : q[i] \in S => i = j
  PROVE  First(p, S) = q[j]
<1>1. PICK k \in Nat : k = Len(q) /\ k <= numslots /\ j \in 1 .. k
  BY ChainIsShort DEF Along
<1>2. numslots \in Nat
  BY NilIsNoSlot
<1>3. \A n \in 0 .. numslots : Node(p)[n] = At(q, n)
  BY NodeIs
<1>4. j - 1 \in 0 .. numslots /\ Node(p)[j - 1] = q[j]
  <2>1. j - 1 \in 0 .. numslots /\ j - 1 < k /\ j - 1 + 1 = j
    BY <1>1, <1>2
  <2> QED BY <1>1, <1>3, <2>1 DEF At
<1>5. ASSUME NEW n \in 0 .. numslots, Node(p)[n] \in S
      PROVE  n = j - 1
  <2>1. At(q, n) \in S
    BY <1>3, <1>5
  <2>2. n < k /\ q[n + 1] \in S
    BY <1>1, <2>1 DEF At
  <2>3. n + 1 \in 1 .. k
    BY <1>2, <2>2
  <2> QED BY <1>1, <2>2, <2>3
<1>6. {n \in 0 .. numslots : Node(p)[n] \in S} = {j - 1}
  BY <1>4, <1>5
<1>7. (CHOOSE n \in {j - 1} : \A m \in {j - 1} : n <= m) = j - 1
  BY <1>4, <1>2
<1> QED BY <1>4, <1>6, <1>7 DEF First

LEMMA ChainEnds ==
  ASSUME NEW p, NEW q \in Seq(Slots), Along(b_hash, p, q)
  PROVE  ~Endless(p)
<1>1. PICK k \in Nat : k = Len(q) /\ k <= numslots
  BY ChainIsShort DEF Along
<1>2. numslots \in 0 .. numslots /\ ~(numslots < k)
  BY <1>1, NilIsNoSlot
<1>3. Node(p)[numslots] = At(q, numslots)
  BY <1>2, NodeIs
<1> QED BY <1>1, <1>2, <1>3 DEF Endless, At

\* What becomes of a chain.
LEMMA MembersAre ==
  ASSUME NEW q \in Seq(Slots)
  PROVE  /\ Len(q) \in Nat /\ Members(q) \subseteq Slots
         /\ \A i \in 1 .. Len(q) : q[i] \in Slots /\ q[i] \in Members(q)
         /\ \A s \in Members(q) : \E i \in 1 .. Len(q) : q[i] = s
BY DEF Members

LEMMA AlongSame ==
  ASSUME NEW b, NEW p, NEW q \in Seq(Slots), NEW links,
         Along(b, p, q), \A s \in Members(q) : links[s] = b[s]
  PROVE  Along(links, p, q)
BY MembersAre DEF Along

LEMMA AlongMore ==
  ASSUME NEW b, NEW p, NEW q \in Seq(Slots), NEW s \in Slots,
         Along(b, p, q), s \notin Members(q), b[s] = p
  PROVE  \E r \in Seq(Slots) : Along(b, s, r) /\ Members(r) = Members(q) \cup {s}
<1>1. PICK r \in Seq(Slots) : r = <<s>> \o q
  BY PrependIs
<1>2. PICK k \in Nat : k = Len(q) /\ Len(r) = k + 1
  BY <1>1, PrependIs
<1>3. r[1] = s /\ \A i \in 2 .. k + 1 : r[i] = q[i - 1]
  BY <1>1, <1>2, PrependIs
<1>4. /\ \A i \in 1 .. k : q[i] \in Slots /\ q[i] # s
      /\ \A i, j \in 1 .. k : q[i] = q[j] => i = j
      /\ p = IF k = 0 THEN nil ELSE q[1]
      /\ \A i \in 1 .. k : b[q[i]] = IF i = k THEN nil ELSE q[i + 1]
  BY <1>2, MembersAre DEF Along
<1>5. \A i \in 1 .. k : i + 1 \in 2 .. k + 1 /\ r[i + 1] = q[i]
  BY <1>3
<1>6. \A i, j \in 1 .. k + 1 : r[i] = r[j] => i = j
  <2> SUFFICES ASSUME NEW i \in 1 .. k + 1, NEW j \in 1 .. k + 1, r[i] = r[j]
               PROVE  i = j
    OBVIOUS
  <2>1. i # 1 => i - 1 \in 1 .. k /\ r[i] = q[i - 1]
    BY <1>3
  <2>2. j # 1 => j - 1 \in 1 .. k /\ r[j] = q[j - 1]
    BY <1>3
  <2> QED BY <1>3, <1>4, <2>1, <2>2
<1>7. \A i \in 1 .. k + 1 : b[r[i]] = IF i = k + 1 THEN nil ELSE r[i + 1]
  <2> TAKE i \in 1 .. k + 1
  <2>1. CASE i = 1
    BY <1>3, <1>4, <1>5, <2>1
  <2>2. CASE i # 1
    <3>1. PICK j \in 1 .. k : i = j + 1
      BY <2>2
    <3>2. r[i] = q[j] /\ b[q[j]] = IF j = k THEN nil ELSE q[j + 1]
      BY <1>4, <1>5, <3>1
    <3>3. j # k => r[i + 1] = q[j + 1]
      BY <1>5, <3>1
    <3> QED BY <3>1, <3>2, <3>3
  <2> QED BY <2>1, <2>2
<1>8. Along(b, s, r)
  BY <1>2, <1>3, <1>6, <1>7 DEF Along
<1>9. Members(r) = Members(q) \cup {s}
  <2>1. ASSUME NEW x \in Members(q) PROVE x \in Members(r)
    <3>1. PICK i \in 1 .. k : q[i] = x
      BY <1>2, MembersAre
    <3>2. i + 1 \in 1 .. k + 1 /\ r[i + 1] = x
      BY <1>5, <3>1
    <3> QED BY <1>2, <3>2, MembersAre
  <2>2. s \in Members(r)
    BY <1>2, <1>3 DEF Members
  <2>3. ASSUME NEW x \in Members(r) PROVE x = s \/ x \in Members(q)
    <3>1. PICK i \in 1 .. k + 1 : r[i] = x
      BY <1>2, MembersAre
    <3>2. i # 1 => i - 1 \in 1 .. k /\ q[i - 1] = x
      BY <1>3, <3>1
    <3> QED BY <1>2, <1>3, <3>1, <3>2, MembersAre
  <2> QED BY <2>1, <2>2, <2>3
<1> QED BY <1>8, <1>9

LEMMA AlongLess ==
  ASSUME NEW b, NEW p, NEW q \in Seq(Slots), Along(b, p, q), Len(q) > 0
  PROVE  \E r \in Seq(Slots) : Along(b, b[p], r) /\ Members(r) = Members(q) \ {p}
<1>1. PICK r \in Seq(Slots) : r = Tail(q)
  BY TailIs
<1>2. PICK k \in Nat : Len(q) = k + 1 /\ Len(r) = k
  BY <1>1, TailIs
<1>3. \A i \in 1 .. k : r[i] = q[i + 1]
  BY <1>1, <1>2, TailIs
<1>4. /\ \A i, j \in 1 .. k + 1 : q[i] = q[j] => i = j
      /\ p = q[1]
      /\ \A i \in 1 .. k + 1 : b[q[i]] = IF i = k + 1 THEN nil ELSE q[i + 1]
  BY <1>2 DEF Along
<1>5. \A i, j \in 1 .. k : r[i] = r[j] => i = j
  BY <1>3, <1>4
<1>6. \A i \in 1 .. k : b[r[i]] = IF i = k THEN nil ELSE r[i + 1]
  BY <1>3, <1>4
<1>7. b[p] = IF k = 0 THEN nil ELSE r[1]
  BY <1>3, <1>4
<1>8. Along(b, b[p], r)
  BY <1>2, <1>5, <1>6, <1>7 DEF Along
<1>9. Members(r) = Members(q) \ {p}
  <2>1. ASSUME NEW x \in Members(r) PROVE x \in Members(q) /\ x # p
    <3>1. PICK i \in 1 .. k : r[i] = x
      BY <1>2, MembersAre
    <3>2. i + 1 \in 1 .. k + 1 /\ q[i + 1] = x /\ i + 1 # 1
      BY <1>3, <3>1
    <3>3. x \in Members(q)
      BY <1>2, <3>2 DEF Members
    <3>4. 1 \in 1 .. k + 1 /\ p = q[1]
      BY <1>4
    <3>5. x # p
      BY <1>4, <3>2, <3>4
    <3> QED BY <3>3, <3>5
  <2>2. ASSUME NEW x \in Members(q), x # p PROVE x \in Members(r)
    <3>1. PICK i \in 1 .. k + 1 : q[i] = x
      BY <1>2, MembersAre
    <3>2. i # 1
      BY <1>4, <2>2, <3>1
    <3>3. i - 1 \in 1 .. k /\ r[i - 1] = x
      BY <1>3, <3>1, <3>2
    <3> QED BY <1>2, <3>3 DEF Members
  <2> QED BY <2>1, <2>2
<1> QED BY <1>8, <1>9

LEMMA AlongCut ==
  ASSUME NEW b, NEW p, NEW q \in Seq(Slots), NEW j \in 2 .. Len(q), NEW s, NEW t, NEW links,
         Along(b, p, q), s = q[j], t = q[j - 1], links[t] = b[s],
         \A x \in Slots : x # t => links[x] = b[x]
  PROVE  \E r \in Seq(Slots) : Along(links, p, r) /\ Members(r) = Members(q) \ {s}
<1>1. PICK k \in Nat : Len(q) = k + 1 /\ k > 0 /\ j \in 2 .. k + 1
  <2>1. Len(q) \in Nat
    OBVIOUS
  <2>2. Len(q) - 1 \in Nat /\ Len(q) - 1 > 0
    BY <2>1
  <2> QED BY <2>1, <2>2
<1>2. /\ \A i, n \in 1 .. k + 1 : q[i] = q[n] => i = n
      /\ p = q[1]
      /\ \A i \in 1 .. k + 1 : b[q[i]] = IF i = k + 1 THEN nil ELSE q[i + 1]
      /\ \A i \in 1 .. k + 1 : q[i] \in Slots
  BY <1>1, MembersAre DEF Along
<1> DEFINE r == [i \in 1 .. k |-> IF i < j THEN q[i] ELSE q[i + 1]]
<1>3. r \in Seq(Slots) /\ Len(r) = k
  BY <1>1, <1>2
<1>4. /\ \A i \in 1 .. k : i < j => r[i] = q[i]
      /\ \A i \in 1 .. k : ~(i < j) => r[i] = q[i + 1]
  OBVIOUS
<1>5. /\ links[q[j - 1]] = b[q[j]]
      /\ \A i \in 1 .. k + 1 : i # j - 1 => links[q[i]] = b[q[i]]
  <2>1. j - 1 \in 1 .. k + 1
    BY <1>1
  <2>2. \A i \in 1 .. k + 1 : i # j - 1 => q[i] # q[j - 1]
    BY <1>2, <2>1
  <2> QED BY <1>2, <2>2
<1> HIDE DEF r
<1>6. \A i, n \in 1 .. k : r[i] = r[n] => i = n
  <2> SUFFICES ASSUME NEW i \in 1 .. k, NEW n \in 1 .. k, r[i] = r[n]
               PROVE  i = n
    OBVIOUS
  <2>1. i \in 1 .. k + 1 /\ i + 1 \in 1 .. k + 1 /\ n \in 1 .. k + 1 /\ n + 1 \in 1 .. k + 1
    OBVIOUS
  <2>2. i < j /\ n < j => i = n
    BY <1>2, <1>4, <2>1
  <2>3. ~(i < j) /\ ~(n < j) => i = n
    BY <1>2, <1>4, <2>1
  <2>4. i < j /\ ~(n < j) => FALSE
    <3> SUFFICES ASSUME i < j, ~(n < j) PROVE FALSE
      OBVIOUS
    <3>1. i = n + 1
      BY <1>2, <1>4, <2>1
    <3> QED BY <3>1, <1>1
  <2>5. ~(i < j) /\ n < j => FALSE
    <3> SUFFICES ASSUME ~(i < j), n < j PROVE FALSE
      OBVIOUS
    <3>1. i + 1 = n
      BY <1>2, <1>4, <2>1
    <3> QED BY <3>1, <1>1
  <2> QED BY <2>2, <2>3, <2>4, <2>5
<1>7. p = IF k = 0 THEN nil ELSE r[1]
  <2>1. 1 \in 1 .. k /\ 1 < j
    BY <1>1
  <2> QED BY <1>1, <1>2, <1>4, <2>1
<1>8. \A i \in 1 .. k : links[r[i]] = IF i = k THEN nil ELSE r[i + 1]
  <2> TAKE i \in 1 .. k
  <2>1. i \in 1 .. k + 1 /\ i + 1 \in 1 .. k + 1 /\ (i # k => i + 1 \in 1 .. k /\ i + 2 \in 1 .. k + 1)
    OBVIOUS
  <2>2. CASE i < j - 1
    <3>1. links[r[i]] = b[q[i]] /\ i # k + 1 /\ i + 1 < j /\ i # k
      BY <1>1, <1>4, <1>5, <2>1, <2>2
    <3>2. b[q[i]] = q[i + 1]
      BY <1>2, <2>1, <3>1
    <3>3. r[i + 1] = q[i + 1]
      BY <1>4, <2>1, <3>1
    <3> QED BY <3>1, <3>2, <3>3
  <2>3. CASE i = j - 1
    <3>1. links[r[i]] = b[q[i + 1]]
      BY <1>1, <1>4, <1>5, <2>1, <2>3
    <3>2. b[q[i + 1]] = IF i = k THEN nil ELSE q[i + 1 + 1]
      BY <1>2, <2>1
    <3>3. i # k => r[i + 1] = q[i + 1 + 1]
      BY <1>1, <1>4, <2>1, <2>3
    <3> QED BY <3>1, <3>2, <3>3
  <2>4. CASE i > j - 1
    <3>1. r[i] = q[i + 1] /\ i + 1 # j - 1
      BY <1>1, <1>4, <2>1, <2>4
    <3>2. links[r[i]] = b[q[i + 1]]
      BY <1>5, <2>1, <3>1
    <3>3. b[q[i + 1]] = IF i = k THEN nil ELSE q[i + 1 + 1]
      BY <1>2, <2>1
    <3>4. i # k => r[i + 1] = q[i + 1 + 1]
      BY <1>1, <1>4, <2>1, <2>4
    <3> QED BY <3>2, <3>3, <3>4
  <2> QED BY <1>1, <2>1, <2>2, <2>3, <2>4
<1>9. Along(links, p, r)
  BY <1>3, <1>6, <1>7, <1>8 DEF Along
<1>10. Members(r) = Members(q) \ {q[j]}
  <2>1. ASSUME NEW x \in Members(r) PROVE x \in Members(q) /\ x # q[j]
    <3>1. PICK i \in 1 .. k : r[i] = x
      BY <1>3, MembersAre
    <3>0. j \in 1 .. k + 1
      BY <1>1
    <3>2. PICK n \in 1 .. k + 1 : q[n] = x /\ n # j
      <4>1. i \in 1 .. k + 1 /\ i + 1 \in 1 .. k + 1
        OBVIOUS
      <4>2. i < j => q[i] = x /\ i # j
        BY <1>1, <1>4, <3>1
      <4>3. ~(i < j) => q[i + 1] = x /\ i + 1 # j
        BY <1>1, <1>4, <3>1
      <4> QED BY <4>1, <4>2, <4>3
    <3>3. x # q[j]
      BY <1>2, <3>0, <3>2
    <3> QED BY <1>1, <3>2, <3>3, MembersAre
  <2>2. ASSUME NEW x \in Members(q), x # q[j] PROVE x \in Members(r)
    <3>1. PICK n \in 1 .. k + 1 : q[n] = x
      BY <1>1, MembersAre
    <3>2. CASE n < j
      <4>1. n \in 1 .. k /\ r[n] = x
        BY <1>1, <1>4, <3>1, <3>2
      <4> QED BY <1>3, <4>1, MembersAre
    <3>3. CASE n > j
      <4>1. n - 1 \in 1 .. k /\ r[n - 1] = x
        BY <1>1, <1>4, <3>1, <3>3
      <4> QED BY <1>3, <4>1, MembersAre
    <3>4. n # j
      BY <2>2, <3>1
    <3> QED BY <1>1, <3>2, <3>3, <3>4
  <2> QED BY <2>1, <2>2
<1> QED BY <1>3, <1>9, <1>10

\* What a step leaves of the table.
LEMMA OnSame ==
  ASSUME \A s \in Slots : InTable(s)' <=> InTable(s), UNCHANGED Blockno
  PROVE  \A h : On(h)' = On(h)
BY DEF On

LEMMA TableSame ==
  ASSUME Table, Apiece, UNCHANGED <<Blockno, hash, load>>,
         \A s \in Slots : InTable(s)' <=> InTable(s),
         server' = "unhash" => server = "unhash" /\ UNCHANGED <<bp, prev_ptr>>
  PROVE  Table' /\ Apiece'
<1>0. UNCHANGED <<b_hash, buf_hash>>
  BY DEF hash
<1>1. \A h : On(h)' = On(h)
  BY OnSame
<1>2. Table'
  BY <1>0, <1>1 DEF Table
<1>3. \A s, h : Moving(s, h)' <=> Moving(s, h)
  BY DEF Moving
<1>4. Apiece'
  BY <1>0, <1>3 DEF Apiece
<1> QED BY <1>2, <1>4

LEMMA NamedSame == ASSUME Named, UNCHANGED <<Devno, Blockno>> PROVE Named'
BY DEF Named, IdentityOf

LEMMA Quietly ==
  ASSUME HInv, UNCHANGED <<Devno, Blockno, hash, load>>,
         \A s \in Slots : InTable(s)' <=> InTable(s),
         server' = "unhash" => server = "unhash" /\ UNCHANGED <<bp, prev_ptr>>,
         server' \notin {"hung", "panicked"}
  PROVE  HInv'
<1>1. Table' /\ Apiece'
  BY TableSame DEF HInv
<1>2. Named'
  BY NamedSame DEF HInv
<1> QED BY <1>1, <1>2 DEF HInv, Up

\* The chain of a bucket.
LEMMA ChainAt ==
  ASSUME Table, TypeOK, NEW s \in Slots
  PROVE  /\ Bucket(Blockno[s]) \in 0 .. numhash - 1
         /\ \E q \in Seq(Slots) :
              /\ Along(b_hash, buf_hash[Bucket(Blockno[s])], q) /\ Members(q) = On(Bucket(Blockno[s]))
              /\ InTable(s) => \E i \in 1 .. Len(q) : q[i] = s
<1>1. Bucket(Blockno[s]) \in 0 .. numhash - 1
  BY NumbersAre, BucketsAre
<1>2. PICK q \in Seq(Slots) :
        Along(b_hash, buf_hash[Bucket(Blockno[s])], q) /\ Members(q) = On(Bucket(Blockno[s]))
  BY <1>1 DEF Table
<1>3. InTable(s) => s \in Members(q)
  BY <1>2 DEF On
<1> QED BY <1>1, <1>2, <1>3, MembersAre

\* A load that has not been put into its chain is one of a block that its client wants.
LEMMA MovesFor ==
  ASSUME IInv, NEW s \in Slots, NEW h, Moving(s, h)
  PROVE  \E c \in Clients :
           /\ waiting[s] = <<c>> /\ pc[c] = "awaiting" /\ req[c].op = "get"
           /\ load[s].block = req[c].block /\ req[c].block \in Blocks /\ Wants(c) = load[s].block
           /\ h = Bucket(req[c].block[2])
BY LoadedFor DEF Moving, Loading

LEMMA InsideBuckets ==
  ASSUME NEW b \in Blocks
  PROVE  Bucket(b[2]) \in 0 .. numhash - 1
BY NoBlockIsNone, BucketsAre

\* The server takes no buffer out of a chain that another is being put into.
LEMMA OldestApart ==
  ASSUME Undisturbed, IInv, HInv, NEW c \in Clients, GetBlock(c), GotOldest, NEW s \in Slots
  PROVE  ~Moving(s, Bucket(Blockno[front]))
<1> SUFFICES ASSUME Moving(s, Bucket(Blockno[front])) PROVE FALSE
  OBVIOUS
<1>1. PICK d \in Clients :
        /\ waiting[s] = <<d>> /\ pc[d] = "awaiting" /\ req[d].op = "get"
        /\ load[s].block = req[d].block /\ req[d].block \in Blocks
        /\ Bucket(Blockno[front]) = Bucket(req[d].block[2])
  BY MovesFor
<1>2. pc[c] = "sending"
  BY Got
<1>3. Apart
  BY <1>1, <1>2 DEF Undisturbed, Alone
<1>4. front \in Slots /\ ~InUse(front)
  BY GetOldest DEF GotOldest
<1>5. PICK a \in Blocks \cup {NoBlock} : a = IdentityOf(front) /\ a[2] = Blockno[front]
  BY <1>3, <1>4 DEF HInv, Named, IdentityOf
<1>6. CASE a = NoBlock
  <2>1. Bucket(Blockno[front]) = Bucket(0)
    BY <1>5, <1>6 DEF NoBlock
  <2>2. Bucket(0) = 0
    BY SlotsAssumption DEF Bucket
  <2> QED BY <1>1, <1>3, <2>1, <2>2 DEF Apart
<1>7. CASE a \in Blocks
  <2>1. a = req[d].block
    BY <1>1, <1>3, <1>5, <1>7 DEF Apart
  <2>2. Begun(front)
    BY <1>1, <1>4, <1>5, <2>1 DEF IInv, Fresh
  <2>3. InUse(front)
    BY <2>2 DEF InUse, Taken, Begun, Loading
  <2> QED BY <1>4, <2>3
<1> QED BY <1>5, <1>6, <1>7

LEMMA GetKeeps ==
  ASSUME Undisturbed, IInv, HInv, NEW c \in Clients, GetBlock(c)
  PROVE  HInv'
<1>1. /\ Receive(c, "get") /\ pc[c] = "sending" /\ req[c].op = "get"
      /\ UNCHANGED <<bufs, hash, waiting, store>> /\ server = "loop" /\ UNCHANGED load
  BY Got DEF Receive, Ready
<1>2. /\ UNCHANGED <<Devno, Blockno>>
      /\ \A s : ~Given(s)
      /\ server' # "lock" /\ (server' = "reply" => res'.ready) => \A s \in Slots : InTable(s)' <=> InTable(s)
  BY <1>1 DEF bufs, Given, InTable
<1>3. CASE GotHung /\ Endless(buf_hash[Bucket(req[c].block[2])])
  <2>1. req[c].block \in Blocks
    BY <1>1 DEF IInv, Calling
  <2>2. PICK h \in 0 .. numhash - 1 : h = Bucket(req[c].block[2])
    BY <2>1, InsideBuckets
  <2>3. PICK q \in Seq(Slots) : Along(b_hash, buf_hash[h], q)
    BY DEF HInv, Table
  <2> QED BY <1>3, <2>2, <2>3, ChainEnds
<1>4. CASE GotNone(c)
  <2>1. server' = "reply" /\ res'.ready
    BY <1>4 DEF GotNone, Respond
  <2> QED BY <1>1, <1>2, <2>1, Quietly
<1>5. CASE GotOldest
  <2>0. PICK s \in Slots : s = front
    BY <1>5 DEF GotOldest
  <2>1. server' = "unhash" /\ bp' = s /\ prev_ptr' = buf_hash[Bucket(Blockno[s])]
    BY <1>5, <2>0 DEF GotOldest
  <2>2. \A r \in Slots : ~Moving(r, Bucket(Blockno[s]))
    BY <1>5, <2>0, OldestApart
  <2>3. \A r \in Slots : InTable(r)' <=> InTable(r)
    BY <1>2, <2>1
  <2>4. Table'
    <3>1. \A h : On(h)' = On(h)
      BY <1>2, <2>3, OnSame
    <3> QED BY <1>1, <3>1 DEF HInv, Table, hash
  <2>5. Apiece'
    <3>1. \A r, h : Moving(r, h)' <=> Moving(r, h)
      BY <1>1 DEF Moving
    <3>2. UNCHANGED <<b_hash, buf_hash>>
      BY <1>1 DEF hash
    <3>3. PICK h : h = Bucket(Blockno[s]) /\ h = Bucket(Blockno'[bp'])
      BY <1>2, <2>1
    <3>4. \A r \in Slots : ~(load'[r].stage \in {"start", "insert"} /\ Bucket(load'[r].block[2]) = h)
      BY <1>1, <2>2, <3>3 DEF Moving
    <3>5. prev_ptr' = buf_hash'[h]
      BY <2>1, <3>2, <3>3
    <3>6. /\ prev_ptr' = buf_hash'[Bucket(Blockno'[bp'])]
          /\ \A r \in Slots : ~Moving(r, Bucket(Blockno[bp]))'
      BY <3>3, <3>4, <3>5 DEF Moving
    <3>7. /\ \A r \in Slots : load'[r].stage = "insert" =>
               b_hash'[r] = buf_hash'[Bucket(load'[r].block[2])]
          /\ \A r, t \in Slots, k \in 0 .. numhash - 1 : Moving(r, k)' /\ Moving(t, k)' => r = t
      BY <1>1, <3>1, <3>2 DEF HInv, Apiece
    <3> QED BY <3>6, <3>7 DEF Apiece
  <2>6. Named' /\ Up'
    BY <1>2, <2>1, NamedSame DEF HInv, Up
  <2> QED BY <2>4, <2>5, <2>6 DEF HInv
<1> QED BY <1>3, <1>4, <1>5, Got

LEMMA AnswerKeeps ==
  ASSUME IInv, HInv, NEW c \in Clients, NEW op, Receive(c, op), NEW kind, Respond(kind, nil, TRUE),
         UNCHANGED <<Blockno, hash>>
  PROVE  /\ Table' /\ Apiece' /\ Up'
         /\ UNCHANGED Devno => HInv'
<1>1. /\ server = "loop" /\ server' = "reply" /\ res'.ready /\ UNCHANGED load
  BY DEF Receive, Ready, Respond
<1>2. \A s \in Slots : InTable(s)' <=> InTable(s)
  BY <1>1 DEF InTable, Given
<1>3. Table' /\ Apiece'
  BY <1>1, <1>2, TableSame DEF HInv
<1>4. Up'
  BY <1>1 DEF Up
<1>5. UNCHANGED Devno => Named'
  BY NamedSame DEF HInv
<1> QED BY <1>3, <1>4, <1>5 DEF HInv

LEMMA ServeKeeps ==
  ASSUME Undisturbed, IInv, HInv, NEW c \in Clients, Serve(c)
  PROVE  HInv'
<1>1. CASE GetBlock(c)
  BY <1>1, GetKeeps
<1>2. CASE PutBlock(c)
  BY <1>2, AnswerKeeps DEF PutBlock
<1>3. CASE MountDevice(c)
  BY <1>3, AnswerKeeps DEF MountDevice, bufs
<1>4. CASE UnmountDevice(c)
  BY <1>4, AnswerKeeps DEF UnmountDevice, bufs
<1>5. CASE Invalidate(c)
  <2>1. Table' /\ Apiece' /\ Up'
    BY <1>5, AnswerKeeps DEF Invalidate, Answer
  <2>2. "invalidate" \in Ops
    <3>1. req[c].op = "invalidate" /\ req[c] \in Requests \cup {NoRequest}
      BY <1>5, Typed DEF Invalidate, Receive, TypeOK
    <3> QED BY <3>1, RequestsAre
  <2>3. ~Apart
    BY <2>2 DEF Apart
  <2>4. Named'
    BY <2>3 DEF Named, Apart
  <2> QED BY <2>1, <2>4 DEF HInv
<1>6. CASE Flush(c)
  BY <1>6, AnswerKeeps DEF Flush, Answer, bufs
<1>7. CASE CloseRequest(c)
  BY <1>7, AnswerKeeps DEF CloseRequest, bufs
<1> QED BY <1>1, <1>2, <1>3, <1>4, <1>5, <1>6, <1>7 DEF Serve

LEMMA CallKeeps ==
  ASSUME HInv, NEW c \in Clients, NEW r \in Requests, Call(c, r)
  PROVE  HInv'
<1>1. UNCHANGED <<Devno, Blockno, hash, load, server, bp, prev_ptr, res>> /\ server \notin {"hung", "panicked"}
  BY DEF Call, Closing, HInv, Up, bufs, serverVars
<1>2. \A s \in Slots : InTable(s)' <=> InTable(s)
  BY <1>1 DEF InTable, Given
<1> QED BY <1>1, <1>2, Quietly

LEMMA ModifyKeeps ==
  ASSUME HInv, NEW c \in Clients, NEW v \in Values, Modify(c, v)
  PROVE  HInv'
<1>1. UNCHANGED <<Devno, Blockno, hash, load, server, bp, prev_ptr, res>> /\ server \notin {"hung", "panicked"}
  BY DEF Modify, Closing, HInv, Up, serverVars
<1>2. \A s \in Slots : InTable(s)' <=> InTable(s)
  BY <1>1 DEF InTable, Given
<1> QED BY <1>1, <1>2, Quietly

LEMMA StutterKeeps == ASSUME HInv, UNCHANGED vars PROVE HInv'
<1>1. UNCHANGED <<Devno, Blockno, hash, load, server, bp, prev_ptr, res, pc, req, holds, cur>>
  BY DEF vars, bufs, serverVars, clientVars
<1>2. \A s \in Slots : InTable(s)' <=> InTable(s)
  BY <1>1 DEF InTable, Given
<1>3. Table' /\ Apiece'
  BY <1>1, <1>2, TableSame DEF HInv
<1>4. Named'
  BY <1>1, NamedSame DEF HInv
<1>5. \A s : InUse(s)' <=> InUse(s)
  BY <1>1 DEF InUse, Taken, Loading, Has
<1>6. Up'
  BY <1>1, <1>5 DEF HInv, Up
<1> QED BY <1>3, <1>4, <1>6 DEF HInv

LEMMA KeepCallbackKeeps ==
  ASSUME IInv, HInv, KeepCallback
  PROVE  HInv'
<1>1. /\ UNCHANGED <<Devno, Blockno, hash, load, bp, prev_ptr>>
      /\ server = "lock" /\ server' = "reply" /\ ~res'.ready /\ res'.slot = bp
  BY DEF KeepCallback, Respond, bufs
<1>2. \A s \in Slots : InTable(s)' <=> InTable(s)
  BY <1>1 DEF InTable, Given
<1> QED BY <1>1, <1>2, Quietly

\* evictBlock finds the buffer in the chain of its bucket.
LEMMA UnhashKeeps ==
  ASSUME IInv, HInv, Unhash
  PROVE  HInv' /\ server' = "lock"
<1>0. /\ server = "unhash" /\ UNCHANGED <<Devno, Blockno, load, bp, prev_ptr, res>>
      /\ TypeOK /\ Table /\ Apiece
  BY Typed DEF Unhash, bufs, HInv
<1>1. PICK s \in Slots : s = bp /\ load[s].stage = "off"
  BY <1>0 DEF IInv, Serving, Awaited, Loading
<1>2. InTable(s)
  BY <1>0, <1>1 DEF InTable, Given
<1>h. PICK h \in 0 .. numhash - 1 : h = Bucket(Blockno[s])
  BY <1>0, NumbersAre, BucketsAre
<1>q. PICK q \in Seq(Slots) :
        Along(b_hash, buf_hash[h], q) /\ Members(q) = On(h) /\ \E i \in 1 .. Len(q) : q[i] = s
  BY <1>0, <1>2, <1>h, ChainAt
<1>3. PICK j \in 1 .. Len(q) :
        /\ h = Bucket(Blockno[s])
        /\ Along(b_hash, buf_hash[h], q) /\ Members(q) = On(h) /\ q[j] = s
  BY <1>h, <1>q
<1>4. PICK p \in Slots : p = q[1] /\ p = prev_ptr /\ p = buf_hash[h] /\ Len(q) \in Nat /\ Len(q) > 0
  <2>1. Len(q) \in Nat /\ Len(q) > 0 /\ 1 \in 1 .. Len(q)
    BY MembersAre
  <2>2. q[1] \in Slots
    BY <2>1, MembersAre
  <2>3. prev_ptr = buf_hash[h]
    BY <1>0, <1>1, <1>3 DEF Apiece
  <2> QED BY <1>3, <2>1, <2>2, <2>3 DEF Along
<1>5. Unlink /\ server' = "lock"
  BY <1>4, NilIsNoSlot DEF Unhash
<1>6. \A r \in Slots : InTable(r)' <=> InTable(r) /\ r # s
  BY <1>0, <1>1, <1>5 DEF InTable, Given
<1>7. /\ On(h)' = On(h) \ {s}
      /\ \A k : k # h => On(k)' = On(k)
  BY <1>0, <1>3, <1>6 DEF On
<1>8. \A r \in Slots : ~Moving(r, h)
  BY <1>0, <1>1, <1>3 DEF Apiece
<1>9. \A r, k : Moving(r, k)' <=> Moving(r, k)
  BY <1>0 DEF Moving
<1>10. ASSUME s = p PROVE Table' /\ Apiece'
  <2>1. buf_hash' = [buf_hash EXCEPT ![h] = b_hash[s]] /\ UNCHANGED b_hash
    BY <1>1, <1>3, <1>4, <1>5, <1>10 DEF Unlink, After
  <2>2. buf_hash'[h] = b_hash[s] /\ \A k \in 0 .. numhash - 1 : k # h => buf_hash'[k] = buf_hash[k]
    BY <1>0, <2>1 DEF TypeOK
  <2>3. PICK r \in Seq(Slots) : Along(b_hash, b_hash[s], r) /\ Members(r) = Members(q) \ {s}
    BY <1>3, <1>4, <1>10, AlongLess
  <2>4. Table'
    <3>1. ASSUME NEW k \in 0 .. numhash - 1
          PROVE  \E t \in Seq(Slots) : Along(b_hash', buf_hash'[k], t) /\ Members(t) = On(k)'
      <4>1. CASE k = h
        BY <1>3, <1>7, <2>1, <2>2, <2>3, <4>1
      <4>2. CASE k # h
        BY <1>0, <1>7, <2>1, <2>2, <4>2 DEF Table
      <4> QED BY <4>1, <4>2
    <3> QED BY <3>1 DEF Table
  <2>5. Apiece'
    <3>1. ASSUME NEW u \in Slots, load'[u].stage = "insert"
          PROVE  b_hash'[u] = buf_hash'[Bucket(load'[u].block[2])]
      <4>1. PICK k : k = Bucket(load[u].block[2])
        OBVIOUS
      <4>2. load[u].stage = "insert" /\ Moving(u, k)
        BY <1>0, <3>1, <4>1 DEF Moving
      <4>3. k # h /\ k \in 0 .. numhash - 1
        BY <1>8, <4>2, MovesFor, InsideBuckets
      <4> QED BY <1>0, <2>1, <2>2, <4>1, <4>2, <4>3 DEF Apiece
    <3> QED BY <1>0, <1>5, <1>9, <3>1 DEF Apiece
  <2> QED BY <2>4, <2>5
<1>11. ASSUME s # p PROVE Table' /\ Apiece'
  <2>1. j \in 2 .. Len(q) /\ j - 1 \in 1 .. Len(q)
    <3>1. q[j] = s /\ q[1] = p
      BY <1>3, <1>4
    <3>2. j # 1
      BY <1>11, <3>1
    <3>3. Len(q) \in Nat
      BY <1>4
    <3> QED BY <3>2, <3>3
  <2>2. PICK t \in Slots : t = q[j - 1] /\ t \in Members(q)
    BY <2>1, MembersAre
  <2>3. First(prev_ptr, {r \in Slots : b_hash[r] = s}) = t
    <3>1. b_hash[t] = s
      BY <1>3, <1>4, <2>1, <2>2 DEF Along
    <3>2. ASSUME NEW i \in 1 .. Len(q), b_hash[q[i]] = s
          PROVE  i = j - 1
      <4>1. s # nil
        BY NilIsNoSlot
      <4>2. i # Len(q) /\ q[i + 1] = s
        BY <1>3, <3>2, <4>1 DEF Along
      <4>3. i + 1 \in 1 .. Len(q)
        BY <1>4, <4>2
      <4>4. i + 1 = j
        BY <1>3, <4>2, <4>3 DEF Along
      <4> QED BY <4>4
    <3> DEFINE S == {r \in Slots : b_hash[r] = s}
    <3>3. nil \notin S /\ q[j - 1] \in S /\ \A i \in 1 .. Len(q) : q[i] \in S => i = j - 1
      BY <2>2, <3>1, <3>2, NilIsNoSlot
    <3>4. Along(b_hash, prev_ptr, q)
      BY <1>3, <1>4
    <3> HIDE DEF S
    <3>5. First(prev_ptr, S) = q[j - 1]
      BY <2>1, <3>3, <3>4, FirstOfChain
    <3> QED BY <2>2, <3>5 DEF S
  <2>4. b_hash' = [b_hash EXCEPT ![t] = b_hash[s]] /\ UNCHANGED buf_hash
    <3>1. t # nil /\ prev_ptr # bp
      BY <1>1, <1>4, <1>11, NilIsNoSlot
    <3> QED BY <1>1, <1>5, <2>3, <3>1 DEF Unlink, After
  <2>5. \A r \in Slots : r # t => b_hash'[r] = b_hash[r]
    BY <1>0, <2>4 DEF TypeOK
  <2>6. PICK u \in Seq(Slots) : Along(b_hash', buf_hash[h], u) /\ Members(u) = Members(q) \ {s}
    <3>1. b_hash \in [Slots -> Links]
      BY <1>0 DEF TypeOK
    <3>2. Along(b_hash, buf_hash[h], q)
      BY <1>3
    <3>3. s = q[j] /\ t = q[j - 1] /\ j \in 2 .. Len(q)
      BY <1>3, <2>1, <2>2
    <3>4. b_hash'[t] = b_hash[s]
      BY <2>4, <3>1
    <3> QED BY <2>5, <3>2, <3>3, <3>4, AlongCut
  <2>7. t \in On(h)
    BY <1>3, <2>2
  <2>8. Table'
    <3>1. ASSUME NEW k \in 0 .. numhash - 1
          PROVE  \E v \in Seq(Slots) : Along(b_hash', buf_hash'[k], v) /\ Members(v) = On(k)'
      <4>1. CASE k = h
        BY <1>3, <1>7, <2>4, <2>6, <4>1
      <4>2. CASE k # h
        <5>1. PICK v \in Seq(Slots) : Along(b_hash, buf_hash[k], v) /\ Members(v) = On(k)
          BY <1>0 DEF Table
        <5>2. t \notin Members(v)
          BY <2>7, <4>2, <5>1 DEF On
        <5>3. \A r \in Members(v) : b_hash'[r] = b_hash[r]
          BY <2>5, <5>2, MembersAre
        <5>4. Along(b_hash', buf_hash[k], v)
          BY <5>1, <5>3, AlongSame
        <5> QED BY <1>7, <2>4, <4>2, <5>1, <5>4
      <4> QED BY <4>1, <4>2
    <3> QED BY <3>1 DEF Table
  <2>9. Apiece'
    <3>1. ASSUME NEW r \in Slots, load'[r].stage = "insert"
          PROVE  b_hash'[r] = buf_hash'[Bucket(load'[r].block[2])]
      <4>1. r # t
        BY <1>0, <2>7, <3>1 DEF On, InTable
      <4> QED BY <1>0, <2>4, <2>5, <3>1, <4>1 DEF Apiece
    <3> QED BY <1>0, <1>5, <1>9, <3>1 DEF Apiece
  <2> QED BY <2>8, <2>9
<1>12. Named' /\ Up'
  BY <1>0, <1>5, NamedSame DEF HInv, Up
<1> QED BY <1>5, <1>10, <1>11, <1>12 DEF HInv

\* The loads.
LEMMA LoadBlockKeeps ==
  ASSUME IInv, HInv, NEW s \in Slots, LoadBlock(s)
  PROVE  HInv'
<1>0. /\ load[s].stage = "start" /\ server # "panicked" /\ load' = [load EXCEPT ![s].stage = "insert"]
      /\ Devno' = [Devno EXCEPT ![s] = load[s].block[1]] /\ Blockno' = [Blockno EXCEPT ![s] = load[s].block[2]]
      /\ b_hash' = [b_hash EXCEPT ![s] = buf_hash[Bucket(load[s].block[2])]]
      /\ UNCHANGED <<buf_hash, server, bp, prev_ptr, res>>
      /\ TypeOK /\ Table /\ Apiece
  BY Typed DEF LoadBlock, Step, serverVars, HInv
<1>1. /\ load'[s].stage = "insert" /\ load'[s].block = load[s].block
      /\ \A r \in Slots : r # s => load'[r] = load[r]
  BY <1>0, StageTypes
<1>2. /\ b_hash'[s] = buf_hash[Bucket(load[s].block[2])] /\ \A r \in Slots : r # s => b_hash'[r] = b_hash[r]
      /\ Devno'[s] = load[s].block[1] /\ Blockno'[s] = load[s].block[2]
      /\ \A r \in Slots : r # s => Devno'[r] = Devno[r] /\ Blockno'[r] = Blockno[r]
  BY <1>0 DEF TypeOK
<1>3. ~InTable(s) /\ ~InTable(s)' /\ \A r \in Slots : r # s => (InTable(r)' <=> InTable(r))
  BY <1>0, <1>1 DEF InTable, Given
<1>4. \A h : s \notin On(h) /\ On(h)' = On(h)
  BY <1>2, <1>3 DEF On
<1>5. \A r \in Slots : \A h : Moving(r, h)' <=> Moving(r, h)
  BY <1>0, <1>1 DEF Moving
<1>6. Table'
  <2>1. ASSUME NEW h \in 0 .. numhash - 1
        PROVE  \E q \in Seq(Slots) : Along(b_hash', buf_hash'[h], q) /\ Members(q) = On(h)'
    <3>1. PICK q \in Seq(Slots) : Along(b_hash, buf_hash[h], q) /\ Members(q) = On(h)
      BY <1>0 DEF Table
    <3>2. \A r \in Members(q) : b_hash'[r] = b_hash[r]
      BY <1>2, <1>4, <3>1, MembersAre
    <3>3. Along(b_hash', buf_hash[h], q)
      BY <3>1, <3>2, AlongSame
    <3> QED BY <1>0, <1>4, <3>1, <3>3
  <2> QED BY <2>1 DEF Table
<1>7. Apiece'
  <2>1. ASSUME server = "unhash"
        PROVE  /\ prev_ptr' = buf_hash'[Bucket(Blockno'[bp'])]
               /\ \A r \in Slots : ~Moving(r, Bucket(Blockno[bp]))'
    <3>1. bp \in Slots /\ bp # s
      BY <1>0, <2>1 DEF IInv, Serving, Awaited, Loading
    <3>2. PICK h : h = Bucket(Blockno[bp]) /\ h = Bucket(Blockno'[bp'])
      BY <1>0, <1>2, <3>1
    <3>3. prev_ptr = buf_hash[h] /\ \A r \in Slots : ~Moving(r, h)
      BY <1>0, <2>1, <3>2 DEF Apiece
    <3>4. \A r \in Slots : ~Moving(r, h)'
      BY <1>5, <3>3
    <3> QED BY <1>0, <3>2, <3>3, <3>4 DEF Moving
  <2>2. ASSUME NEW r \in Slots, load'[r].stage = "insert"
        PROVE  b_hash'[r] = buf_hash'[Bucket(load'[r].block[2])]
    BY <1>0, <1>1, <1>2, <2>2 DEF Apiece
  <2>3. \A r, t \in Slots, h \in 0 .. numhash - 1 : Moving(r, h)' /\ Moving(t, h)' => r = t
    BY <1>0, <1>5 DEF Apiece
  <2> QED BY <1>0, <2>1, <2>2, <2>3 DEF Apiece
<1>8. Named'
  <2>1. load[s].block \in Blocks
    BY <1>0, LoadedFor DEF Loading
  <2>2. IdentityOf(s)' = load[s].block
    BY <1>2, <2>1, NoBlockIsNone DEF IdentityOf
  <2>3. \A r \in Slots : r # s => IdentityOf(r)' = IdentityOf(r)
    BY <1>2 DEF IdentityOf
  <2> QED BY <2>1, <2>2, <2>3 DEF HInv, Named
<1>9. Up'
  BY <1>0 DEF HInv, Up
<1> QED BY <1>6, <1>7, <1>8, <1>9 DEF HInv

LEMMA RehashKeeps ==
  ASSUME IInv, HInv, NEW s \in Slots, Rehash(s)
  PROVE  HInv'
<1>0. /\ load[s].stage = "insert" /\ server # "panicked" /\ load' = [load EXCEPT ![s].stage = "read"]
      /\ buf_hash' = [buf_hash EXCEPT ![Bucket(load[s].block[2])] = s]
      /\ UNCHANGED <<Devno, Blockno, b_hash, server, bp, prev_ptr, res>>
      /\ TypeOK /\ Table /\ Apiece
  BY Typed DEF Rehash, Step, ChainOf, serverVars, HInv, bufs
<1>1. /\ load'[s].stage = "read" /\ load'[s].block = load[s].block
      /\ \A r \in Slots : r # s => load'[r] = load[r]
  BY <1>0, StageTypes
<1>2. PICK h \in 0 .. numhash - 1 : h = Bucket(load[s].block[2]) /\ Moving(s, h)
  <2>1. load[s].block \in Blocks
    BY <1>0, LoadedFor DEF Loading
  <2> QED BY <1>0, <2>1, InsideBuckets DEF Moving
<1>3. Bucket(Blockno[s]) = h
  <2>1. Begun(s)
    BY <1>0 DEF Begun
  <2>2. IdentityOf(s) = load[s].block
    BY <2>1 DEF IInv, Fresh
  <2> QED BY <1>2, <2>2 DEF IdentityOf
<1>4. buf_hash'[h] = s /\ \A k \in 0 .. numhash - 1 : k # h => buf_hash'[k] = buf_hash[k]
  BY <1>0, <1>2 DEF TypeOK
<1>5. ~InTable(s) /\ InTable(s)' /\ \A r \in Slots : r # s => (InTable(r)' <=> InTable(r))
  <2>1. Loading(s)
    BY <1>0 DEF Loading
  <2>2. ~Given(s) /\ (server = "lock" => bp # s)
    BY <2>1 DEF IInv, Awaited, Given, Responding
  <2> QED BY <1>0, <1>1, <2>2 DEF InTable, Given
<1>6. /\ On(h)' = On(h) \cup {s} /\ s \notin On(h)
      /\ \A k : k # h => On(k)' = On(k)
  BY <1>0, <1>3, <1>5 DEF On
<1>7. \A r \in Slots, k \in 0 .. numhash - 1 : Moving(r, k)' => Moving(r, k) /\ r # s /\ k # h
  <2>1. \A r \in Slots : \A k : Moving(r, k)' => Moving(r, k) /\ r # s
    BY <1>0, <1>1 DEF Moving
  <2> QED BY <1>0, <1>2, <2>1 DEF Apiece
<1>8. Table'
  <2>1. ASSUME NEW k \in 0 .. numhash - 1
        PROVE  \E q \in Seq(Slots) : Along(b_hash', buf_hash'[k], q) /\ Members(q) = On(k)'
    <3>1. PICK q \in Seq(Slots) : Along(b_hash, buf_hash[k], q) /\ Members(q) = On(k)
      BY <1>0 DEF Table
    <3>2. CASE k # h
      BY <1>0, <1>4, <1>6, <3>1, <3>2
    <3>3. CASE k = h
      <4>1. b_hash[s] = buf_hash[k] /\ s \notin Members(q)
        BY <1>0, <1>2, <1>6, <3>1, <3>3 DEF Apiece
      <4>2. PICK r \in Seq(Slots) : Along(b_hash, s, r) /\ Members(r) = Members(q) \cup {s}
        BY <3>1, <4>1, AlongMore
      <4> QED BY <1>0, <1>4, <1>6, <3>1, <3>3, <4>2
    <3> QED BY <3>2, <3>3
  <2> QED BY <2>1 DEF Table
<1>9. Apiece'
  <2>1. ASSUME server = "unhash"
        PROVE  /\ prev_ptr' = buf_hash'[Bucket(Blockno'[bp'])]
               /\ \A r \in Slots : ~Moving(r, Bucket(Blockno[bp]))'
    <3>1. bp \in Slots
      BY <2>1 DEF IInv, Serving
    <3>2. PICK k \in 0 .. numhash - 1 : k = Bucket(Blockno[bp]) /\ k = Bucket(Blockno'[bp'])
      BY <1>0, <3>1, NumbersAre, BucketsAre
    <3>3. prev_ptr = buf_hash[k] /\ \A r \in Slots : ~Moving(r, k)
      BY <1>0, <2>1, <3>2 DEF Apiece
    <3>4. k # h /\ \A r \in Slots : ~Moving(r, k)'
      BY <1>2, <1>7, <3>3
    <3>5. prev_ptr' = buf_hash'[k]
      BY <1>0, <1>4, <3>3, <3>4
    <3> QED BY <3>2, <3>4, <3>5 DEF Moving
  <2>2. ASSUME NEW r \in Slots, load'[r].stage = "insert"
        PROVE  b_hash'[r] = buf_hash'[Bucket(load'[r].block[2])]
    <3>1. r # s /\ load'[r] = load[r] /\ load[r].stage = "insert"
      BY <1>1, <2>2
    <3>2. load[r].block \in Blocks
      BY <3>1, LoadedFor DEF Loading
    <3>3. PICK k \in 0 .. numhash - 1 : k = Bucket(load[r].block[2]) /\ Moving(r, k)
      BY <3>1, <3>2, InsideBuckets DEF Moving
    <3>4. k # h
      BY <1>0, <1>2, <3>1, <3>3 DEF Apiece
    <3>5. b_hash[r] = buf_hash[k]
      BY <1>0, <3>1, <3>3 DEF Apiece
    <3> QED BY <1>0, <1>4, <3>1, <3>3, <3>4, <3>5
  <2>3. \A r, t \in Slots, k \in 0 .. numhash - 1 : Moving(r, k)' /\ Moving(t, k)' => r = t
    BY <1>0, <1>7 DEF Apiece
  <2> QED BY <1>0, <2>1, <2>2, <2>3 DEF Apiece
<1>10. Named' /\ Up'
  BY <1>0, NamedSame DEF HInv, Up
<1> QED BY <1>8, <1>9, <1>10 DEF HInv

\* A load that leaves the table as it is.
LEMMA LoadKeeps ==
  ASSUME HInv, NEW s \in Slots, load[s].stage \in {"read", "wake"},
         load'[s].stage \in {"wake", "off"}, \A r \in Slots : r # s => load'[r] = load[r],
         server # "panicked",
         UNCHANGED <<Devno, Blockno, b_hash, buf_hash, server, bp, prev_ptr, res>>
  PROVE  HInv'
<1>1. \A r \in Slots : InTable(r)' <=> InTable(r)
  BY DEF InTable, Given
<1>2. \A h : On(h)' = On(h)
  BY <1>1 DEF On
<1>3. \A r \in Slots : \A h : Moving(r, h)' <=> Moving(r, h)
  BY DEF Moving
<1>4. Table'
  BY <1>2 DEF HInv, Table
<1>5. Apiece'
  BY <1>3 DEF HInv, Apiece
<1>6. Named' /\ Up'
  BY NamedSame DEF HInv, Up
<1> QED BY <1>4, <1>5, <1>6 DEF HInv

LEMMA ReadKeeps == ASSUME IInv, HInv, NEW s \in Slots, Read(s) PROVE HInv'
<1>0. /\ load[s].stage = "read" /\ server # "panicked" /\ load' = [load EXCEPT ![s].stage = "wake"]
      /\ UNCHANGED <<Devno, Blockno, b_hash, buf_hash, server, bp, prev_ptr, res>>
  BY DEF Read, Step, serverVars, hash
<1>1. load'[s].stage = "wake" /\ \A r \in Slots : r # s => load'[r] = load[r]
  BY <1>0, StageTypes, Typed
<1> QED BY <1>0, <1>1, LoadKeeps

LEMMA WakeKeeps == ASSUME IInv, HInv, NEW s \in Slots, NEW c \in Clients, Wake(s, c) PROVE HInv'
<1>0. /\ load[s].stage = "wake" /\ server # "panicked" /\ load' = [load EXCEPT ![s] = Idle]
      /\ UNCHANGED <<Devno, Blockno, b_hash, buf_hash, server, bp, prev_ptr, res>>
  BY Wakes DEF Wake, serverVars, hash, bufs
<1>1. load'[s] = Idle /\ load'[s].stage = "off" /\ \A r \in Slots : r # s => load'[r] = load[r]
  BY <1>0, Typed DEF TypeOK, Idle
<1> QED BY <1>0, <1>1, LoadKeeps

LEMMA ReplyKeeps ==
  ASSUME Undisturbed, IInv, HInv, NEW c \in Clients, Reply(c)
  PROVE  HInv'
<1>0. /\ c = cur /\ server = "reply" /\ pc[c] = "receiving" /\ res' = NoResponse
      /\ UNCHANGED <<Devno, Blockno, b_hash, buf_hash, bp, prev_ptr>> /\ UNCHANGED <<Devno, Blockno, hash>>
  BY Replies DEF Reply, bufs, hash
<1>1. CASE req[c].op # "get"
  <2>1. server' \in {"loop", "closed"} /\ UNCHANGED load
    BY <1>1, ReplyEnds
  <2>2. res.ready
    BY <1>1, Replies
  <2>3. \A s \in Slots : InTable(s)' <=> InTable(s)
    BY <1>0, <2>1, <2>2 DEF InTable, Given
  <2> QED BY <1>0, <2>1, <2>3, Quietly
<1>2. CASE req[c].op = "get" /\ res.ready
  <2>1. server' = "panicked" /\ (\A s \in Slots : InUse(s)' <=> InUse(s)) /\ \A s \in Slots : InUse(s)
    BY <1>2, ReplyPanics
  <2>2. UNCHANGED load
    BY <1>2, ReplyCases
  <2>3. \A s \in Slots : InTable(s)' <=> InTable(s)
    BY <1>0, <1>2, <2>1, <2>2 DEF InTable, Given
  <2>4. Table' /\ Apiece'
    BY <1>0, <2>1, <2>2, <2>3, TableSame DEF HInv
  <2>5. Named'
    BY <1>0, NamedSame DEF HInv
  <2>6. Up'
    BY <2>1 DEF Up
  <2> QED BY <2>4, <2>5, <2>6 DEF HInv
<1>3. CASE req[c].op = "get" /\ ~res.ready
  <2>1. PICK s \in Slots : s = bp /\ res.slot = s /\ ~Loading(s)
    BY <1>3, Replies
  <2>2. /\ server' = "loop" /\ req[c].block \in Blocks
        /\ load' = [load EXCEPT ![s] = [stage |-> "start", block |-> req[c].block, mode |-> req[c].arg]]
    BY <1>3, <2>1, ReplyCases DEF IInv, Calling
  <2>3. /\ load'[s].stage = "start" /\ load'[s].block = req[c].block
        /\ \A r \in Slots : r # s => load'[r] = load[r]
    <3>1. load \in [Slots -> Loads]
      BY Typed, LoadTypes
    <3>2. load'[s] = [stage |-> "start", block |-> req[c].block, mode |-> req[c].arg]
      BY <2>2, <3>1
    <3> QED BY <2>2, <3>1, <3>2
  <2>4. \A r \in Slots : InTable(r)' <=> InTable(r)
    BY <1>0, <1>3, <2>1, <2>2, <2>3 DEF InTable, Given
  <2>5. \A h : On(h)' = On(h)
    BY <1>0, <2>4 DEF On
  <2>6. Table'
    BY <1>0, <2>5 DEF HInv, Table
  <2>7. ~Moving(s, Bucket(req[c].block[2])) /\ \A r \in Slots : \A h :
          Moving(r, h)' <=> Moving(r, h) \/ (r = s /\ h = Bucket(req[c].block[2]))
    <3>1. ~(load[s].stage \in {"start", "insert"})
      BY <2>1 DEF Loading
    <3> QED BY <2>3, <3>1 DEF Moving
  <2>8. \A r \in Slots : ~Moving(r, Bucket(req[c].block[2]))
    <3> SUFFICES ASSUME NEW r \in Slots, NEW h, h = Bucket(req[c].block[2]), Moving(r, h) PROVE FALSE
      OBVIOUS
    <3>1. PICK d \in Clients :
            /\ pc[d] = "awaiting" /\ load[r].block = req[d].block
            /\ req[d].block \in Blocks /\ Wants(d) = load[r].block /\ h = Bucket(req[d].block[2])
      BY MovesFor
    <3>2. d # c
      BY <1>0, <3>1
    <3>3. Apart
      BY <3>2 DEF Undisturbed, Alone
    <3>4. req[d].block = req[c].block
      BY <2>2, <3>1, <3>3 DEF Apart
    <3>5. Wants(c) = req[c].block
      BY <1>3 DEF Wants
    <3>6. Wants(c) = Wants(d) /\ Wants(c) # NoBlock
      BY <2>2, <3>1, <3>4, <3>5, NoBlockIsNone
    <3> QED BY <3>2, <3>6 DEF IInv, Wanted
  <2>9. Apiece'
    <3>1. ASSUME NEW r \in Slots, load'[r].stage = "insert"
          PROVE  b_hash'[r] = buf_hash'[Bucket(load'[r].block[2])]
      BY <1>0, <2>3, <3>1 DEF HInv, Apiece
    <3>2. \A r, t \in Slots, h \in 0 .. numhash - 1 : Moving(r, h)' /\ Moving(t, h)' => r = t
      BY <2>7, <2>8 DEF HInv, Apiece
    <3> QED BY <2>2, <3>1, <3>2 DEF Apiece
  <2>10. Named' /\ Up'
    BY <1>0, <2>2, NamedSame DEF HInv, Up
  <2> QED BY <2>6, <2>9, <2>10 DEF HInv
<1> QED BY <1>1, <1>2, <1>3

LEMMA InitHInv == Init => HInv
<1> SUFFICES ASSUME Init PROVE HInv
  OBVIOUS
<1>1. /\ server = "loop" /\ \A s \in Slots : load[s].stage = "off" /\ Blockno[s] = 0 /\ Devno[s] = NO_DEV
      /\ b_hash = next
  BY DEF Init, Idle
<1>2. PICK k \in Nat : k = numslots /\ k > 1
  BY SlotsAssumption
<1>3. Bucket(0) = 0
  BY SlotsAssumption DEF Bucket
<1>4. /\ On(0) = Slots /\ \A h : h # 0 => On(h) = {}
  BY <1>1, <1>3 DEF On, InTable, Given
<1>5. ASSUME NEW h \in 0 .. numhash - 1
      PROVE  \E q \in Seq(Slots) : Along(b_hash, buf_hash[h], q) /\ Members(q) = On(h)
  <2>1. CASE h = 0
    <3> DEFINE q == [i \in 1 .. k |-> i - 1]
    <3>1. q \in Seq(Slots) /\ Len(q) = k
      BY <1>2 DEF Slots
    <3>2. \A i \in 1 .. k : q[i] = i - 1
      OBVIOUS
    <3> HIDE DEF q
    <3>3. \A i \in 1 .. k : b_hash[q[i]] = IF i = k THEN nil ELSE q[i + 1]
      <4> TAKE i \in 1 .. k
      <4>1. i - 1 \in Slots
        BY <1>2 DEF Slots
      <4>2. b_hash[i - 1] = IF i - 1 = numslots - 1 THEN nil ELSE i - 1 + 1
        BY <1>1, <4>1 DEF Init
      <4> QED BY <1>2, <3>2, <4>2
    <3>4. buf_hash[h] = q[1]
      BY <1>2, <2>1, <3>2 DEF Init
    <3>5. Along(b_hash, buf_hash[h], q)
      BY <1>2, <3>1, <3>2, <3>3, <3>4 DEF Along
    <3>6. Members(q) = Slots
      <4>1. \A s \in Slots : s + 1 \in 1 .. k /\ q[s + 1] = s
        BY <1>2, <3>2 DEF Slots
      <4>2. \A s \in Slots : s \in Members(q)
        BY <3>1, <4>1, MembersAre
      <4> QED BY <3>1, <4>2, MembersAre
    <3> QED BY <1>4, <2>1, <3>1, <3>5, <3>6
  <2>2. CASE h # 0
    <3>1. <<>> \in Seq(Slots) /\ Len(<<>>) = 0
      OBVIOUS
    <3>2. buf_hash[h] = nil
      BY <2>2 DEF Init
    <3>3. Along(b_hash, buf_hash[h], <<>>)
      BY <3>1, <3>2 DEF Along
    <3>4. Members(<<>>) = {}
      BY <3>1 DEF Members
    <3> QED BY <1>4, <2>2, <3>1, <3>3, <3>4
  <2> QED BY <2>1, <2>2
<1>6. Table
  BY <1>5 DEF Table
<1>7. Apiece
  BY <1>1 DEF Apiece, Moving
<1>8. Named
  BY <1>1 DEF Named, IdentityOf, NoBlock
<1> QED BY <1>1, <1>6, <1>7, <1>8 DEF HInv, Up

LEMMA NextHInv == ASSUME Undisturbed, IInv, HInv, [Next]_vars PROVE HInv'
<1>1. CASE UNCHANGED vars
  BY <1>1, StutterKeeps
<1>2. CASE Work
  <2>1. ~Hit
    BY DEF Hit, IInv, Serving
  <2> QED BY <1>2, <2>1, UnhashKeeps, KeepCallbackKeeps DEF Work
<1>3. ASSUME NEW s \in Slots, Goroutine(s) PROVE HInv'
  BY <1>3, LoadBlockKeeps, RehashKeeps, ReadKeeps, WakeKeeps DEF Goroutine
<1>4. ASSUME NEW c \in Clients, NEW r \in Requests, Call(c, r) PROVE HInv'
  BY <1>4, CallKeeps
<1>5. ASSUME NEW c \in Clients, NEW v \in Values, Modify(c, v) PROVE HInv'
  BY <1>5, ModifyKeeps
<1>6. ASSUME NEW c \in Clients, Serve(c) PROVE HInv'
  BY <1>6, ServeKeeps
<1>7. ASSUME NEW c \in Clients, Reply(c) PROVE HInv'
  BY <1>7, ReplyKeeps
<1> QED BY <1>1, <1>2, <1>3, <1>4, <1>5, <1>6, <1>7 DEF Next

\* Undisturbed, the hash chains hold the buffers that are not being moved.
THEOREM TableInvariant == Undisturbed => (Spec => []HInv)
<1> SUFFICES ASSUME Undisturbed PROVE Spec => []HInv
  OBVIOUS
<1>1. Spec => []IInv
  BY Invariant DEF Undisturbed
<1>2. IInv /\ HInv /\ [Next]_vars => HInv'
  BY NextHInv
<1> QED BY <1>1, <1>2, InitHInv, PTL DEF Spec

\* GetBlock panics only if all buffers are in use, and nothing else takes the
\* server down.
THEOREM StaysUp == Undisturbed => (Spec => []FailsOnlyIfAllInUse)
<1>1. HInv => FailsOnlyIfAllInUse
  BY DEF HInv, Up, FailsOnlyIfAllInUse
<1> QED BY <1>1, TableInvariant, PTL

\* A search of the hash chains finds every block of the cache in its buffer.
THEOREM FindsCached == Undisturbed => (Spec => []CachedIsFound)
<1>1. IInv /\ HInv => CachedIsFound
  <2> SUFFICES ASSUME IInv, HInv, NEW s \in Slots,
                      (IdentityOf(s) \in Blocks /\ ~Taken(s)) \/ load[s].stage \in {"read", "wake"}
               PROVE  Search(IdentityOf(s)) = s
    BY DEF CachedIsFound
  <2>1. IdentityOf(s) \in Blocks
    <3>1. CASE load[s].stage \in {"read", "wake"}
      <4>1. Begun(s) /\ Loading(s)
        BY <3>1 DEF Begun, Loading
      <4> QED BY <4>1, LoadedFor DEF IInv, Fresh
    <3> QED BY <3>1
  <2>2. InTable(s)
    <3>1. CASE ~Taken(s)
      BY <3>1 DEF InTable, Taken, Loading, Given, IInv, Responding
    <3>2. CASE load[s].stage \in {"read", "wake"}
      <4>1. Loading(s)
        BY <3>2 DEF Loading
      <4>2. ~Given(s) /\ (server = "lock" => bp # s)
        BY <4>1 DEF IInv, Awaited, Given, Responding
      <4> QED BY <3>2, <4>2 DEF InTable
    <3> QED BY <3>1, <3>2
  <2>3. PICK h : h = Bucket(Blockno[s])
    OBVIOUS
  <2>4. PICK q \in Seq(Slots) : Along(b_hash, buf_hash[h], q) /\ \E i \in 1 .. Len(q) : q[i] = s
    BY <2>2, <2>3, ChainAt, Typed DEF HInv
  <2>5. PICK j \in 1 .. Len(q) : q[j] = s
    BY <2>4
  <2> DEFINE S == {r \in Slots : IdentityOf(r) = IdentityOf(s)}
  <2>6. nil \notin S /\ s \in S /\ \A r \in S : r = s
    BY <2>1, NilIsNoSlot DEF IInv, Fresh
  <2>7. \A i \in 1 .. Len(q) : q[i] \in S => i = j
    BY <2>4, <2>5, <2>6 DEF Along
  <2> HIDE DEF S
  <2>8. First(buf_hash[h], S) = s
    BY <2>4, <2>5, <2>6, <2>7, FirstOfChain
  <2>9. Bucket(IdentityOf(s)[2]) = h
    BY <2>3 DEF IdentityOf
  <2> QED BY <2>8, <2>9 DEF Search, S
<1> QED BY <1>1, Invariant, TableInvariant, PTL DEF Undisturbed
-----------------------------------------------------------------------------
(* The refinement of the pool *)

\* The links hold the free buffers in one order only.
Follows(links, p, n, q) ==
  /\ n # 0 => p = q[1]
  /\ \A i \in 1 .. n : links[q[i]] = IF i = n THEN nil ELSE q[i + 1]

LEMMA OneOrder ==
  ASSUME NEW n \in Nat, NEW q \in [1 .. n -> Slots], NEW r \in [1 .. n -> Slots], NEW p, NEW links,
         Follows(links, p, n, q), Follows(links, p, n, r)
  PROVE  q = r
<1>0. /\ n # 0 => q[1] = r[1]
      /\ \A i \in 1 .. n : links[q[i]] = IF i = n THEN nil ELSE q[i + 1]
      /\ \A i \in 1 .. n : links[r[i]] = IF i = n THEN nil ELSE r[i + 1]
  BY DEF Follows
<1> DEFINE S == {i \in 1 .. n : q[i] # r[i]}
<1>1. ASSUME S # {} PROVE FALSE
  <2>1. S \in SUBSET Nat
    OBVIOUS
  <2>2. PICK x \in S : \A y \in S : ~(y < x)
    BY <1>1, <2>1, Least
  <2>3. x \in 1 .. n /\ q[x] # r[x]
    OBVIOUS
  <2>4. x # 1
    BY <1>0, <2>3
  <2>5. x - 1 \in 1 .. n /\ x - 1 < x /\ x - 1 # n /\ x - 1 + 1 = x
    BY <2>3, <2>4
  <2>6. q[x - 1] = r[x - 1]
    BY <2>2, <2>5
  <2> QED BY <1>0, <2>3, <2>5, <2>6
<1>2. \A i \in 1 .. n : q[i] = r[i]
  BY <1>1
<1> HIDE DEF S
<1> QED BY <1>2

LEMMA LineIsOrder ==
  ASSUME NEW q \in Seq(Slots), NEW F, F = {s \in Slots : ~InUse(s)}, Line(q)
  PROVE  q \in Orders(F) /\ Linked(q) /\ Cardinality(F) = Len(q)
<1>1. PICK n \in Nat : n = Len(q)
  OBVIOUS
<1>2. /\ \A i, j \in 1 .. n : q[i] = q[j] => i = j
      /\ \A i \in 1 .. n : q[i] \in F
      /\ \A s \in F : \E i \in 1 .. n : q[i] = s
      /\ Linked(q)
  BY <1>1, LineFacts
<1>3. q \in [1 .. n -> F]
  BY <1>1, <1>2
<1>4. q \in Bijection(1 .. n, F)
  BY <1>2, <1>3 DEF Bijection, Injection, Surjection, IsInjective
<1>5. IsFiniteSet(1 .. n) /\ Cardinality(1 .. n) = n
  <2>1. IsFiniteSet(1 .. n) /\ Cardinality(1 .. n) = IF 1 > n THEN 0 ELSE n - 1 + 1
    BY FS_Interval
  <2> QED BY <2>1
<1>6. Cardinality(F) = n
  BY <1>4, <1>5, FS_Bijection DEF ExistsBijection
<1>7. DOMAIN q = 1 .. n
  BY <1>1
<1> QED BY <1>1, <1>2, <1>3, <1>6, <1>7 DEF Orders

LEMMA OrderIs == \A q \in Seq(Slots) : Line(q) => Order = q
<1> SUFFICES ASSUME NEW q \in Seq(Slots), Line(q) PROVE Order = q
  OBVIOUS
<1> DEFINE F == {s \in Slots : ~InUse(s)}
<1>1. PICK n \in Nat : n = Len(q)
  OBVIOUS
<1>2. q \in Orders(F) /\ Linked(q) /\ Cardinality(F) = n
  BY <1>1, LineIsOrder
<1> HIDE DEF F
<1>3. FreeOrders = {r \in Orders(F) : Linked(r)}
  BY DEF FreeOrders, F
<1>4. q \in FreeOrders
  BY <1>2, <1>3
<1>5. Order \in FreeOrders
  BY <1>4 DEF Order
<1>6. ASSUME NEW r \in FreeOrders PROVE r = q
  <2>1. r \in [1 .. n -> F] /\ Linked(r) /\ F \subseteq Slots
    BY <1>2, <1>3 DEF Orders, F
  <2>2. r \in Seq(Slots) /\ Len(r) = n
    BY <2>1
  <2>3. LinkedBy(q, n) /\ LinkedBy(r, n)
    BY <1>1, <1>2, <2>1, <2>2, LinkedIs
  <2>4. q \in [1 .. n -> Slots] /\ r \in [1 .. n -> Slots]
    BY <1>1, <2>1
  <2>5. Follows(next, front, n, q) /\ Follows(next, front, n, r)
    BY <2>3 DEF LinkedBy, Follows
  <2> QED BY <2>4, <2>5, OneOrder
<1> QED BY <1>5, <1>6

LEMMA OrderIsNext == (\A q \in Seq(Slots) : Line(q) => Order = q)'
BY OrderIs, PTL

\* A step that changes nothing of the pool.
LEMMA OrderSame ==
  ASSUME UNCHANGED lru, \A s \in Slots : InUse(s)' <=> InUse(s)
  PROVE  Order' = Order
<1>1. FreeOrders' = FreeOrders
  <2>1. {s \in Slots : ~InUse(s)'} = {s \in Slots : ~InUse(s)}
    OBVIOUS
  <2>2. \A q : Linked(q)' <=> Linked(q)
    BY DEF Linked, lru
  <2>3. FreeOrders' = {q \in Orders({s \in Slots : ~InUse(s)'}) : Linked(q)'}
    BY DEF FreeOrders, Orders
  <2> QED BY <2>1, <2>2, <2>3 DEF FreeOrders
<1> QED BY <1>1 DEF Order

LEMMA ContentSame ==
  ASSUME NEW s \in Slots, UNCHANGED <<Devno, Blockno>>, Loading(s)' <=> Loading(s), Taken(s)' <=> Taken(s),
         load'[s].block = load[s].block,
         Taken(s) /\ ~Loading(s) => req'[cur'].block = req[cur].block
  PROVE  ContentOf(s)' = ContentOf(s)
<1>1. IdentityOf(s)' = IdentityOf(s)
  BY DEF IdentityOf
<1> QED BY <1>1 DEF ContentOf

\* The steps of the server and of its clients, as steps of the pool.
Pool == [A!Next]_A!vars

LEMMA SamePool ==
  ASSUME UNCHANGED lru, \A s \in Slots : InUse(s)' <=> InUse(s),
         \A s \in Slots : ContentOf(s)' = ContentOf(s)
  PROVE  Pool
<1>1. Order' = Order
  BY OrderSame
<1>2. Content' = Content
  BY DEF Content
<1> QED BY <1>1, <1>2 DEF Pool, A!vars

LEMMA GetPool ==
  ASSUME IInv, NEW c \in Clients, GetBlock(c)
  PROVE  Pool
<1>0. /\ Receive(c, "get") /\ UNCHANGED <<Devno, Blockno>> /\ req[c].op = "get" /\ pc[c] = "sending"
      /\ server = "loop" /\ cur' = c /\ UNCHANGED <<req, load>>
      /\ TypeOK /\ req[c].block \in Blocks
  BY Got, Received, Typed DEF bufs, IInv, Calling
<1>1. \A s \in Slots : (Loading(s)' <=> Loading(s)) /\ (Taken(s) <=> Loading(s))
  BY <1>0 DEF Loading, Taken
<1>2. CASE GotHung \/ GotNone(c)
  <2>1. UNCHANGED lru /\ \A s \in Slots : InUse(s)' <=> InUse(s)
    BY <1>2, GetNone, GetHung DEF GotHung, GotNone
  <2>2. \A s \in Slots : Taken(s)' <=> Taken(s)
    BY <1>0, <1>1, <1>2 DEF Taken, GotHung, GotNone, Respond
  <2>3. \A s \in Slots : ContentOf(s)' = ContentOf(s)
    BY <1>0, <1>1, <2>2, ContentSame
  <2> QED BY <2>1, <2>3, SamePool
<1>3. CASE GotOldest
  <2>1. PICK s \in Slots : s = front /\ rm_lru(s)
    BY <1>3 DEF GotOldest
  <2>2. /\ ~InUse(s) /\ \A r \in Slots : InUse(r)' <=> InUse(r) \/ r = s
        /\ \A r \in Slots : Taken(r)' <=> Taken(r) \/ r = s
    BY <1>3, <2>1, GetOldest
  <2>3. PICK q \in Seq(Slots) : Line(q)
    BY <1>0 DEF IInv, Chained
  <2>4. Tail(q) \in Seq(Slots) /\ Line(Tail(q))' /\ Len(q) > 0 /\ s = q[1]
    BY <1>0, <2>1, <2>2, <2>3, NilIsNoSlot, LineTaken
  <2>5. Order = q /\ Order' = Tail(q)
    BY <2>3, <2>4, OrderIs, OrderIsNext
  <2>6. ~Taken(s) /\ ~Loading(s)
    BY <1>1, <2>2 DEF InUse
  <2>7. ContentOf(s)' = req[c].block
    BY <1>0, <1>1, <2>2, <2>6 DEF ContentOf
  <2>8. \A r \in Slots : r # s => ContentOf(r)' = ContentOf(r)
    BY <1>0, <1>1, <2>2, ContentSame
  <2>9. \A r \in Slots : ContentOf(r) # req[c].block
    <3> TAKE r \in Slots
    <3>1. CASE Loading(r)
      <4>1. PICK d \in Clients : load[r].block = Wants(d) /\ pc[d] = "awaiting"
        BY <3>1, LoadedFor
      <4>2. Wants(c) = req[c].block /\ d # c
        BY <1>0, <4>1 DEF Wants
      <4>3. Wants(c) # NoBlock
        BY <1>0, <4>2, NoBlockIsNone
      <4>4. Wants(d) # Wants(c)
        BY <4>2, <4>3 DEF IInv, Wanted
      <4> QED BY <3>1, <4>1, <4>2, <4>4 DEF ContentOf
    <3>2. CASE ~Loading(r)
      <4>1. IdentityOf(r) # req[c].block
        BY <1>0, NotFound
      <4> QED BY <1>0, <1>1, <3>2, <4>1, NoBlockIsNone DEF ContentOf
    <3> QED BY <3>1, <3>2
  <2>10. Content' = [Content EXCEPT ![s] = req[c].block]
    BY <2>7, <2>8 DEF Content
  <2>11. q # <<>> /\ Head(q) = s
    BY <2>4
  <2>12. \A r \in Slots : Content[r] # req[c].block
    BY <2>9 DEF Content
  <2>13. PICK b \in Blocks : b = req[c].block
    BY <1>0
  <2>14. A!Take(b)
    BY <2>5, <2>10, <2>11, <2>12, <2>13 DEF A!Take
  <2> QED BY <2>14 DEF Pool, A!Next
<1> QED BY <1>2, <1>3, Got

LEMMA PutPool ==
  ASSUME IInv, NEW c \in Clients, PutBlock(c)
  PROVE  Pool
<1>0. /\ UNCHANGED <<Devno, Blockno, load>> /\ server = "loop" /\ TypeOK
      /\ \A r \in Slots : Taken(r)' <=> Taken(r)
  BY PutBlockStep, Typed DEF PutBlock, Receive, Ready
<1>1. PICK s \in Slots :
        /\ InUse(s) /\ ~InUse(s)' /\ \A r \in Slots : r # s => (InUse(r)' <=> InUse(r))
        /\ PutFront(s) \/ PutRear(s)
  BY PutBlockStep
<1>2. PICK q \in Seq(Slots) : Line(q)
  BY <1>0 DEF IInv, Chained
<1>3. PICK p \in Seq(Slots) : Line(p)' /\ p \in {Append(q, s), <<s>> \o q}
  BY <1>0, <1>1, <1>2, LineAdded
<1>4. Order = q /\ Order' = p
  BY <1>2, <1>3, OrderIs, OrderIsNext
<1>5. \A r \in Slots : ContentOf(r)' = ContentOf(r)
  <2>1. \A r \in Slots : (Loading(r)' <=> Loading(r)) /\ (Taken(r) <=> Loading(r))
    BY <1>0 DEF Taken, Loading
  <2> QED BY <1>0, <2>1, ContentSame
<1>6. \A i \in DOMAIN q : q[i] # s
  BY <1>1, <1>2, LineFacts
<1>7. Content' = Content
  BY <1>5 DEF Content
<1>8. A!Give(s)
  BY <1>3, <1>4, <1>6, <1>7 DEF A!Give
<1> QED BY <1>8 DEF Pool, A!Next

\* An answer to another call changes nothing of the pool.
LEMMA AnswerPool ==
  ASSUME IInv, NEW c \in Clients, NEW op, Receive(c, op), op # "put",
         NEW kind, Respond(kind, nil, TRUE), UNCHANGED lru
  PROVE  /\ \A s \in Slots : InUse(s)' <=> InUse(s)
         /\ \A s \in Slots : (Loading(s)' <=> Loading(s)) /\ (Taken(s)' <=> Loading(s)) /\ (Taken(s) <=> Loading(s))
         /\ UNCHANGED load
         /\ UNCHANGED <<Devno, Blockno>> => Pool
<1>1. /\ server = "loop" /\ server' = "reply" /\ res'.ready /\ res'.slot = nil /\ UNCHANGED load
      /\ \A d \in Clients, s \in Slots : Has(d, s)' <=> Has(d, s)
      /\ \A s \in Slots : InUse(s) <=> Loading(s) \/ \E d \in Clients : Has(d, s)
  BY Received DEF Respond
<1>2. \A s \in Slots : (Loading(s)' <=> Loading(s)) /\ (Taken(s)' <=> Loading(s)) /\ (Taken(s) <=> Loading(s))
  BY <1>1 DEF Loading, Taken
<1>3. \A s \in Slots : InUse(s)' <=> InUse(s)
  <2> TAKE s \in Slots
  <2>1. InUse(s)' <=> Taken(s)' \/ \E d \in Clients : Has(d, s)'
    BY <1>1, NilIsNoSlot DEF InUse
  <2> QED BY <1>1, <1>2, <2>1
<1>4. ASSUME UNCHANGED <<Devno, Blockno>> PROVE Pool
  <2>1. \A s \in Slots : ContentOf(s)' = ContentOf(s)
    BY <1>1, <1>2, <1>4, ContentSame
  <2> QED BY <1>3, <2>1, SamePool
<1> QED BY <1>1, <1>2, <1>3, <1>4

LEMMA InvalidatePool ==
  ASSUME IInv, NEW c \in Clients, Invalidate(c)
  PROVE  Pool
<1>0. /\ Receive(c, "invalidate") /\ Respond("empty", nil, TRUE) /\ UNCHANGED <<lru, Blockno>>
      /\ req[c].op = "invalidate"
      /\ Devno' = [s \in Slots |-> IF Devno[s] = req[c].block[1] THEN NO_DEV ELSE Devno[s]]
  BY DEF Invalidate, Answer, Receive
<1>1. PICK d : d = req[c].block[1]
  OBVIOUS
<1>2. /\ \A s \in Slots : InUse(s)' <=> InUse(s)
      /\ \A s \in Slots : (Loading(s)' <=> Loading(s)) /\ (Taken(s)' <=> Loading(s)) /\ (Taken(s) <=> Loading(s))
      /\ UNCHANGED load
  BY <1>0, AnswerPool
<1>3. Order' = Order
  BY <1>0, <1>2, OrderSame
<1> DEFINE bs == {b \in Blocks : b[1] = d}
<1>4. ASSUME NEW s \in Slots
      PROVE  ContentOf(s)' = IF ContentOf(s) \in bs THEN NoBlock ELSE ContentOf(s)
  <2>1. CASE Loading(s)
    <3>1. PICK e \in Clients : load[s].block = Wants(e)
      BY <2>1, LoadedFor
    <3>2. load[s].block[1] # d
      BY <1>0, <1>1, <3>1 DEF IInv, Wanted, Quiet
    <3>3. ContentOf(s)' = load[s].block /\ ContentOf(s) = load[s].block
      BY <1>2, <2>1 DEF ContentOf
    <3> QED BY <3>2, <3>3
  <2>2. CASE ~Loading(s)
    <3>1. /\ ContentOf(s)' = IF IdentityOf(s)' \in Blocks THEN IdentityOf(s)' ELSE NoBlock
          /\ ContentOf(s) = IF IdentityOf(s) \in Blocks THEN IdentityOf(s) ELSE NoBlock
      BY <1>2, <2>2 DEF ContentOf
    <3>2. IdentityOf(s)' = IF Devno[s] = d THEN <<NO_DEV, Blockno[s]>> ELSE IdentityOf(s)
      BY <1>0, <1>1 DEF IdentityOf
    <3>3. <<NO_DEV, Blockno[s]>> \notin Blocks /\ NoBlock \notin Blocks
      BY NoBlockIsNone
    <3>4. IdentityOf(s)[1] = Devno[s]
      BY DEF IdentityOf
    <3> QED BY <3>1, <3>2, <3>3, <3>4
  <2> QED BY <2>1, <2>2
<1> HIDE DEF bs
<1>5. Content' = [s \in Slots |-> IF Content[s] \in bs THEN NoBlock ELSE Content[s]]
  BY <1>4 DEF Content
<1>6. bs \in SUBSET Blocks
  BY DEF bs
<1>7. A!Forget(bs)
  BY <1>3, <1>5 DEF A!Forget
<1> QED BY <1>6, <1>7 DEF Pool, A!Next

LEMMA ServePool ==
  ASSUME IInv, NEW c \in Clients, Serve(c)
  PROVE  Pool
<1>1. CASE GetBlock(c)
  BY <1>1, GetPool
<1>2. CASE PutBlock(c)
  BY <1>2, PutPool
<1>3. CASE MountDevice(c)
  <2>1. Receive(c, "mount") /\ Respond("err", nil, TRUE) /\ UNCHANGED <<lru, Devno, Blockno>>
    BY <1>3 DEF MountDevice, bufs
  <2> QED BY <2>1, AnswerPool
<1>4. CASE UnmountDevice(c)
  <2>1. Receive(c, "unmount") /\ Respond("err", nil, TRUE) /\ UNCHANGED <<lru, Devno, Blockno>>
    BY <1>4 DEF UnmountDevice, bufs
  <2> QED BY <2>1, AnswerPool
<1>5. CASE Invalidate(c)
  BY <1>5, InvalidatePool
<1>6. CASE Flush(c)
  <2>1. Receive(c, "flush") /\ Respond("empty", nil, TRUE) /\ UNCHANGED <<lru, Devno, Blockno>>
    BY <1>6 DEF Flush, Answer, bufs
  <2> QED BY <2>1, AnswerPool
<1>7. CASE CloseRequest(c)
  <2>1. Receive(c, "close") /\ Respond("err", nil, TRUE) /\ UNCHANGED <<lru, Devno, Blockno>>
    BY <1>7 DEF CloseRequest, bufs
  <2> QED BY <2>1, AnswerPool
<1> QED BY <1>1, <1>2, <1>3, <1>4, <1>5, <1>6, <1>7 DEF Serve

LEMMA ReplyPool ==
  ASSUME IInv, NEW c \in Clients, Reply(c)
  PROVE  Pool
<1>0. /\ c = cur /\ server = "reply" /\ pc[c] = "receiving" /\ res' = NoResponse
      /\ UNCHANGED <<Devno, Blockno, cur>> /\ UNCHANGED lru
  BY Replies DEF Reply, bufs
<1>1. CASE req[c].op # "get" \/ res.ready
  <2>1. \A s \in Slots : InUse(s)' <=> InUse(s)
    BY <1>1, ReplyEnds, ReplyPanics
  <2>2. UNCHANGED load /\ server' # "unhash" /\ server' # "lock" /\ server' # "reply"
    BY <1>1, ReplyCases
  <2>3. res.ready
    BY <1>1, Replies
  <2>4. \A s \in Slots : (Loading(s)' <=> Loading(s)) /\ (Taken(s)' <=> Taken(s)) /\ (Taken(s) => Loading(s))
    BY <1>0, <2>2, <2>3 DEF Taken, Loading
  <2>5. \A s \in Slots : ContentOf(s)' = ContentOf(s)
    BY <1>0, <2>2, <2>4, ContentSame
  <2> QED BY <1>0, <2>1, <2>5, SamePool
<1>2. CASE req[c].op = "get" /\ ~res.ready
  <2>1. PICK s \in Slots : s = bp /\ res.slot = s /\ ~Loading(s) /\ res.kind = "async"
    BY <1>2, Replies
  <2>2. /\ \A r \in Slots : InUse(r)' <=> InUse(r)
        /\ \A r \in Slots : Taken(r)' <=> Taken(r)
    BY <1>2, ReplyLoads
  <2>3. load' = [load EXCEPT ![s] = [stage |-> "start", block |-> req[c].block, mode |-> req[c].arg]]
    BY <1>2, <2>1, ReplyCases
  <2>4. /\ load'[s].stage = "start" /\ load'[s].block = req[c].block
        /\ \A r \in Slots : r # s => load'[r] = load[r]
    <3>1. load \in [Slots -> Loads]
      BY Typed, LoadTypes
    <3>2. load'[s] = [stage |-> "start", block |-> req[c].block, mode |-> req[c].arg]
      BY <2>3, <3>1
    <3> QED BY <2>3, <3>1, <3>2
  <2>5. ContentOf(s)' = ContentOf(s)
    <3>1. Taken(s)
      BY <1>0, <1>2, <2>1 DEF Taken
    <3> QED BY <1>0, <2>1, <2>4, <3>1 DEF ContentOf, Loading
  <2>6. ASSUME NEW r \in Slots, r # s PROVE ContentOf(r)' = ContentOf(r)
    <3>1. Loading(r)' <=> Loading(r)
      BY <2>4, <2>6 DEF Loading
    <3>2. Taken(r) => Loading(r)
      BY <1>0, <2>1, <2>6 DEF Taken
    <3> QED BY <1>0, <2>2, <2>4, <2>6, <3>1, <3>2, ContentSame
  <2> QED BY <1>0, <2>2, <2>5, <2>6, SamePool
<1> QED BY <1>1, <1>2

LEMMA WorkPool ==
  ASSUME IInv, HInv, Unhash \/ KeepCallback
  PROVE  Pool
<1>0. UNCHANGED <<Devno, Blockno, cur, req, load>> /\ UNCHANGED lru
  BY DEF Unhash, KeepCallback, bufs, clientVars
<1>1. /\ \A s \in Slots : Taken(s)' <=> Taken(s)
      /\ \A s \in Slots : InUse(s)' <=> InUse(s)
  <2>1. CASE KeepCallback
    BY <2>1, KeepCallbackStep
  <2>2. CASE Unhash
    <3>1. server = "unhash" /\ server' = "lock" /\ UNCHANGED <<bp, res, load, pc, req, holds>>
      BY <2>2, UnhashKeeps DEF Unhash, clientVars
    <3>2. \A c, s : Has(c, s)' <=> Has(c, s)
      BY <3>1, HoldersSame
    <3>3. \A s : Taken(s)' <=> Taken(s)
      BY <3>1 DEF Taken, Loading
    <3> QED BY <3>1, <3>2, <3>3 DEF InUse
  <2> QED BY <2>1, <2>2
<1>2. \A s \in Slots : Loading(s)' <=> Loading(s)
  BY <1>0 DEF Loading
<1>3. \A s \in Slots : ContentOf(s)' = ContentOf(s)
  BY <1>0, <1>1, <1>2, ContentSame
<1> QED BY <1>0, <1>1, <1>3, SamePool

LEMMA CallPool ==
  ASSUME NobodyAsks, IInv, NEW c \in Clients, NEW r \in Requests, Call(c, r)
  PROVE  Pool
<1>0. /\ UNCHANGED <<Devno, Blockno, cur, load, server, bp, res>> /\ UNCHANGED lru
      /\ pc[c] = "idle" /\ req' = [req EXCEPT ![c] = r] /\ cur \in Clients /\ TypeOK
  BY Typed DEF Call, bufs, serverVars, TypeOK
<1>1. \A s \in Slots : InUse(s)' <=> InUse(s)
  BY CallStep
<1>2. \A s \in Slots : (Loading(s)' <=> Loading(s)) /\ (Taken(s)' <=> Taken(s))
  BY <1>0 DEF Loading, Taken
<1>3. server \in {"unhash", "lock", "reply"} => req'[cur] = req[cur]
  <2>1. server \in {"unhash", "lock", "reply"} => cur # c
    BY <1>0 DEF IInv, Serving
  <2> QED BY <1>0, <2>1 DEF TypeOK
<1>4. \A s \in Slots : Taken(s) /\ ~Loading(s) => req'[cur'].block = req[cur].block
  BY <1>0, <1>3 DEF Taken
<1>5. \A s \in Slots : ContentOf(s)' = ContentOf(s)
  BY <1>0, <1>2, <1>4, ContentSame
<1> QED BY <1>0, <1>1, <1>5, SamePool

LEMMA SleepPool ==
  ASSUME UNCHANGED <<Devno, Blockno, cur, req, load, server, bp, res, pc, holds>>, UNCHANGED lru
  PROVE  Pool
<1>1. \A s \in Slots : (Loading(s)' <=> Loading(s)) /\ (Taken(s)' <=> Taken(s))
  BY DEF Loading, Taken
<1>2. \A s \in Slots : InUse(s)' <=> InUse(s)
  BY <1>1 DEF InUse, Has
<1>3. \A s \in Slots : ContentOf(s)' = ContentOf(s)
  BY <1>1, ContentSame
<1> QED BY <1>2, <1>3, SamePool

\* A load that goes on leaves the block of its buffer.
LEMMA LoadPool ==
  ASSUME IInv, NEW s \in Slots, LoadBlock(s) \/ Rehash(s) \/ Read(s)
  PROVE  Pool
<1>0. PICK to \in {"insert", "read", "wake"} :
        /\ load' = [load EXCEPT ![s].stage = to] /\ Loading(s) /\ server # "panicked"
        /\ UNCHANGED <<lru, waiting, serverVars, clientVars>>
        /\ \A r \in Slots : r # s => Devno'[r] = Devno[r] /\ Blockno'[r] = Blockno[r]
  BY Typed DEF LoadBlock, Rehash, Read, Step, Loading, bufs, TypeOK
<1>1. /\ \A r \in Slots : InUse(r)' <=> InUse(r)
      /\ \A r \in Slots : Taken(r)' <=> Taken(r)
      /\ load'[s].stage = to
      /\ \A r \in Slots : load'[r].block = load[r].block
      /\ \A r \in Slots : r # s => load'[r] = load[r]
  BY <1>0, LoadGoesOn
<1>2. \A r \in Slots : Loading(r)' <=> Loading(r)
  BY <1>0, <1>1 DEF Loading
<1>3. ASSUME NEW r \in Slots PROVE ContentOf(r)' = ContentOf(r)
  <2>1. CASE r = s
    BY <1>0, <1>1, <1>2, <2>1 DEF ContentOf
  <2>2. CASE r # s
    <3>1. IdentityOf(r)' = IdentityOf(r)
      BY <1>0, <2>2 DEF IdentityOf
    <3> QED BY <1>0, <1>1, <1>2, <3>1 DEF ContentOf, serverVars, clientVars
  <2> QED BY <2>1, <2>2
<1> QED BY <1>0, <1>1, <1>3, SamePool

LEMMA WakePool ==
  ASSUME IInv, NEW s \in Slots, NEW c \in Clients, Wake(s, c)
  PROVE  Pool
<1>0. /\ Loading(s) /\ load' = [load EXCEPT ![s] = Idle] /\ load[s].stage = "wake"
      /\ req[c].block = load[s].block /\ req[c].block \in Blocks
      /\ req' = [req EXCEPT ![c] = NoRequest] /\ pc[c] = "awaiting"
      /\ UNCHANGED <<Devno, Blockno, cur, server, bp, res>> /\ UNCHANGED lru /\ TypeOK
  BY Wakes, Typed DEF Wake, bufs, serverVars
<1>1. \A r \in Slots : InUse(r)' <=> InUse(r)
  BY WakeStep
<1>2. load'[s].stage = "off" /\ \A r \in Slots : r # s => load'[r] = load[r]
  BY <1>0 DEF TypeOK, Idle
<1>3. IdentityOf(s)' = load[s].block
  <2>1. Begun(s)
    BY <1>0 DEF Begun
  <2>2. IdentityOf(s) = load[s].block
    BY <2>1 DEF IInv, Fresh
  <2> QED BY <1>0, <2>2 DEF IdentityOf
<1>4. ~Loading(s)' /\ ~Taken(s)'
  <2>1. ~Loading(s)'
    BY <1>2 DEF Loading
  <2>2. server \in {"unhash", "lock"} => bp # s
    BY <1>0 DEF IInv, Awaited
  <2>3. server = "reply" /\ ~res.ready => res.slot # s
    BY <1>0 DEF IInv, Awaited, Responding
  <2> QED BY <1>0, <2>1, <2>2, <2>3 DEF Taken
<1>5. ContentOf(s)' = load[s].block /\ ContentOf(s) = load[s].block
  BY <1>0, <1>3, <1>4 DEF ContentOf
<1>6. server \in {"unhash", "lock", "reply"} => req'[cur] = req[cur]
  <2>1. server \in {"unhash", "lock", "reply"} => cur # c
    BY <1>0 DEF IInv, Serving
  <2> QED BY <1>0, <2>1 DEF TypeOK
<1>7. ASSUME NEW r \in Slots, r # s PROVE ContentOf(r)' = ContentOf(r)
  <2>1. (Loading(r)' <=> Loading(r)) /\ (Taken(r)' <=> Taken(r))
    BY <1>0, <1>2, <1>7 DEF Loading, Taken
  <2>2. Taken(r) /\ ~Loading(r) => req'[cur'].block = req[cur].block
    BY <1>0, <1>6 DEF Taken
  <2> QED BY <1>0, <1>2, <1>7, <2>1, <2>2, ContentSame
<1> QED BY <1>0, <1>1, <1>5, <1>7, SamePool

LEMMA NextPool == ASSUME Undisturbed, IInv, HInv, [Next]_vars PROVE Pool
<1>1. CASE UNCHANGED vars
  BY <1>1, SleepPool DEF vars, bufs, serverVars, clientVars
<1>2. CASE Work
  <2>1. ~Hit
    BY DEF Hit, IInv, Serving
  <2> QED BY <1>2, <2>1, WorkPool DEF Work
<1>3. ASSUME NEW s \in Slots, Goroutine(s) PROVE Pool
  BY <1>3, LoadPool, WakePool DEF Goroutine
<1>4. ASSUME NEW c \in Clients, NEW r \in Requests, Call(c, r) PROVE Pool
  BY <1>4, CallPool DEF Undisturbed
<1>5. ASSUME NEW c \in Clients, NEW v \in Values, Modify(c, v) PROVE Pool
  BY <1>5, SleepPool DEF Modify, serverVars, clientVars
<1>6. ASSUME NEW c \in Clients, Serve(c) PROVE Pool
  BY <1>6, ServePool
<1>7. ASSUME NEW c \in Clients, Reply(c) PROVE Pool
  BY <1>7, ReplyPool
<1> QED BY <1>1, <1>2, <1>3, <1>4, <1>5, <1>6, <1>7 DEF Next

LEMMA InitPool == ASSUME Init PROVE A!Init
<1>1. /\ \A c \in Clients : req[c] = NoRequest /\ pc[c] = "idle" /\ holds[c] = Nothing
      /\ \A s \in Slots : load[s].stage = "off" /\ IdentityOf(s) = NoBlock
      /\ server = "loop" /\ NoRequest.slot = nil /\ Nothing.slot = nil
  BY DEF Init, Idle, NoRequest, Request, Nothing, IdentityOf, NoBlock
<1>2. \A s \in Slots : ~InUse(s) /\ ~Taken(s) /\ ~Loading(s)
  <2>1. \A s \in Slots : ~Taken(s) /\ ~Loading(s)
    BY <1>1 DEF Taken, Loading
  <2>2. \A c \in Clients, s \in Slots : ~Has(c, s)
    BY <1>1, NilIsNoSlot DEF Has
  <2> QED BY <1>1, <2>1, <2>2 DEF InUse
<1>3. PICK q \in Seq(Slots) : Line(q)
  BY <1>1, InitIInv DEF IInv, Chained
<1>4. Order = q
  BY <1>3, OrderIs
<1>5. {s \in Slots : ~InUse(s)} = Slots
  BY <1>2
<1>6. q \in Orders(Slots)
  BY <1>3, <1>5, LineIsOrder
<1>7. Content = [s \in Slots |-> NoBlock]
  <2>1. \A s \in Slots : ContentOf(s) = NoBlock
    BY <1>1, <1>2, NoBlockIsNone DEF ContentOf
  <2> QED BY <2>1 DEF Content
<1>8. q \in A!Orders(Slots)
  <2>1. q \in [1 .. Cardinality(Slots) -> Slots]
    BY <1>6 DEF Orders
  <2>2. \A i, j \in DOMAIN q : q[i] = q[j] => i = j
    BY <1>6 DEF Orders
  <2>3. A!Cardinality(Slots) = Cardinality(Slots)
    BY DEF A!Cardinality, Cardinality
  <2> QED BY <2>1, <2>2, <2>3 DEF A!Orders
<1> QED BY <1>4, <1>6, <1>7, <1>8 DEF A!Init

\* Every behaviour of the cache is one of the pool: a block stays in its buffer until
\* the buffer is the free one that was given back first.
THEOREM Implementation == Undisturbed => (Spec => ImplementsLRUPool)
<1> SUFFICES ASSUME Undisturbed PROVE Spec => ImplementsLRUPool
  OBVIOUS
<1>1. Spec => []IInv
  BY Invariant DEF Undisturbed
<1>2. Spec => []HInv
  BY TableInvariant
<1>3. IInv /\ HInv /\ [Next]_vars => [A!Next]_A!vars
  BY NextPool DEF Pool
<1>4. Init => A!Init
  BY InitPool
<1> QED BY <1>1, <1>2, <1>3, <1>4, PTL DEF Spec, ImplementsLRUPool, A!Spec
-----------------------------------------------------------------------------
(* Blocks that fit *)

\* All blocks fit into the cache, in hash chains of their own, and stay there: nobody puts
\* one back as the next to be evicted, or asks for one while it is loaded.
Fits ==
  /\ Apart /\ Asks \subseteq {"cached"} /\ "ONE_SHOT" \notin Flags
  /\ IsFiniteSet(Blocks) /\ Cardinality(Blocks) <= numslots

\* A block may have several clients and be counted wrongly, and its buffer be in the list of
\* free ones while it is in use: what is kept is that unused buffers are taken first.
Shape ==
  /\ Devno \in [Slots -> Devices \cup {NO_DEV}] /\ Blockno \in [Slots -> Numbers \cup {0}]
  /\ Block \in [Slots -> Values] /\ disk \in [Blocks -> Values]
  /\ latest \in [Blocks -> Values \cup {nil}]
  /\ next \in [Slots -> Links] /\ prev \in [Slots -> Links] /\ b_hash \in [Slots -> Links]
  /\ front \in Links /\ rear \in Links /\ buf_hash \in [0 .. numhash - 1 -> Links]
  /\ waiting \in [Slots -> {<<>>} \cup {<<c>> : c \in Clients}]
  /\ cur \in Clients /\ load \in [Slots -> Loads]
  /\ pc \in [Clients -> {"idle", "sending", "receiving", "awaiting"}]
  /\ req \in [Clients -> Requests \cup {NoRequest}] /\ awaits \in [Clients -> Clients]
  /\ holds \in [Clients -> [slot : Links, block : Blocks \cup {NoBlock}]]

\* The server works for the client that is receiving; no two clients get one block.
InTurn ==
  /\ server \in {"hit", "unhash", "lock", "reply"} => pc[cur] = "receiving"
  /\ server \in {"hit", "unhash", "lock"} => req[cur].op = "get" /\ bp \in Slots
  /\ \A c \in Clients : pc[c] = "receiving" =>
       c = cur /\ server \in {"hit", "unhash", "lock", "reply", "hung", "panicked"}
  /\ \A c, d \in Clients :
       req[c].op = "get" /\ req[d].op = "get" /\ req[c].block = req[d].block => c = d

\* Block b has been loaded into s.
Stored(s, b) == s \in Slots /\ IdentityOf(s) = b /\ b \in Blocks /\ ~Loading(s)
Empty(s) == s \in Slots /\ IdentityOf(s) = NoBlock /\ ~Loading(s)
AtHand ==
  /\ server = "hit" => Stored(bp, req[cur].block)
  /\ server \in {"unhash", "lock"} => Empty(bp) /\ waiting[bp] = <<>>
  /\ server = "reply" /\ ~res.ready =>
       /\ res.kind = "async" /\ res.slot = bp /\ req[cur].op = "get"
       /\ Empty(bp) /\ waiting[bp] = <<cur>>
  /\ server = "reply" /\ res.ready /\ res.slot # nil =>
       req[cur].op = "get" /\ Stored(res.slot, req[cur].block)
HeldStored ==
  \A c \in Clients :
    /\ holds[c] # Nothing => Stored(holds[c].slot, holds[c].block)
    /\ req[c].op = "put" => Stored(req[c].slot, req[c].block)

\* A buffer that is loaded has one client waiting.
OneWaits ==
  \A s \in Slots :
    /\ Loading(s) => \E c \in Clients : ServedTo(s, c) /\ pc[c] = "awaiting" /\ load[s].block = req[c].block
    /\ waiting[s] # <<>> => Loading(s) \/ Given(s)

\* A block is in one buffer, and found there once its load can be joined.
Located ==
  /\ \A s \in Slots :
       /\ IdentityOf(s) \in Blocks \cup {NoBlock}
       /\ Begun(s) => IdentityOf(s) = load[s].block
       /\ load[s].stage = "start" => IdentityOf(s) = NoBlock
       /\ IdentityOf(s) \in Blocks => b_hash[s] = nil
       /\ IdentityOf(s) \in Blocks /\ load[s].stage # "insert" => buf_hash[Bucket(Blockno[s])] = s
  /\ \A b \in Blocks : buf_hash[Bucket(b[2])] # nil => IdentityOf(buf_hash[Bucket(b[2])]) = b
  /\ \A r, s \in Slots : ContentOf(r) = ContentOf(s) /\ ContentOf(r) # NoBlock => r = s

\* The unused buffers are the last ones, linked in order, and the first of them is the front.
Unused(s) == ContentOf(s) = NoBlock
UnusedFirst ==
  server # "panicked" => \A s \in Slots : Unused(s) =>
    /\ rear # nil /\ (rear = s => s = numslots - 1)
    /\ s # numslots - 1 => Unused(s + 1) /\ next[s] = s + 1
    /\ s = 0 \/ ~Unused(s - 1) => front = s /\ prev[s] = nil

\* A block is read once, and since then its buffer has what was last stored in it.
Filled(s, b) == IdentityOf(s) = b /\ load[s].stage \in {"off", "wake"}
ReadOnce ==
  \A b \in Blocks :
    /\ \A s \in Slots : Filled(s, b) => Block[s] = latest[b]
    /\ latest[b] = nil \/ \E s \in Slots : Filled(s, b)

LInv == /\ Shape /\ InTurn /\ Calling /\ AtHand /\ HeldStored /\ OneWaits /\ Located
        /\ UnusedFirst /\ ReadOnce

LEMMA StagesAre ==
  ASSUME LInv, NEW s \in Slots
  PROVE  /\ load[s] \in Loads /\ load[s].stage \in {"off", "start", "insert", "read", "wake"}
         /\ Loading(s) <=> load[s].stage = "start" \/ Begun(s)
         /\ ~Loading(s) <=> load[s].stage = "off"
<1>1. load[s] \in Loads
  BY DEF LInv, Shape
<1>2. load[s].stage \in {"off", "start", "insert", "read", "wake"}
  BY <1>1 DEF Loads
<1> QED BY <1>1, <1>2 DEF Loading, Begun

LEMMA ContentCases ==
  ASSUME LInv, NEW s \in Slots
  PROVE  /\ Loading(s) => ContentOf(s) = load[s].block /\ load[s].block \in Blocks
         /\ IdentityOf(s) \in Blocks => ContentOf(s) = IdentityOf(s)
         /\ IdentityOf(s) \in Blocks /\ ~Loading(s) => ~Taken(s)
         /\ Taken(s) => ContentOf(s) \in Blocks
         /\ Unused(s) => Empty(s) /\ ~Taken(s)
         /\ ContentOf(s) \in Blocks \cup {NoBlock}
<1>1. ASSUME Loading(s) PROVE ContentOf(s) = load[s].block /\ load[s].block \in Blocks
  <2>1. PICK c \in Clients : pc[c] = "awaiting" /\ load[s].block = req[c].block
    BY <1>1 DEF LInv, OneWaits
  <2>2. req[c].block \in Blocks
    BY <2>1 DEF LInv, Calling
  <2> QED BY <1>1, <2>1, <2>2 DEF ContentOf
<1>2. ASSUME Taken(s), ~Loading(s)
      PROVE  ContentOf(s) = req[cur].block /\ req[cur].block \in Blocks /\ IdentityOf(s) = NoBlock
  <2>1. req[cur].op = "get" /\ Empty(s)
    BY <1>2 DEF Taken, LInv, InTurn, AtHand
  <2>2. req[cur].block \in Blocks
    BY <2>1 DEF LInv, Calling, Shape
  <2> QED BY <1>2, <2>1, <2>2 DEF ContentOf, Empty
<1>3. NoBlock \notin Blocks /\ IdentityOf(s) \in Blocks \cup {NoBlock}
  BY NoBlockIsNone DEF LInv, Located
<1>4. ASSUME IdentityOf(s) \in Blocks PROVE ContentOf(s) = IdentityOf(s) /\ (~Loading(s) => ~Taken(s))
  <2>1. CASE Loading(s)
    <3>1. Begun(s)
      BY <1>3, <1>4, <2>1, StagesAre DEF LInv, Located
    <3> QED BY <1>1, <2>1, <3>1 DEF LInv, Located
  <2>2. CASE ~Loading(s)
    BY <1>2, <1>3, <1>4, <2>2 DEF ContentOf
  <2> QED BY <2>1, <2>2
<1>5. CASE Taken(s) \/ Loading(s)
  <2>1. Taken(s)
    BY <1>5 DEF Taken
  <2> QED BY <1>1, <1>2, <1>3, <1>4, <2>1 DEF Unused
<1>6. CASE ~Taken(s) /\ ~Loading(s)
  <2>1. ContentOf(s) = IdentityOf(s)
    BY <1>3, <1>6 DEF ContentOf
  <2> QED BY <1>3, <1>4, <1>6, <2>1 DEF Unused, Empty
<1> QED BY <1>5, <1>6

LEMMA StoredIs ==
  ASSUME LInv, NEW s, NEW b, Stored(s, b)
  PROVE  s \in Slots /\ b \in Blocks /\ IdentityOf(s) = b /\ ContentOf(s) = b /\ ~Unused(s) /\ ~Empty(s) /\ ~Taken(s)
BY ContentCases, NoBlockIsNone DEF Stored, Empty, Unused

\* What is said of the buffers stays true while they stay as they are.
LEMMA LocatedSame ==
  ASSUME LInv, UNCHANGED <<Devno, Blockno, load, b_hash, buf_hash>>, \A s \in Slots : ContentOf(s)' = ContentOf(s)
  PROVE  Located'
BY DEF LInv, Located, IdentityOf, Begun

LEMMA UnusedSame ==
  ASSUME LInv, server # "panicked", UNCHANGED lru, \A s \in Slots : ContentOf(s)' = ContentOf(s)
  PROVE  UnusedFirst'
<1>1. \A s \in Slots : (s # numslots - 1 => s + 1 \in Slots) /\ (s # 0 => s - 1 \in Slots)
  BY SlotsAssumption DEF Slots
<1>2. \A s \in Slots : Unused(s)' <=> Unused(s)
  BY DEF Unused
<1> QED BY <1>1, <1>2 DEF LInv, UnusedFirst, lru

LEMMA ReadSame ==
  ASSUME LInv, UNCHANGED <<Devno, Blockno, Block, load, latest>>
  PROVE  ReadOnce'
BY DEF LInv, ReadOnce, Filled, IdentityOf

LEMMA StoredSame ==
  ASSUME UNCHANGED <<Devno, Blockno, load>>
  PROVE  /\ \A s, b : Stored(s, b)' <=> Stored(s, b)
         /\ \A s : (Empty(s)' <=> Empty(s)) /\ (Loading(s)' <=> Loading(s))
BY DEF Stored, Empty, IdentityOf, Loading

\* A client that the server does not work for calls.
LEMMA CallFits ==
  ASSUME Fits, LInv, NEW c \in Clients, NEW r \in Requests, Call(c, r)
  PROVE  LInv'
<1>1. /\ pc[c] = "idle" /\ MayCall(c, r) /\ server # "panicked"
      /\ pc' = [pc EXCEPT ![c] = "sending"] /\ req' = [req EXCEPT ![c] = r]
      /\ holds' = IF r.op = "put" THEN [holds EXCEPT ![c] = Nothing] ELSE holds
      /\ UNCHANGED <<Devno, Blockno, Block, count, lru, b_hash, buf_hash, waiting, disk, latest, server, bp, cur, res, load, awaits>>
  BY DEF Call, Closing, bufs, hash, store, serverVars
<1>2. /\ pc \in [Clients -> {"idle", "sending", "receiving", "awaiting"}]
      /\ req \in [Clients -> Requests \cup {NoRequest}]
      /\ holds \in [Clients -> [slot : Links, block : Blocks \cup {NoBlock}]]
  BY DEF LInv, Shape
<1>3. /\ req'[c] = r /\ pc'[c] = "sending" /\ holds'[c] = IF r.op = "put" THEN Nothing ELSE holds[c]
      /\ \A d \in Clients : d # c => req'[d] = req[d] /\ pc'[d] = pc[d] /\ holds'[d] = holds[d]
  BY <1>1, <1>2
<1>4. Shape'
  <2>1. Nothing \in [slot : Links, block : Blocks \cup {NoBlock}]
    BY NilIsNoSlot DEF Nothing
  <2>2. holds' \in [Clients -> [slot : Links, block : Blocks \cup {NoBlock}]]
    BY <1>1, <1>2, <2>1
  <2>3. pc' \in [Clients -> {"idle", "sending", "receiving", "awaiting"}] /\ req' \in [Clients -> Requests \cup {NoRequest}]
    BY <1>1, <1>2
  <2> QED BY <1>1, <2>2, <2>3 DEF LInv, Shape, lru
<1>5. server \in {"hit", "unhash", "lock", "reply"} => c # cur /\ cur \in Clients /\ req'[cur] = req[cur] /\ pc'[cur] = pc[cur]
  BY <1>1, <1>3 DEF LInv, InTurn, Shape
<1>6. InTurn'
  <2>1. ASSUME NEW d \in Clients, d # c, r.op = "get", req[d].op = "get" PROVE req[d].block # r.block
    BY <1>1, <2>1 DEF MayCall, Fits
  <2> QED BY <1>1, <1>3, <1>5, <2>1 DEF LInv, InTurn
<1>7. Calling'
  <2>1. /\ r.op # "none" /\ (r.op \in {"get", "put"} => r.block \in Blocks) /\ (r.op = "put" => r.slot \in Slots)
        /\ r.op = "get" => r.arg \in {"NORMAL", "NO_READ"} /\ holds[c] = Nothing
    <3>1. r.op # "none"
      BY DEF Requests, AllRequests, Request
    <3> QED BY <1>1, <3>1, RequestsAre DEF MayCall
  <2> QED BY <1>1, <1>3, <2>1 DEF LInv, Calling
<1>8. AtHand'
  BY <1>1, <1>5, StoredSame DEF LInv, AtHand
<1>9. HeldStored'
  <2>1. r.op = "put" => holds[c] # Nothing /\ r.slot = holds[c].slot /\ r.block = holds[c].block
    BY <1>1 DEF MayCall
  <2> QED BY <1>1, <1>3, <2>1, StoredSame DEF LInv, HeldStored
<1>10. OneWaits'
  BY <1>1, <1>3, StoredSame DEF LInv, OneWaits, ServedTo, Given
<1>11. \A s \in Slots : ContentOf(s)' = ContentOf(s)
  <2>1. \A s : (Taken(s)' <=> Taken(s)) /\ (Loading(s)' <=> Loading(s))
    BY <1>1 DEF Taken, Loading
  <2>2. \A s : Taken(s) /\ ~Loading(s) => server \in {"unhash", "lock", "reply"}
    BY DEF Taken
  <2> QED BY <1>1, <1>5, <2>1, <2>2 DEF ContentOf, IdentityOf
<1> QED BY <1>1, <1>4, <1>6, <1>7, <1>8, <1>9, <1>10, <1>11, LocatedSame, UnusedSame, ReadSame DEF LInv

LEMMA ModifyFits ==
  ASSUME Fits, LInv, NEW c \in Clients, NEW v \in Values, Modify(c, v)
  PROVE  LInv'
<1> DEFINE s == holds[c].slot
           b == holds[c].block
<1>1. /\ server # "panicked" /\ Stored(s, b) /\ Block' = [Block EXCEPT ![s] = v] /\ latest' = [latest EXCEPT ![b] = v]
      /\ UNCHANGED <<Devno, Blockno, lru, b_hash, buf_hash, waiting, disk, server, bp, cur, res, load, pc, req, awaits, holds>>
  BY DEF Modify, Closing, LInv, HeldStored, hash, serverVars, clientVars
<1> HIDE DEF s, b
<1>2. s \in Slots /\ b \in Blocks /\ IdentityOf(s) = b /\ ContentOf(s) = b /\ b # NoBlock
  BY <1>1, StoredIs, NoBlockIsNone
<1>3. Shape'
  BY <1>1, <1>2 DEF LInv, Shape, lru
<1>4. InTurn' /\ Calling' /\ AtHand' /\ HeldStored' /\ OneWaits'
  BY <1>1, StoredSame DEF LInv, InTurn, Calling, AtHand, HeldStored, OneWaits, ServedTo, Given
<1>5. \A r \in Slots : ContentOf(r)' = ContentOf(r)
  BY <1>1 DEF ContentOf, Taken, Loading, IdentityOf
<1>6. ReadOnce'
  <2>1. \A r \in Slots, a \in Blocks : Filled(r, a)' <=> Filled(r, a)
    BY <1>1 DEF Filled, IdentityOf
  <2>2. Filled(s, b)
    BY <1>1, <1>2, StagesAre DEF Filled, Stored
  <2>3. ASSUME NEW r \in Slots, NEW a \in Blocks, Filled(r, a) PROVE (r = s <=> a = b)
    <3>1. ContentOf(r) = a /\ a # NoBlock
      BY <2>3, ContentCases, NoBlockIsNone DEF Filled
    <3> QED BY <1>2, <2>3, <3>1 DEF Filled, LInv, Located
  <2>4. Block \in [Slots -> Values] /\ latest \in [Blocks -> Values \cup {nil}]
    BY DEF LInv, Shape
  <2>5. ASSUME NEW a \in Blocks, NEW r \in Slots, Filled(r, a)' PROVE Block'[r] = latest'[a]
    BY <1>1, <1>2, <2>1, <2>3, <2>4, <2>5 DEF LInv, ReadOnce
  <2>6. ASSUME NEW a \in Blocks PROVE latest'[a] = nil \/ \E r \in Slots : Filled(r, a)'
    BY <1>1, <1>2, <2>1, <2>2, <2>4 DEF LInv, ReadOnce
  <2> QED BY <2>5, <2>6 DEF ReadOnce
<1> QED BY <1>1, <1>3, <1>4, <1>5, <1>6, LocatedSame, UnusedSame DEF LInv

\* A request is received: the server works for its client now.
LEMMA ReceiveFits ==
  ASSUME LInv, NEW c \in Clients, NEW op, Receive(c, op),
         server' \in {"hit", "unhash", "reply", "hung"},
         server' \in {"hit", "unhash"} => op = "get" /\ bp' \in Slots
  PROVE  /\ server = "loop" /\ cur' = c /\ pc[c] = "sending" /\ req[c].op = op
         /\ UNCHANGED <<req, awaits, holds, load>>
         /\ pc' \in [Clients -> {"idle", "sending", "receiving", "awaiting"}]
         /\ InTurn' /\ Calling'
         /\ UNCHANGED waiting => OneWaits'
<1>1. /\ server = "loop" /\ cur' = c /\ pc[c] = "sending" /\ req[c].op = op
      /\ pc' = [pc EXCEPT ![c] = "receiving"] /\ UNCHANGED <<req, awaits, holds, load>>
  BY DEF Receive, Ready
<1>2. pc \in [Clients -> {"idle", "sending", "receiving", "awaiting"}]
  BY DEF LInv, Shape
<1>3. pc'[c] = "receiving" /\ \A d \in Clients : d # c => pc'[d] = pc[d]
  BY <1>1, <1>2
<1>4. InTurn'
  BY <1>1, <1>3 DEF LInv, InTurn
<1>5. Calling'
  <2>1. op # "none"
    BY <1>1 DEF LInv, Calling
  <2> QED BY <1>1, <1>3, <2>1 DEF LInv, Calling
<1>6. ASSUME UNCHANGED waiting PROVE OneWaits'
  <2>1. ASSUME NEW s \in Slots, Loading(s)
        PROVE  \E d \in Clients : waiting[s] = <<d>> /\ pc[d] = "awaiting" /\ d # c /\ load[s].block = req[d].block
    BY <1>1, <2>1 DEF LInv, OneWaits, ServedTo
  <2>2. \A s \in Slots : waiting[s] # <<>> => Loading(s)
    BY <1>1 DEF LInv, OneWaits, Given
  <2> QED BY <1>1, <1>3, <1>6, <2>1, <2>2 DEF OneWaits, ServedTo, Loading
<1> QED BY <1>1, <1>2, <1>4, <1>5, <1>6

\* An answer that changes no buffer.
LEMMA AnswerFits ==
  ASSUME LInv, NEW c \in Clients, NEW op, Receive(c, op), NEW kind, Respond(kind, nil, TRUE),
         UNCHANGED <<Devno, Blockno, Block, hash, waiting, latest, bp>>,
         disk' \in [Blocks -> Values],
         next' \in [Slots -> Links], prev' \in [Slots -> Links], front' \in Links, rear' \in Links
  PROVE  /\ UnusedFirst' => LInv'
         /\ \A s \in Slots : ContentOf(s)' = ContentOf(s)
<1>1. server' = "reply" /\ res' = [kind |-> kind, slot |-> nil, ready |-> TRUE]
  BY DEF Respond
<1>2. /\ server = "loop" /\ cur' = c /\ UNCHANGED <<req, awaits, holds, load>>
      /\ pc' \in [Clients -> {"idle", "sending", "receiving", "awaiting"}]
      /\ InTurn' /\ Calling' /\ OneWaits'
  BY <1>1, ReceiveFits
<1>3. Shape'
  BY <1>2 DEF LInv, Shape, hash
<1>4. AtHand' /\ HeldStored'
  BY <1>1, <1>2, StoredSame DEF LInv, AtHand, HeldStored
<1>5. \A s \in Slots : ContentOf(s)' = ContentOf(s)
  <2>1. ASSUME NEW s \in Slots PROVE (Taken(s)' <=> Loading(s)) /\ (Taken(s) <=> Loading(s))
    BY <1>1, <1>2 DEF Taken, Loading
  <2> QED BY <1>2, <2>1 DEF ContentOf, IdentityOf, Loading
<1>6. Located' /\ ReadOnce'
  BY <1>2, <1>5, LocatedSame, ReadSame DEF hash
<1> QED BY <1>2, <1>3, <1>4, <1>5, <1>6 DEF LInv

LEMMA LinkTypes ==
  LInv => /\ next \in [Slots -> Links] /\ prev \in [Slots -> Links] /\ front \in Links /\ rear \in Links
          /\ disk \in [Blocks -> Values]
BY DEF LInv, Shape

LEMMA QuietFits ==
  ASSUME Fits, LInv, NEW c \in Clients, MountDevice(c) \/ UnmountDevice(c) \/ Flush(c) \/ CloseRequest(c)
  PROVE  LInv'
<1>1. disk' = disk
  <2>1. CASE Flush(c)
    BY <2>1, LinkTypes DEF Flush, actuallywrite
  <2> QED BY <2>1 DEF MountDevice, UnmountDevice, CloseRequest, store
<1>2. \E op, kind : Receive(c, op) /\ Respond(kind, nil, TRUE)
  <2>1. CASE Flush(c)
    BY <2>1 DEF Flush, Answer
  <2>2. CASE MountDevice(c)
    BY <2>2 DEF MountDevice
  <2>3. CASE UnmountDevice(c)
    BY <2>3 DEF UnmountDevice
  <2>4. CASE CloseRequest(c)
    BY <2>4 DEF CloseRequest
  <2> QED BY <2>1, <2>2, <2>3, <2>4
<1>3. UNCHANGED <<Devno, Blockno, Block, lru, hash, waiting, latest, bp>>
  BY DEF MountDevice, UnmountDevice, Flush, CloseRequest, bufs, store
<1>4. (UnusedFirst' => LInv') /\ server # "panicked"
  BY <1>1, <1>2, <1>3, LinkTypes, AnswerFits DEF lru, Receive, Ready
<1>5. \A s \in Slots : ContentOf(s)' = ContentOf(s)
  BY <1>1, <1>2, <1>3, LinkTypes, AnswerFits DEF lru
<1> QED BY <1>3, <1>4, <1>5, UnusedSame

LEMMA InvalidateFits ==
  ASSUME Fits, LInv, NEW c \in Clients
  PROVE  ~Invalidate(c)
<1>1. SUFFICES ASSUME Invalidate(c) PROVE FALSE
  OBVIOUS
<1>2. req[c].op = "invalidate" /\ req[c] \in Requests \cup {NoRequest}
  BY <1>1 DEF Invalidate, Receive, LInv, Shape
<1> QED BY <1>2, RequestsAre DEF Fits, Apart

\* A buffer that is put back goes to the end, behind the unused ones.
LEMMA PutFits ==
  ASSUME Fits, LInv, NEW c \in Clients, PutBlock(c)
  PROVE  LInv'
<1> DEFINE s == req[c].slot
<1>1. /\ Receive(c, "put") /\ req[c].op = "put" /\ Respond("err", nil, TRUE)
      /\ UNCHANGED <<Devno, Blockno, Block, hash, waiting, latest, bp>>
      /\ \/ UNCHANGED <<lru, disk>>
         \/ (IF req[c].arg = "ONE_SHOT" THEN PutFront(s) ELSE PutRear(s)) /\ WriteBlock(s, req[c].arg)
  BY DEF PutBlock, Receive
<1>2. Stored(s, req[c].block)
  BY <1>1 DEF LInv, HeldStored
<1>3. req[c].arg # "ONE_SHOT"
  <2>1. req[c] \in Requests \cup {NoRequest}
    BY DEF LInv, Shape
  <2> QED BY <1>1, <2>1 DEF Requests, AllRequests, Request, NoRequest, Fits
<1>4. UNCHANGED <<lru, disk>> \/ (PutRear(s) /\ WriteBlock(s, req[c].arg))
  BY <1>1, <1>3
<1> HIDE DEF s
<1>5. s \in Slots /\ ~Unused(s)
  BY <1>2, StoredIs
<1>6. CASE UNCHANGED <<lru, disk>>
  <2>1. (UnusedFirst' => LInv') /\ server # "panicked"
    BY <1>1, <1>6, LinkTypes, AnswerFits DEF lru, Receive, Ready
  <2>2. \A r \in Slots : ContentOf(r)' = ContentOf(r)
    BY <1>1, <1>6, LinkTypes, AnswerFits DEF lru
  <2> QED BY <1>6, <2>1, <2>2, UnusedSame
<1>7. CASE PutRear(s) /\ WriteBlock(s, req[c].arg)
  <2>1. /\ prev' = [prev EXCEPT ![s] = rear]
        /\ next' = IF rear = nil THEN [next EXCEPT ![s] = nil] ELSE [next EXCEPT ![s] = nil, ![rear] = s]
        /\ front' = IF rear = nil THEN s ELSE front
        /\ rear' = s
    BY <1>7 DEF PutRear
  <2>2. /\ next' \in [Slots -> Links] /\ prev' \in [Slots -> Links] /\ front' \in Links /\ rear' \in Links
    BY <1>5, <2>1, LinkTypes DEF Links
  <2>3. disk' \in [Blocks -> Values]
    <3>1. Block[s] \in Values
      BY <1>5 DEF LInv, Shape
    <3> QED BY <1>7, <3>1, LinkTypes DEF WriteBlock
  <2>4. UnusedFirst' => LInv'
    BY <1>1, <2>2, <2>3, AnswerFits
  <2>5. \A r \in Slots : ContentOf(r)' = ContentOf(r)
    BY <1>1, <2>2, <2>3, AnswerFits
  <2>6. \A r \in Slots : Unused(r)' <=> Unused(r)
    BY <2>5 DEF Unused
  <2>7. \A r \in Slots : (r # numslots - 1 => r + 1 \in Slots) /\ (r # 0 => r - 1 \in Slots)
    BY SlotsAssumption DEF Slots
  <2>8. s # nil
    BY <1>5, NilIsNoSlot
  <2>9. ASSUME NEW r \in Slots, Unused(r)
        PROVE  /\ rear' # nil /\ rear' # r
               /\ r # numslots - 1 => Unused(r + 1) /\ next'[r] = r + 1
               /\ r = 0 \/ ~Unused(r - 1) => front' = r /\ prev'[r] = nil
    <3>1. /\ rear # nil /\ (rear = r => r = numslots - 1) /\ r # s
          /\ r # numslots - 1 => Unused(r + 1) /\ next[r] = r + 1
          /\ r = 0 \/ ~Unused(r - 1) => front = r /\ prev[r] = nil
      BY <1>1, <1>5, <2>9 DEF LInv, UnusedFirst, Receive, Ready
    <3>2. prev'[r] = prev[r] /\ front' = front /\ (r # numslots - 1 => next'[r] = next[r])
      BY <1>5, <2>1, <3>1, LinkTypes
    <3> QED BY <2>1, <2>8, <2>9, <3>1, <3>2
  <2> QED BY <2>4, <2>6, <2>7, <2>9 DEF UnusedFirst
<1> QED BY <1>4, <1>6, <1>7

\* How a block is found, or a buffer for it.
LEMMA FirstOf ==
  ASSUME NEW p, NEW S
  PROVE  First(p, S) \in S \cup {nil}
<1> DEFINE hits == {n \in 0 .. numslots : Node(p)[n] \in S}
<1>1. CASE hits = {}
  BY <1>1 DEF First
<1>2. CASE hits # {}
  <2>1. hits \in SUBSET Nat /\ hits \subseteq 0 .. numslots
    OBVIOUS
  <2>2. PICK x \in hits : \A y \in hits : ~(y < x)
    BY <1>2, <2>1, Least
  <2>3. \A y \in hits : x <= y
    BY <2>1, <2>2
  <2>4. (CHOOSE n \in hits : \A k \in hits : n <= k) \in hits
    BY <2>3
  <2> QED BY <1>2, <2>4 DEF First
<1> QED BY <1>1, <1>2

LEMMA SearchIs ==
  ASSUME LInv, NEW c \in Clients, pc[c] = "sending", req[c].op = "get"
  PROVE  \/ Search(req[c].block) = nil /\ \A s \in Slots : ~Taken(s) \/ Loading(s) => ContentOf(s) # req[c].block
         \/ Stored(Search(req[c].block), req[c].block)
<1> DEFINE b == req[c].block
           S == {s \in Slots : IdentityOf(s) = b}
<1>1. b \in Blocks /\ b[2] \in Nat /\ b = <<b[1], b[2]>>
  BY NoBlockIsNone DEF LInv, Calling
<1>2. ASSUME NEW s \in Slots, Loading(s) PROVE ContentOf(s) # b
  <2>1. PICK d \in Clients : pc[d] = "awaiting" /\ load[s].block = req[d].block
    BY <1>2 DEF LInv, OneWaits
  <2>2. req[d].op = "get" /\ ContentOf(s) = req[d].block
    BY <1>2, <2>1, ContentCases DEF LInv, Calling
  <2> QED BY <2>1, <2>2 DEF LInv, InTurn
<1>3. \A s \in S : Stored(s, b)
  BY <1>1, <1>2, ContentCases DEF Stored
<1>4. Search(b) \in S \cup {nil}
  BY FirstOf DEF Search
<1>5. ASSUME NEW s \in S PROVE Search(b) # nil
  <2>1. Stored(s, b) /\ load[s].stage # "insert" /\ Blockno[s] = b[2] /\ s \in Slots
    BY <1>1, <1>3 DEF Stored, Loading, IdentityOf
  <2>2. b_hash[s] = nil /\ buf_hash[Bucket(b[2])] = s
    BY <1>1, <2>1 DEF Stored, LInv, Located
  <2> DEFINE q == <<s>>
  <2>3. q \in Seq(Slots) /\ Len(q) = 1 /\ q[1] = s
    BY <2>1
  <2>4. Along(b_hash, s, q) /\ 1 \in 1 .. Len(q) /\ \A i \in 1 .. Len(q) : i = 1
    BY <2>2, <2>3 DEF Along
  <2>5. nil \notin S /\ s # nil
    BY <2>1, NilIsNoSlot
  <2> HIDE DEF q, S
  <2>6. First(s, S) = s
    BY <2>3, <2>4, <2>5, FirstOfChain
  <2> QED BY <2>2, <2>5, <2>6 DEF Search, S
<1>6. CASE S = {}
  <2>1. ASSUME NEW s \in Slots, ~Taken(s), ~Loading(s) PROVE ContentOf(s) # b
    BY <1>1, <1>6, <2>1, NoBlockIsNone DEF ContentOf
  <2> QED BY <1>2, <1>4, <1>6, <2>1
<1>7. CASE S # {}
  BY <1>3, <1>4, <1>5, <1>7
<1> QED BY <1>6, <1>7

LEMMA SlotsAre == IsFiniteSet(Slots) /\ Cardinality(Slots) = numslots /\ numslots \in Nat
<1>1. PICK n \in Int : n = numslots - 1 /\ n + 1 = numslots /\ n > 0
  BY SlotsAssumption
<1>2. IsFiniteSet(0 .. n) /\ Cardinality(0 .. n) = IF 0 > n THEN 0 ELSE n - 0 + 1
  BY FS_Interval
<1>3. Slots = 0 .. n
  BY <1>1 DEF Slots
<1> QED BY <1>1, <1>2, <1>3, SlotsAssumption

\* While a block is in no buffer, a buffer is unused.
LEMMA SomeUnused ==
  ASSUME Fits, LInv, NEW b \in Blocks, \A s \in Slots : ContentOf(s) # b
  PROVE  \E s \in Slots : Unused(s)
<1>1. SUFFICES ASSUME \A s \in Slots : ~Unused(s) PROVE FALSE
  OBVIOUS
<1> DEFINE f == [s \in Slots |-> ContentOf(s)]
           T == Blocks \ {b}
<1>2. \A s \in Slots : ContentOf(s) \in T
  BY <1>1, ContentCases DEF Unused
<1>3. \A r, s \in Slots : ContentOf(r) = ContentOf(s) => r = s
  BY <1>1 DEF LInv, Located, Unused
<1>4. f \in Injection(Slots, T)
  BY <1>2, <1>3 DEF Injection, IsInjective
<1>5. IsFiniteSet(Blocks) /\ Cardinality(Blocks) <= numslots /\ Cardinality(Blocks) \in Nat
  BY FS_CardinalityType DEF Fits
<1>6. IsFiniteSet(T) /\ Cardinality(T) = Cardinality(Blocks) - 1
  BY <1>5, FS_RemoveElement
<1> HIDE DEF f, T
<1>7. Cardinality(Slots) <= Cardinality(T)
  BY <1>4, <1>6, FS_Injection
<1> QED BY <1>5, <1>6, <1>7, SlotsAre

\* The first unused buffer is at the front.
LEMMA FrontUnused ==
  ASSUME LInv, server # "panicked", \E s \in Slots : Unused(s)
  PROVE  /\ front \in Slots /\ Unused(front) /\ prev[front] = nil
         /\ \A r \in Slots : Unused(r) => front <= r
<1> DEFINE U == {s \in Slots : Unused(s)}
<1>1. U \in SUBSET Nat /\ U # {}
  BY NilIsNoSlot
<1>2. PICK x \in U : \A y \in U : ~(y < x)
  BY <1>1, Least
<1>3. x \in Slots /\ Unused(x) /\ x \in Nat
  BY <1>1
<1>4. x = 0 \/ ~Unused(x - 1)
  <2>1. ASSUME x # 0, Unused(x - 1) PROVE FALSE
    <3>1. x - 1 \in Slots /\ x - 1 < x
      BY <1>3, <2>1, SlotsAssumption DEF Slots
    <3> QED BY <1>2, <2>1, <3>1
  <2> QED BY <2>1
<1>5. front = x /\ prev[x] = nil
  BY <1>3, <1>4 DEF LInv, UnusedFirst
<1>6. \A r \in U : x <= r
  BY <1>1, <1>2
<1> QED BY <1>3, <1>5, <1>6

LEMMA GetTaken ==
  ASSUME Fits, LInv, NEW c \in Clients, Receive(c, "get"), UNCHANGED <<bufs, hash, waiting, store, res>>,
         \A s \in Slots : ContentOf(s) # req[c].block,
         rm_lru(front), bp' = front, server' = "unhash"
  PROVE  LInv'
<1> DEFINE b == req[c].block
<1>1. server = "loop" /\ cur' = c /\ req[c].op = "get"
  BY DEF Receive, Ready
<1>2. b \in Blocks /\ b # NoBlock
  BY <1>1, NoBlockIsNone DEF LInv, Calling
<1>3. PICK s \in Slots : /\ s = front /\ Unused(s) /\ prev[s] = nil
                        /\ \A r \in Slots : Unused(r) => s <= r
  BY <1>1, <1>2, SomeUnused, FrontUnused
<1> DEFINE n == next[s]
<1>4. /\ UNCHANGED <<req, awaits, holds, load>>
      /\ pc' \in [Clients -> {"idle", "sending", "receiving", "awaiting"}]
      /\ InTurn' /\ Calling' /\ OneWaits'
  BY <1>3, ReceiveFits
<1>5. /\ front' = n /\ next' = next
      /\ IF n # nil THEN prev' = [prev EXCEPT ![n] = nil] /\ rear' = rear ELSE rear' = nil /\ prev' = prev
  BY <1>3 DEF rm_lru
<1>6. n \in Links
  BY <1>3, LinkTypes
<1>7. Shape'
  <2>1. prev' \in [Slots -> Links] /\ rear' \in Links
    BY <1>5, <1>6, LinkTypes DEF Links
  <2> QED BY <1>1, <1>4, <1>5, <1>6, <2>1 DEF LInv, Shape, bufs, hash, store
<1>8. Empty(s) /\ ~Taken(s)
  BY <1>3, ContentCases
<1>9. AtHand'
  <2>1. waiting[s] = <<>>
    BY <1>1, <1>8 DEF LInv, OneWaits, Empty, Given
  <2>2. Empty(bp)'
    BY <1>3, <1>4, <1>8, StoredSame DEF Empty, bufs, IdentityOf, Loading
  <2> QED BY <1>3, <2>1, <2>2 DEF AtHand
<1>10. HeldStored'
  BY <1>4, StoredSame DEF LInv, HeldStored, bufs
<1>11. ContentOf(s)' = b /\ \A r \in Slots : r # s => ContentOf(r)' = ContentOf(r)
  <2>1. ASSUME NEW r \in Slots PROVE (Taken(r)' <=> Loading(r) \/ r = s) /\ (Taken(r) <=> Loading(r))
    BY <1>1, <1>3, <1>4 DEF Taken, Loading
  <2>2. ~Loading(s)
    BY <1>8 DEF Empty
  <2> QED BY <1>1, <1>3, <1>4, <2>1, <2>2 DEF ContentOf, IdentityOf, Loading, bufs
<1>12. Located'
  <2>1. \A r, t \in Slots : ContentOf(r)' = ContentOf(t)' /\ ContentOf(r)' # NoBlock => r = t
    BY <1>11 DEF LInv, Located
  <2> QED BY <1>4, <2>1 DEF LInv, Located, IdentityOf, Begun, bufs, hash
<1>13. ReadOnce'
  BY <1>4, ReadSame DEF bufs, store
<1>14. UnusedFirst'
  <2>1. \A r \in Slots : Unused(r)' <=> Unused(r) /\ r # s
    BY <1>2, <1>11 DEF Unused
  <2>2. ASSUME NEW r \in Slots, Unused(r), r # s
        PROVE  /\ rear' # nil /\ (rear' = r => r = numslots - 1)
               /\ r # numslots - 1 => Unused(r + 1) /\ r + 1 # s /\ r + 1 \in Slots /\ next'[r] = r + 1
               /\ r - 1 \in Slots
               /\ r - 1 = s \/ ~Unused(r - 1) => front' = r /\ prev'[r] = nil
    <3>1. r \in 0 .. numslots - 1 /\ s \in 0 .. numslots - 1 /\ s < r /\ numslots \in Nat
      BY <1>3, <2>2, SlotsAssumption DEF Slots
    <3>2. n = s + 1 /\ n \in Slots /\ n # nil
      <4>1. s # numslots - 1 /\ s + 1 \in 0 .. numslots - 1
        BY <3>1
      <4>2. n = s + 1
        BY <1>1, <1>3, <4>1 DEF LInv, UnusedFirst
      <4> QED BY <4>1, <4>2, NilIsNoSlot DEF Slots
    <3>3. /\ rear # nil /\ (rear = r => r = numslots - 1)
          /\ r # numslots - 1 => Unused(r + 1) /\ next[r] = r + 1
          /\ r = 0 \/ ~Unused(r - 1) => front = r
      BY <1>1, <2>2 DEF LInv, UnusedFirst
    <3>4. r - 1 \in Slots /\ (r # numslots - 1 => r + 1 \in Slots /\ r + 1 # s)
      BY <3>1 DEF Slots
    <3>5. Unused(r - 1)
      BY <1>3, <2>2, <3>3
    <3>6. r - 1 = s => front' = r /\ prev'[r] = nil
      <4>1. ASSUME r - 1 = s PROVE r = n
        BY <3>1, <3>2, <4>1
      <4> QED BY <1>5, <3>2, <4>1, LinkTypes
    <3> QED BY <1>5, <3>2, <3>3, <3>4, <3>5, <3>6
  <2>3. \A r \in Slots : r # s /\ Unused(r) => r # 0
    <3>1. \A r \in Slots : r \in Nat
      BY NilIsNoSlot
    <3> QED BY <1>3, <3>1
  <2> HIDE DEF n
  <2> QED BY <2>1, <2>2, <2>3 DEF UnusedFirst
<1> QED BY <1>4, <1>7, <1>9, <1>10, <1>12, <1>13, <1>14 DEF LInv

LEMMA GetFits ==
  ASSUME Fits, LInv, NEW c \in Clients, GetBlock(c)
  PROVE  LInv'
<1> DEFINE b == req[c].block
           found == Search(b)
<1>1. /\ Receive(c, "get") /\ UNCHANGED <<bufs, hash, waiting, store>>
      /\ server = "loop" /\ pc[c] = "sending" /\ req[c].op = "get"
  BY DEF GetBlock, Receive, Ready
<1>2. \A s \in Slots : Taken(s) <=> Loading(s)
  BY <1>1 DEF Taken
<1>3. \/ found = nil /\ \A s \in Slots : ContentOf(s) # b
      \/ found # nil /\ Stored(found, b)
  <2>1. \/ found = nil /\ \A s \in Slots : ~Taken(s) \/ Loading(s) => ContentOf(s) # b
        \/ Stored(found, b)
    BY <1>1, SearchIs
  <2>2. Stored(found, b) => found # nil
    BY NilIsNoSlot DEF Stored
  <2> QED BY <1>2, <2>1, <2>2
<1> HIDE DEF found
<1>4. \/ found # nil /\ server' = "hit" /\ bp' = found /\ UNCHANGED <<prev_ptr, res, lru>>
      \/ found = nil /\ server' = "hung" /\ UNCHANGED <<bp, prev_ptr, res, lru>>
      \/ found = nil /\ Respond("async", nil, TRUE) /\ UNCHANGED <<bp, prev_ptr, lru>>
      \/ found = nil /\ rm_lru(front) /\ bp' = front /\ server' = "unhash" /\ UNCHANGED res
  BY DEF GetBlock, found, Oldest
<1>5. CASE \/ found # nil /\ server' = "hit" /\ bp' = found /\ UNCHANGED <<res, lru>>
           \/ server' = "hung" /\ UNCHANGED <<bp, res, lru>>
  <2>1. server' = "hit" => Stored(bp', b) /\ bp' \in Slots
    BY <1>3, <1>5, StoredIs
  <2>2. /\ cur' = c /\ UNCHANGED <<req, awaits, holds, load>>
        /\ pc' \in [Clients -> {"idle", "sending", "receiving", "awaiting"}]
        /\ InTurn' /\ Calling' /\ OneWaits'
    BY <1>1, <1>5, <2>1, ReceiveFits
  <2>3. Shape'
    BY <1>1, <1>5, <2>2 DEF LInv, Shape, bufs, hash, store, lru
  <2>4. UNCHANGED <<Devno, Blockno, Block, load, lru, b_hash, buf_hash, latest>>
    BY <1>1, <1>5, <2>2 DEF bufs, hash, store
  <2>5. AtHand'
    <3>1. server' = "hit" => Stored(bp, req[cur].block)'
      BY <2>1, <2>2, <2>4, StoredSame DEF Stored, IdentityOf, Loading
    <3> QED BY <1>5, <3>1 DEF AtHand
  <2>6. HeldStored'
    BY <2>2, <2>4, StoredSame DEF LInv, HeldStored
  <2>7. \A s \in Slots : ContentOf(s)' = ContentOf(s)
    <3>1. \A s \in Slots : Taken(s)' <=> Loading(s)
      BY <1>5, <2>2 DEF Taken, Loading
    <3> QED BY <1>2, <2>2, <2>4, <3>1 DEF ContentOf, IdentityOf, Loading
  <2> QED BY <1>1, <2>2, <2>3, <2>4, <2>5, <2>6, <2>7, LocatedSame, UnusedSame, ReadSame DEF LInv
<1>6. CASE Respond("async", nil, TRUE) /\ UNCHANGED <<bp, lru>>
  <2>1. UNCHANGED <<Devno, Blockno, Block, hash, waiting, latest, disk, next, prev, front, rear>>
    BY <1>1, <1>6 DEF bufs, store, lru
  <2>2. (UnusedFirst' => LInv') /\ \A s \in Slots : ContentOf(s)' = ContentOf(s)
    BY <1>1, <1>6, <2>1, LinkTypes, AnswerFits
  <2> QED BY <1>1, <1>6, <2>2, UnusedSame
<1>7. CASE found = nil /\ rm_lru(front) /\ bp' = front /\ server' = "unhash" /\ UNCHANGED res
  BY <1>1, <1>3, <1>7, GetTaken
<1> QED BY <1>4, <1>5, <1>6, <1>7

LEMMA HitFits ==
  ASSUME LInv, Hit
  PROVE  LInv'
<1>1. /\ server = "hit" /\ UNCHANGED <<Devno, Blockno, Block, lru, b_hash, buf_hash, disk, latest>>
      /\ UNCHANGED <<bp, cur, load, pc, req, awaits, holds>>
  BY DEF Hit, bufs, hash, store, clientVars
<1>2. Stored(bp, req[cur].block) /\ req[cur].op = "get" /\ pc[cur] = "receiving"
  BY <1>1 DEF LInv, AtHand, InTurn
<1>3. waiting[bp] = <<>>
  BY <1>1, <1>2 DEF LInv, OneWaits, Given, Stored
<1>4. UNCHANGED waiting /\ server' = "reply" /\ res' = [kind |-> "async", slot |-> bp, ready |-> TRUE]
  BY <1>3 DEF Hit, Respond
<1>5. Shape' /\ InTurn' /\ Calling'
  BY <1>1, <1>2, <1>4 DEF LInv, Shape, InTurn, Calling, lru
<1>6. AtHand' /\ HeldStored'
  BY <1>1, <1>2, <1>4, StoredSame DEF LInv, AtHand, HeldStored
<1>7. OneWaits'
  BY <1>1, <1>4 DEF LInv, OneWaits, Given, Loading, ServedTo
<1>8. \A s \in Slots : ContentOf(s)' = ContentOf(s)
  BY <1>1, <1>4 DEF ContentOf, Taken, Loading, IdentityOf
<1> QED BY <1>1, <1>5, <1>6, <1>7, <1>8, LocatedSame, UnusedSame, ReadSame DEF LInv

\* Only the chain of the unused buffers changes.
LEMMA UnhashFits ==
  ASSUME Fits, LInv, Unhash
  PROVE  LInv'
<1>1. /\ server = "unhash" /\ UNCHANGED <<Devno, Blockno, Block, lru, waiting, disk, latest>>
      /\ UNCHANGED <<bp, prev_ptr, cur, res, load, pc, req, awaits, holds>>
      /\ server' \in {"lock", "panicked"}
  BY DEF Unhash, bufs, store, clientVars
<1>2. Empty(bp) /\ bp \in Slots /\ bp # nil
  BY <1>1, NilIsNoSlot DEF LInv, AtHand, InTurn
<1>3. Bucket(Blockno[bp]) = 0 /\ 0 \in 0 .. numhash - 1
  BY <1>2, SlotsAssumption DEF Empty, IdentityOf, NoBlock, Bucket
<1>4. b_hash \in [Slots -> Links] /\ buf_hash \in [0 .. numhash - 1 -> Links] /\ b_hash[bp] \in Links
  BY <1>2 DEF LInv, Shape
<1>5. /\ buf_hash' \in [0 .. numhash - 1 -> Links]
      /\ \A h \in 0 .. numhash - 1 : h # 0 => buf_hash'[h] = buf_hash[h]
      /\ b_hash' \in [Slots -> Links]
      /\ \A s \in Slots : b_hash[s] = nil => b_hash'[s] = nil
  <2>1. CASE UNCHANGED hash
    BY <1>4, <2>1 DEF hash
  <2>2. CASE Unlink /\ prev_ptr = bp
    BY <1>3, <1>4, <2>2 DEF Unlink, After
  <2>3. CASE Unlink /\ prev_ptr # bp
    <3> DEFINE S == {s \in Slots : b_hash[s] = bp}
    <3>1. PICK before \in S \cup {nil} : before = First(prev_ptr, S)
      BY FirstOf
    <3>2. UNCHANGED buf_hash /\ b_hash' = IF before = nil THEN b_hash ELSE [b_hash EXCEPT ![before] = b_hash[bp]]
      BY <2>3, <3>1 DEF Unlink, After
    <3>3. before = nil \/ (before \in Slots /\ b_hash[before] # nil)
      BY <1>2, <3>1
    <3> QED BY <1>4, <3>2, <3>3
  <2> QED BY <2>1, <2>2, <2>3 DEF Unhash
<1>6. Shape' /\ InTurn' /\ Calling'
  BY <1>1, <1>5 DEF LInv, Shape, InTurn, Calling, lru
<1>7. AtHand' /\ HeldStored'
  BY <1>1, StoredSame DEF LInv, AtHand, HeldStored
<1>8. OneWaits'
  BY <1>1 DEF LInv, OneWaits, Given, Loading, ServedTo
<1>9. Located' /\ UnusedFirst'
  <2>1. \A b \in Blocks : Bucket(b[2]) # 0 /\ Bucket(b[2]) \in 0 .. numhash - 1
    BY NoBlockIsNone, BucketsAre DEF Fits, Apart
  <2>2. \A s \in Slots : IdentityOf(s) \in Blocks =>
          Bucket(Blockno[s]) # 0 /\ Bucket(Blockno[s]) \in 0 .. numhash - 1
    BY <2>1 DEF IdentityOf
  <2>3. CASE server' = "lock"
    <3>1. \A s \in Slots : ContentOf(s)' = ContentOf(s)
      BY <1>1, <2>3 DEF ContentOf, Taken, Loading, IdentityOf
    <3>2. Located'
      BY <1>1, <1>5, <2>1, <2>2, <3>1 DEF LInv, Located, IdentityOf, Begun
    <3> QED BY <1>1, <3>1, <3>2, UnusedSame
  <2>4. CASE server' = "panicked"
    <3>1. \A s \in Slots : ContentOf(s)' = IF s = bp THEN NoBlock ELSE ContentOf(s)
      <4>1. ~Loading(bp) /\ IdentityOf(bp) = NoBlock
        BY <1>2 DEF Empty
      <4> QED BY <1>1, <2>4, <4>1 DEF ContentOf, Taken, Loading, IdentityOf
    <3>2. Located'
      BY <1>1, <1>5, <2>1, <2>2, <3>1 DEF LInv, Located, IdentityOf, Begun
    <3> QED BY <2>4, <3>2 DEF UnusedFirst
  <2> QED BY <1>1, <2>3, <2>4
<1> QED BY <1>1, <1>6, <1>7, <1>8, <1>9, ReadSame DEF LInv

LEMMA KeepFits ==
  ASSUME LInv, KeepCallback
  PROVE  LInv'
<1>1. /\ server = "lock" /\ UNCHANGED <<Devno, Blockno, Block, lru, b_hash, buf_hash, disk, latest>>
      /\ UNCHANGED <<bp, cur, load, pc, req, awaits, holds>>
      /\ server' = "reply" /\ res' = [kind |-> "async", slot |-> bp, ready |-> FALSE]
      /\ waiting' = [waiting EXCEPT ![bp] = Append(@, cur)]
  BY DEF KeepCallback, bufs, hash, store, clientVars, Respond
<1>2. Empty(bp) /\ bp \in Slots /\ waiting[bp] = <<>> /\ cur \in Clients /\ req[cur].op = "get" /\ pc[cur] = "receiving"
  BY <1>1 DEF LInv, AtHand, InTurn, Shape
<1>3. waiting \in [Slots -> {<<>>} \cup {<<c>> : c \in Clients}]
  BY DEF LInv, Shape
<1>4. waiting' = [waiting EXCEPT ![bp] = <<cur>>]
  BY <1>1, <1>2, <1>3
<1>5. waiting' \in [Slots -> {<<>>} \cup {<<c>> : c \in Clients}]
  BY <1>2, <1>3, <1>4
<1>6. Shape' /\ InTurn' /\ Calling'
  BY <1>1, <1>2, <1>5 DEF LInv, Shape, InTurn, Calling, lru
<1>7. AtHand' /\ HeldStored'
  <2>1. Empty(bp)' /\ waiting'[bp] = <<cur>>
    BY <1>1, <1>2, <1>3, <1>4, StoredSame DEF Empty, IdentityOf, Loading
  <2> QED BY <1>1, <1>2, <2>1, StoredSame DEF LInv, AtHand, HeldStored
<1>8. OneWaits'
  <2>1. \A s \in Slots : Loading(s) => s # bp
    BY <1>2 DEF Empty
  <2>2. \A s \in Slots : s # bp => waiting'[s] = waiting[s]
    BY <1>3, <1>4
  <2>3. \A s \in Slots : waiting[s] # <<>> => Loading(s)
    BY <1>1 DEF LInv, OneWaits, Given
  <2> QED BY <1>1, <2>1, <2>2, <2>3 DEF LInv, OneWaits, Given, Loading, ServedTo
<1>9. \A s \in Slots : ContentOf(s)' = ContentOf(s)
  BY <1>1 DEF ContentOf, Taken, Loading, IdentityOf
<1> QED BY <1>1, <1>6, <1>7, <1>8, <1>9, LocatedSame, UnusedSame, ReadSame DEF LInv

LEMMA ReplyFits ==
  ASSUME Fits, LInv, NEW c \in Clients, Reply(c)
  PROVE  LInv'
<1>1. /\ server = "reply" /\ pc[c] = "receiving" /\ res' = NoResponse /\ c = cur
      /\ UNCHANGED <<Devno, Blockno, Block, lru, b_hash, buf_hash, waiting, disk, latest, bp, cur>>
  BY DEF Reply, LInv, InTurn, bufs, hash, store
<1>2. /\ pc \in [Clients -> {"idle", "sending", "receiving", "awaiting"}]
      /\ req \in [Clients -> Requests \cup {NoRequest}] /\ awaits \in [Clients -> Clients]
      /\ holds \in [Clients -> [slot : Links, block : Blocks \cup {NoBlock}]]
      /\ load \in [Slots -> Loads]
  BY DEF LInv, Shape
<1>3. /\ res.slot # nil /\ res.ready => req[c].op = "get" /\ Stored(res.slot, req[c].block) /\ res.slot \in Slots
      /\ ~res.ready => /\ res.kind = "async" /\ res.slot = bp /\ req[c].op = "get" /\ bp # nil
                       /\ Empty(bp) /\ bp \in Slots /\ waiting[bp] = <<c>>
  BY <1>1, NilIsNoSlot DEF LInv, AtHand, Stored, Empty
<1>4. \/ res.ready /\ server' = "panicked" /\ UNCHANGED <<load, pc, req, awaits, holds>>
      \/ res.ready /\ server' \in {"closed", "loop"} /\ UNCHANGED <<load, awaits>> /\ Return(c, res.slot)
      \/ /\ ~res.ready /\ server' = "loop" /\ UNCHANGED <<req, holds>>
         /\ load' = [load EXCEPT ![bp] = [stage |-> "start", block |-> req[c].block, mode |-> req[c].arg]]
         /\ pc' = [pc EXCEPT ![c] = "awaiting"] /\ awaits' = [awaits EXCEPT ![c] = c]
  <2>1. CASE ~Expects(req[c].op, res.kind) \/ (res.kind = "async" /\ res.slot = nil)
    BY <1>3, <2>1 DEF Reply, Expects, clientVars
  <2>2. CASE ~(~Expects(req[c].op, res.kind) \/ (res.kind = "async" /\ res.slot = nil)) /\ res.ready
    BY <2>2 DEF Reply
  <2>3. CASE ~(~Expects(req[c].op, res.kind) \/ (res.kind = "async" /\ res.slot = nil)) /\ ~res.ready
    BY <1>1, <1>3, <2>3 DEF Reply
  <2> QED BY <2>1, <2>2, <2>3
<1>5. \A s \in Slots : res.ready => (Taken(s) <=> Loading(s))
  BY <1>1 DEF Taken
<1>6. CASE res.ready /\ UNCHANGED load /\ server' \in {"closed", "loop", "panicked"}
  <2>1. \A s \in Slots : ContentOf(s)' = ContentOf(s)
    <3>1. \A s \in Slots : Taken(s)' <=> Loading(s)
      BY <1>6 DEF Taken, Loading
    <3> QED BY <1>1, <1>5, <1>6, <3>1 DEF ContentOf, IdentityOf, Loading
  <2>2. Located' /\ UnusedFirst' /\ ReadOnce' /\ AtHand'
    BY <1>1, <1>6, <2>1, LocatedSame, UnusedSame, ReadSame DEF AtHand
  <2>3. CASE server' = "panicked" /\ UNCHANGED <<load, pc, req, awaits, holds>>
    <3>1. Shape' /\ InTurn' /\ Calling'
      BY <1>1, <2>3 DEF LInv, Shape, InTurn, Calling, lru
    <3>2. HeldStored' /\ OneWaits'
      BY <1>1, <1>6, <2>3, StoredSame DEF LInv, HeldStored, OneWaits, Given, ServedTo
    <3> QED BY <2>2, <3>1, <3>2 DEF LInv
  <2>4. CASE server' \in {"closed", "loop"} /\ UNCHANGED awaits /\ Return(c, res.slot)
    <3>1. /\ pc' = [pc EXCEPT ![c] = "idle"] /\ req' = [req EXCEPT ![c] = NoRequest]
          /\ holds' = IF res.slot = nil THEN holds
                      ELSE [holds EXCEPT ![c] = [slot |-> res.slot, block |-> req[c].block]]
      BY <2>4 DEF Return
    <3>2. holds' \in [Clients -> [slot : Links, block : Blocks \cup {NoBlock}]]
      <4>1. CASE res.slot = nil
        BY <1>2, <3>1, <4>1
      <4>2. CASE res.slot # nil
        <5>1. res.slot \in Links /\ req[c].block \in Blocks
          BY <1>3, <1>6, <4>2, NilIsNoSlot DEF Stored
        <5>2. [slot |-> res.slot, block |-> req[c].block] \in [slot : Links, block : Blocks \cup {NoBlock}]
          BY <5>1
        <5> QED BY <1>2, <3>1, <4>2, <5>2
      <4> QED BY <4>1, <4>2
    <3>3. /\ pc'[c] = "idle" /\ req'[c] = NoRequest
          /\ holds'[c] = IF res.slot = nil THEN holds[c] ELSE [slot |-> res.slot, block |-> req[c].block]
          /\ \A d \in Clients : d # c => pc'[d] = pc[d] /\ req'[d] = req[d] /\ holds'[d] = holds[d]
      BY <1>2, <3>1
    <3>4. Shape'
      <4>1. /\ pc' \in [Clients -> {"idle", "sending", "receiving", "awaiting"}]
            /\ req' \in [Clients -> Requests \cup {NoRequest}]
        BY <1>2, <3>1
      <4> QED BY <1>1, <1>6, <2>4, <3>2, <4>1 DEF LInv, Shape, lru
    <3>5. NoRequest.op = "none"
      BY DEF NoRequest, Request
    <3>6. InTurn'
      BY <1>1, <2>4, <3>3, <3>5 DEF LInv, InTurn
    <3>7. Calling'
      <4>1. res.slot # nil => res.slot \in Slots /\ req[c].block \in Blocks
        BY <1>3, <1>6 DEF Stored
      <4> QED BY <2>4, <3>3, <3>5, <4>1 DEF LInv, Calling
    <3>8. HeldStored'
      <4>1. res.slot # nil => Stored(res.slot, req[c].block)
        BY <1>3, <1>6
      <4>2. \A s, b : Stored(s, b)' <=> Stored(s, b)
        BY <1>1, <1>6, StoredSame
      <4> QED BY <3>3, <3>5, <4>1, <4>2 DEF LInv, HeldStored
    <3>9. OneWaits'
      BY <1>1, <1>6, <3>3, StoredSame DEF LInv, OneWaits, Given, ServedTo
    <3> QED BY <2>2, <3>4, <3>6, <3>7, <3>8, <3>9 DEF LInv
  <2> QED BY <1>4, <1>6, <2>3, <2>4
<1>7. CASE /\ ~res.ready /\ server' = "loop" /\ UNCHANGED <<req, holds>>
           /\ load' = [load EXCEPT ![bp] = [stage |-> "start", block |-> req[c].block, mode |-> req[c].arg]]
           /\ pc' = [pc EXCEPT ![c] = "awaiting"] /\ awaits' = [awaits EXCEPT ![c] = c]
  <2> DEFINE new == [stage |-> "start", block |-> req[c].block, mode |-> req[c].arg]
  <2>1. req[c].op = "get" /\ req[c].block \in Blocks /\ req[c].arg \in {"NORMAL", "NO_READ"}
    BY <1>3, <1>7 DEF LInv, Calling
  <2>2. new \in Loads /\ new.stage = "start" /\ new.block = req[c].block
    BY <2>1 DEF Loads
  <2> HIDE DEF new
  <2>3. load' = [load EXCEPT ![bp] = new]
    BY <1>7 DEF new
  <2>4. load' \in [Slots -> Loads] /\ load'[bp] = new /\ \A s \in Slots : s # bp => load'[s] = load[s]
    BY <1>2, <1>3, <1>7, <2>2, <2>3
  <2>5. pc'[c] = "awaiting" /\ awaits'[c] = c /\ \A d \in Clients : d # c => pc'[d] = pc[d] /\ awaits'[d] = awaits[d]
    BY <1>2, <1>7
  <2>6. Shape'
    BY <1>1, <1>2, <1>7, <2>4 DEF LInv, Shape, lru
  <2>7. InTurn' /\ Calling'
    BY <1>1, <1>7, <2>1, <2>5 DEF LInv, InTurn, Calling
  <2>8. AtHand'
    BY <1>7 DEF AtHand
  <2>9. bp \in Slots /\ Empty(bp) /\ waiting[bp] = <<c>>
    BY <1>3, <1>7
  <2>10. HeldStored'
    <3>1. ASSUME NEW s, NEW b, Stored(s, b) PROVE Stored(s, b)'
      <4>1. s # bp /\ s \in Slots
        BY <2>9, <3>1, StoredIs
      <4> QED BY <1>1, <2>4, <3>1, <4>1 DEF Stored, IdentityOf, Loading
    <3> QED BY <1>7, <3>1 DEF LInv, HeldStored
  <2>11. OneWaits'
    <3>1. \A s \in Slots : s # bp => (Loading(s)' <=> Loading(s)) /\ ~Given(s)
      BY <1>1, <1>3, <1>7, <2>4 DEF Loading, Given
    <3>2. Loading(bp)' /\ load'[bp].block = req'[c].block
      BY <1>1, <1>7, <2>2, <2>4 DEF Loading
    <3>3. ASSUME NEW s \in Slots, s # bp, Loading(s)
          PROVE  \E d \in Clients : waiting[s] = <<d>> /\ pc'[d] = "awaiting" /\ load'[s].block = req'[d].block
      BY <1>1, <1>7, <2>4, <2>5, <3>3 DEF LInv, OneWaits, ServedTo
    <3> QED BY <1>1, <2>5, <2>9, <3>1, <3>2, <3>3 DEF LInv, OneWaits, ServedTo
  <2>12. \A s \in Slots : ContentOf(s)' = ContentOf(s)
    <3>1. ASSUME NEW s \in Slots, s # bp PROVE ContentOf(s)' = ContentOf(s)
      <4>1. (Taken(s)' <=> Loading(s)) /\ (Taken(s) <=> Loading(s)) /\ (Loading(s)' <=> Loading(s))
        BY <1>1, <1>3, <1>7, <2>4, <3>1 DEF Taken, Loading
      <4> QED BY <1>1, <2>4, <3>1, <4>1 DEF ContentOf, IdentityOf
    <3>2. ContentOf(bp) = req[c].block
      BY <1>1, <1>3, <1>7, <2>9 DEF ContentOf, Taken, Empty
    <3>3. load'[bp].stage # "off" /\ load'[bp].block = req[c].block
      BY <2>2, <2>4
    <3>4. \A s \in Slots : load'[s].stage # "off" => ContentOf(s)' = load'[s].block
      BY DEF ContentOf, Loading
    <3>5. bp' = bp
      BY <1>1
    <3>6. ASSUME NEW s \in Slots, s = bp PROVE ContentOf(s)' = ContentOf(s)
      BY <3>2, <3>3, <3>4, <3>6
    <3> QED BY <3>1, <3>6
  <2>13. Located'
    <3>1. IdentityOf(bp) = NoBlock /\ NoBlock \notin Blocks
      BY <2>9, NoBlockIsNone DEF Empty
    <3> QED BY <1>1, <2>2, <2>4, <2>12, <3>1 DEF LInv, Located, IdentityOf, Begun
  <2>14. UnusedFirst'
    BY <1>1, <2>12, UnusedSame
  <2>15. ReadOnce'
    <3>1. IdentityOf(bp) \notin Blocks
      BY <2>9, NoBlockIsNone DEF Empty
    <3>2. \A s \in Slots, b \in Blocks : Filled(s, b)' <=> Filled(s, b)
      BY <1>1, <2>4, <3>1 DEF Filled, IdentityOf
    <3> QED BY <1>1, <3>2 DEF LInv, ReadOnce
  <2> QED BY <2>6, <2>7, <2>8, <2>10, <2>11, <2>13, <2>14, <2>15 DEF LInv
<1> QED BY <1>4, <1>6, <1>7

\* A load goes on: its buffer stays the one of its block and of the client that waits.
LEMMA LoadFits ==
  ASSUME LInv, NEW s \in Slots, NEW from, NEW to \in {"insert", "read", "wake"},
         Step(s, from, to), from # "off",
         \A r \in Slots : r # s => Devno'[r] = Devno[r] /\ Blockno'[r] = Blockno[r],
         UNCHANGED <<lru, waiting, server, bp, cur, res, pc, req, awaits, holds>>
  PROVE  /\ load[s].stage = from /\ load' \in [Slots -> Loads]
         /\ load'[s].stage = to /\ load'[s].block = load[s].block
         /\ \A r \in Slots : r # s => load'[r] = load[r] /\ IdentityOf(r)' = IdentityOf(r)
         /\ load[s].block \in Blocks /\ ContentOf(s) = load[s].block
         /\ \A r \in Slots : ContentOf(r) = load[s].block => r = s
         /\ InTurn' /\ Calling' /\ AtHand' /\ HeldStored' /\ OneWaits' /\ UnusedFirst'
         /\ \A r \in Slots : ContentOf(r)' = ContentOf(r)
<1>1. load[s].stage = from /\ server # "panicked" /\ load' = [load EXCEPT ![s].stage = to] /\ Loading(s)
  BY DEF Step, Loading
<1>2. load \in [Slots -> Loads]
  BY DEF LInv, Shape
<1>3. load' \in [Slots -> Loads] /\ load'[s].stage = to /\ load'[s].block = load[s].block /\ load'[s].stage # "off"
  <2>1. load[s] \in Loads
    BY <1>2
  <2> DEFINE new == [load[s] EXCEPT !.stage = to]
  <2>2. new \in Loads /\ new.stage = to /\ new.block = load[s].block
    BY <2>1 DEF Loads
  <2>3. load' = [load EXCEPT ![s] = new]
    BY <1>1, <1>2
  <2> HIDE DEF new
  <2> QED BY <1>2, <2>2, <2>3
<1>4. \A r \in Slots : r # s => load'[r] = load[r] /\ IdentityOf(r)' = IdentityOf(r)
  BY <1>1, <1>2 DEF IdentityOf
<1>5. load[s].block \in Blocks /\ ContentOf(s) = load[s].block /\ load[s].block # NoBlock
  BY <1>1, ContentCases, NoBlockIsNone
<1>6. \A r \in Slots : ContentOf(r) = load[s].block => r = s
  BY <1>5 DEF LInv, Located
<1>7. \A r \in Slots : Loading(r)' <=> Loading(r)
  BY <1>1, <1>3, <1>4 DEF Loading
<1>8. /\ \A r, b : Stored(r, b) => Stored(r, b)'
      /\ \A r : Empty(r) => Empty(r)'
  BY <1>1, <1>4, <1>7 DEF Stored, Empty
<1>9. InTurn' /\ Calling' /\ HeldStored'
  BY <1>8 DEF LInv, InTurn, Calling, HeldStored
<1>10. AtHand'
  <2>1. (Stored(bp, req[cur].block) => Stored(bp, req[cur].block)') /\ (Empty(bp) => Empty(bp)')
    BY <1>4, <1>1, <1>7 DEF Stored, Empty
  <2>2. Stored(res.slot, req[cur].block) => Stored(res.slot, req[cur].block)'
    BY <1>4, <1>1, <1>7 DEF Stored, Empty
  <2> QED BY <2>1, <2>2 DEF LInv, AtHand
<1>11. OneWaits'
  <2>1. \A r \in Slots : load'[r].block = load[r].block
    BY <1>3, <1>4
  <2> QED BY <1>7, <2>1 DEF LInv, OneWaits, ServedTo, Given
<1>12. \A r \in Slots : ContentOf(r)' = ContentOf(r)
  <2>1. ContentOf(s)' = load'[s].block
    BY <1>3 DEF ContentOf, Loading
  <2>2. ASSUME NEW r \in Slots, r # s PROVE ContentOf(r)' = ContentOf(r)
    <3>1. Taken(r)' <=> Taken(r)
      BY <1>7 DEF Taken
    <3> QED BY <1>4, <1>7, <2>2, <3>1 DEF ContentOf
  <2> QED BY <1>3, <1>5, <2>1, <2>2
<1>13. UnusedFirst'
  BY <1>1, <1>12, UnusedSame
<1> QED BY <1>1, <1>3, <1>4, <1>5, <1>6, <1>9, <1>10, <1>11, <1>12, <1>13

LEMMA LoadBlockFits ==
  ASSUME Fits, LInv, NEW s \in Slots, LoadBlock(s)
  PROVE  LInv'
<1> DEFINE b == load[s].block
<1>1. /\ Block' = [Block EXCEPT ![s] = 0] /\ Devno' = [Devno EXCEPT ![s] = b[1]]
      /\ Blockno' = [Blockno EXCEPT ![s] = b[2]]
      /\ b_hash' = [b_hash EXCEPT ![s] = buf_hash[Bucket(b[2])]]
      /\ Step(s, "start", "insert")
      /\ UNCHANGED <<lru, buf_hash, waiting, disk, latest, server, bp, cur, res, pc, req, awaits, holds>>
  BY DEF LoadBlock, store, serverVars, clientVars
<1>2. /\ Devno \in [Slots -> Devices \cup {NO_DEV}] /\ Blockno \in [Slots -> Numbers \cup {0}]
      /\ Block \in [Slots -> Values] /\ b_hash \in [Slots -> Links]
      /\ buf_hash \in [0 .. numhash - 1 -> Links]
  BY DEF LInv, Shape
<1>3. \A r \in Slots : r # s => /\ Devno'[r] = Devno[r] /\ Blockno'[r] = Blockno[r]
                                /\ Block'[r] = Block[r] /\ b_hash'[r] = b_hash[r]
  BY <1>1, <1>2
<1>4. /\ load[s].stage = "start" /\ load' \in [Slots -> Loads]
      /\ load'[s].stage = "insert" /\ load'[s].block = b
      /\ \A r \in Slots : r # s => load'[r] = load[r] /\ IdentityOf(r)' = IdentityOf(r)
      /\ b \in Blocks /\ ContentOf(s) = b
      /\ \A r \in Slots : ContentOf(r) = b => r = s
      /\ InTurn' /\ Calling' /\ AtHand' /\ HeldStored' /\ OneWaits' /\ UnusedFirst'
      /\ \A r \in Slots : ContentOf(r)' = ContentOf(r)
  BY <1>1, <1>3, LoadFits
<1>5. /\ b[1] \in Devices /\ b[2] \in Numbers /\ b = <<b[1], b[2]>> /\ b # NoBlock
      /\ Bucket(b[2]) \in 0 .. numhash - 1 /\ buf_hash[Bucket(b[2])] \in Links
      /\ NoBlock \notin Blocks
  BY <1>2, <1>4, NoBlockIsNone, BucketsAre
<1> HIDE DEF b
<1>6. IdentityOf(s) = NoBlock /\ IdentityOf(s)' = b
  BY <1>1, <1>2, <1>4, <1>5 DEF LInv, Located, IdentityOf
<1>7. b_hash'[s] = nil
  <2>1. ASSUME buf_hash[Bucket(b[2])] # nil PROVE FALSE
    <3>1. PICK h \in Slots : h = buf_hash[Bucket(b[2])] /\ IdentityOf(h) = b
      BY <1>4, <1>5, <2>1, NilIsNoSlot DEF LInv, Located
    <3>2. h = s
      BY <1>4, <3>1, ContentCases
    <3> QED BY <1>5, <1>6, <3>1, <3>2
  <2> QED BY <1>1, <1>2, <2>1
<1>8. Shape'
  <2>1. /\ Devno' \in [Slots -> Devices \cup {NO_DEV}] /\ Blockno' \in [Slots -> Numbers \cup {0}]
        /\ Block' \in [Slots -> Values] /\ b_hash' \in [Slots -> Links]
    BY <1>1, <1>2, <1>5, BlocksAssumption
  <2> QED BY <1>1, <1>4, <2>1 DEF LInv, Shape, lru
<1>9. Located'
  <2>1. ASSUME NEW a \in Blocks, buf_hash[Bucket(a[2])] # nil
        PROVE  IdentityOf(buf_hash[Bucket(a[2])])' = a
    <3>1. PICK h \in Slots : h = buf_hash[Bucket(a[2])] /\ IdentityOf(h) = a
      <4>1. Bucket(a[2]) \in 0 .. numhash - 1
        BY NoBlockIsNone, BucketsAre
      <4> QED BY <1>2, <2>1, <4>1, NilIsNoSlot DEF LInv, Located
    <3>2. h # s
      BY <1>5, <1>6, <3>1
    <3> QED BY <1>1, <1>4, <3>1, <3>2 DEF IdentityOf
  <2>2. ASSUME NEW r \in Slots
        PROVE  /\ IdentityOf(r)' \in Blocks \cup {NoBlock}
               /\ Begun(r)' => IdentityOf(r)' = load'[r].block
               /\ load'[r].stage = "start" => IdentityOf(r)' = NoBlock
               /\ IdentityOf(r)' \in Blocks => b_hash'[r] = nil
               /\ IdentityOf(r)' \in Blocks /\ load'[r].stage # "insert" => buf_hash'[Bucket(Blockno'[r])] = r
    <3>1. CASE r = s
      BY <1>4, <1>6, <1>7, <3>1
    <3>2. CASE r # s
      BY <1>1, <1>3, <1>4, <3>2 DEF LInv, Located, Begun
    <3> QED BY <3>1, <3>2
  <2> QED BY <1>1, <1>4, <2>1, <2>2 DEF LInv, Located
<1>10. ReadOnce'
  <2>1. \A r \in Slots, a \in Blocks : (Filled(r, a)' <=> Filled(r, a)) /\ (Filled(r, a) => r # s)
    BY <1>4 DEF Filled
  <2> QED BY <1>1, <1>3, <2>1 DEF LInv, ReadOnce
<1> QED BY <1>4, <1>8, <1>9, <1>10 DEF LInv

LEMMA RehashFits ==
  ASSUME Fits, LInv, NEW s \in Slots, Rehash(s)
  PROVE  LInv'
<1> DEFINE b == load[s].block
           h == Bucket(b[2])
<1>1. /\ buf_hash' = [buf_hash EXCEPT ![h] = s] /\ Step(s, "insert", "read")
      /\ UNCHANGED <<Devno, Blockno, Block, b_hash, lru, waiting, disk, latest, server, bp, cur, res, pc, req, awaits, holds>>
  BY DEF Rehash, ChainOf, bufs, store, serverVars, clientVars
<1>2. buf_hash \in [0 .. numhash - 1 -> Links]
  BY DEF LInv, Shape
<1>3. /\ load[s].stage = "insert" /\ load' \in [Slots -> Loads]
      /\ load'[s].stage = "read" /\ load'[s].block = b
      /\ \A r \in Slots : r # s => load'[r] = load[r] /\ IdentityOf(r)' = IdentityOf(r)
      /\ b \in Blocks /\ ContentOf(s) = b
      /\ \A r \in Slots : ContentOf(r) = b => r = s
      /\ InTurn' /\ Calling' /\ AtHand' /\ HeldStored' /\ OneWaits' /\ UnusedFirst'
      /\ \A r \in Slots : ContentOf(r)' = ContentOf(r)
  BY <1>1, LoadFits
<1> HIDE DEF b
<1>4. IdentityOf(s) = b
  BY <1>3 DEF LInv, Located, Begun, b
<1>5. h \in 0 .. numhash - 1
  BY <1>3, NoBlockIsNone, BucketsAre
<1>6. buf_hash'[h] = s /\ \A k \in 0 .. numhash - 1 : k # h => buf_hash'[k] = buf_hash[k]
  BY <1>1, <1>2, <1>5
<1>7. \A a \in Blocks : Bucket(a[2]) \in 0 .. numhash - 1 /\ (Bucket(a[2]) = h => a = b)
  BY <1>3, NoBlockIsNone, BucketsAre DEF Fits, Apart
<1> HIDE DEF h
<1>8. Shape'
  <2>1. buf_hash' \in [0 .. numhash - 1 -> Links]
    BY <1>1, <1>2, NilIsNoSlot
  <2> QED BY <1>1, <1>3, <2>1 DEF LInv, Shape, lru
<1>9. Located'
  <2>1. ASSUME NEW a \in Blocks, buf_hash'[Bucket(a[2])] # nil
        PROVE  IdentityOf(buf_hash'[Bucket(a[2])]) = a
    BY <1>4, <1>6, <1>7, <2>1 DEF LInv, Located
  <2>2. \A a \in Blocks : buf_hash'[Bucket(a[2])] # nil => IdentityOf(buf_hash[Bucket(a[2])])' = a
    BY <1>1, <2>1 DEF IdentityOf
  <2>3. ASSUME NEW r \in Slots
        PROVE  /\ IdentityOf(r)' \in Blocks \cup {NoBlock}
               /\ Begun(r)' => IdentityOf(r)' = load'[r].block
               /\ load'[r].stage = "start" => IdentityOf(r)' = NoBlock
               /\ IdentityOf(r)' \in Blocks => b_hash'[r] = nil
               /\ IdentityOf(r)' \in Blocks /\ load'[r].stage # "insert" => buf_hash'[Bucket(Blockno'[r])] = r
    <3>0. IdentityOf(r)' = IdentityOf(r)
      BY <1>1 DEF IdentityOf
    <3>1. CASE r = s
      <4>1. Blockno[s] = b[2]
        BY <1>4 DEF IdentityOf
      <4>2. Bucket(Blockno'[s]) = h
        BY <1>1, <4>1 DEF h
      <4> QED BY <1>1, <1>3, <1>4, <1>6, <3>0, <3>1, <4>2 DEF LInv, Located
    <3>2. CASE r # s
      <4>1. ASSUME IdentityOf(r) \in Blocks, load[r].stage # "insert" PROVE buf_hash'[Bucket(Blockno'[r])] = r
        <5>1. IdentityOf(r) # b /\ IdentityOf(r)[2] = Blockno[r]
          BY <1>3, <3>2, <4>1, ContentCases DEF IdentityOf
        <5>2. Bucket(Blockno[r]) # h /\ Bucket(Blockno[r]) \in 0 .. numhash - 1
          BY <1>7, <4>1, <5>1
        <5> QED BY <1>1, <1>6, <4>1, <5>2 DEF LInv, Located
      <4> QED BY <1>1, <1>3, <3>0, <3>2, <4>1 DEF LInv, Located, Begun
    <3> QED BY <3>1, <3>2
  <2> QED BY <1>3, <2>2, <2>3 DEF LInv, Located
<1>10. ReadOnce'
  <2>1. \A r \in Slots, a \in Blocks : (Filled(r, a)' <=> Filled(r, a)) /\ (Filled(r, a) => r # s)
    BY <1>3 DEF Filled
  <2> QED BY <1>1, <2>1 DEF LInv, ReadOnce
<1> QED BY <1>3, <1>8, <1>9, <1>10 DEF LInv

\* The one read of a block.
LEMMA ReadFits ==
  ASSUME LInv, NEW s \in Slots, Read(s)
  PROVE  LInv'
<1> DEFINE b == load[s].block
<1>1. /\ Step(s, "read", "wake")
      /\ (\E v : Block' = [Block EXCEPT ![s] = v] /\ v = disk[b]) \/ UNCHANGED Block
      /\ latest' = IF latest[b] = nil THEN [latest EXCEPT ![b] = Block'[s]] ELSE latest
      /\ UNCHANGED <<Devno, Blockno, lru, b_hash, buf_hash, waiting, disk, server, bp, cur, res, pc, req, awaits, holds>>
  BY DEF Read, hash, serverVars, clientVars
<1>2. Block \in [Slots -> Values] /\ disk \in [Blocks -> Values] /\ latest \in [Blocks -> Values \cup {nil}]
  BY DEF LInv, Shape
<1>3. /\ load[s].stage = "read" /\ load' \in [Slots -> Loads]
      /\ load'[s].stage = "wake" /\ load'[s].block = b
      /\ \A r \in Slots : r # s => load'[r] = load[r] /\ IdentityOf(r)' = IdentityOf(r)
      /\ b \in Blocks /\ ContentOf(s) = b
      /\ \A r \in Slots : ContentOf(r) = b => r = s
      /\ InTurn' /\ Calling' /\ AtHand' /\ HeldStored' /\ OneWaits' /\ UnusedFirst'
      /\ \A r \in Slots : ContentOf(r)' = ContentOf(r)
  BY <1>1, LoadFits
<1> HIDE DEF b
<1>4. IdentityOf(s) = b
  BY <1>3 DEF LInv, Located, Begun, b
<1>5. \A r : IdentityOf(r)' = IdentityOf(r)
  BY <1>1 DEF IdentityOf
<1>6. Block' \in [Slots -> Values] /\ \A r \in Slots : r # s => Block'[r] = Block[r]
  BY <1>1, <1>2, <1>3
<1>7. latest[b] = nil
  <2>1. ASSUME NEW r \in Slots, Filled(r, b) PROVE FALSE
    <3>1. r = s
      BY <1>3, <2>1, ContentCases DEF Filled
    <3> QED BY <1>3, <2>1, <3>1 DEF Filled
  <2> QED BY <1>3, <2>1 DEF LInv, ReadOnce
<1>8. latest' \in [Blocks -> Values \cup {nil}] /\ latest'[b] = Block'[s] /\ \A a \in Blocks : a # b => latest'[a] = latest[a]
  BY <1>1, <1>2, <1>3, <1>6, <1>7
<1>9. Shape'
  BY <1>1, <1>3, <1>6, <1>8 DEF LInv, Shape, lru
<1>10. Located'
  <2>1. \A r \in Slots : /\ Begun(r)' <=> Begun(r)
                         /\ load'[r].block = load[r].block
                         /\ load'[r].stage = "start" <=> load[r].stage = "start"
                         /\ load'[r].stage = "insert" <=> load[r].stage = "insert"
    BY <1>3 DEF Begun, b
  <2>2. \A a \in Blocks : buf_hash'[Bucket(a[2])] # nil => IdentityOf(buf_hash[Bucket(a[2])])' = a
    BY <1>1, <1>5 DEF LInv, Located, IdentityOf
  <2> QED BY <1>1, <1>3, <1>4, <1>5, <2>1, <2>2 DEF LInv, Located
<1>11. ReadOnce'
  <2>1. \A r \in Slots, a \in Blocks : r # s => (Filled(r, a)' <=> Filled(r, a))
    BY <1>3 DEF Filled
  <2>2. \A a \in Blocks : (Filled(s, a)' <=> a = b) /\ ~Filled(s, a)
    BY <1>3, <1>4, <1>5 DEF Filled
  <2>3. ASSUME NEW r \in Slots, r # s PROVE ~Filled(r, b)
    BY <1>3, <2>3, ContentCases DEF Filled
  <2>4. ASSUME NEW a \in Blocks, NEW r \in Slots, Filled(r, a)' PROVE Block'[r] = latest'[a]
    BY <1>6, <1>8, <2>1, <2>2, <2>3, <2>4 DEF LInv, ReadOnce
  <2>5. ASSUME NEW a \in Blocks PROVE latest'[a] = nil \/ \E r \in Slots : Filled(r, a)'
    BY <1>8, <2>1, <2>2 DEF LInv, ReadOnce
  <2> QED BY <2>4, <2>5 DEF ReadOnce
<1> QED BY <1>3, <1>9, <1>10, <1>11 DEF LInv

LEMMA WakeFits ==
  ASSUME LInv, NEW s \in Slots, NEW c \in Clients, Wake(s, c)
  PROVE  LInv'
<1>0. PICK b : b = load[s].block
  OBVIOUS
<1>1. /\ load[s].stage = "wake" /\ Loading(s) /\ server # "panicked" /\ pc[c] = "awaiting" /\ awaits[c] = Head(waiting[s])
      /\ Return(c, s)
      /\ UNCHANGED <<Devno, Blockno, Block, lru, b_hash, buf_hash, disk, latest, server, bp, cur, res, awaits>>
  BY DEF Wake, Loading, bufs, hash, store, serverVars
<1>2. /\ pc \in [Clients -> {"idle", "sending", "receiving", "awaiting"}]
      /\ req \in [Clients -> Requests \cup {NoRequest}]
      /\ holds \in [Clients -> [slot : Links, block : Blocks \cup {NoBlock}]]
      /\ waiting \in [Slots -> {<<>>} \cup {<<d>> : d \in Clients}]
      /\ load \in [Slots -> Loads] /\ cur \in Clients
  BY DEF LInv, Shape
<1>3. waiting[s] = <<c>> /\ req[c].op = "get" /\ req[c].block = b
  <2>1. PICK d \in Clients : waiting[s] = <<d>> /\ load[s].block = req[d].block
    BY <1>1 DEF LInv, OneWaits, ServedTo
  <2>2. awaits[c] = c /\ req[c].op = "get"
    BY <1>1 DEF LInv, Calling
  <2>3. Head(waiting[s]) = d
    BY <2>1
  <2> QED BY <1>0, <1>1, <2>1, <2>2, <2>3
<1>4. waiting' = [waiting EXCEPT ![s] = <<>>] /\ load' = [load EXCEPT ![s] = Idle]
  <2>1. Tail(waiting[s]) = <<>> /\ Len(waiting[s]) = 1
    BY <1>3
  <2> QED BY <2>1 DEF Wake, Served
<1>5. /\ load[s].block \in Blocks /\ ContentOf(s) = b /\ b # NoBlock
      /\ \A r \in Slots : ContentOf(r) = b => r = s
      /\ IdentityOf(s) = b
  BY <1>0, <1>1, ContentCases, NoBlockIsNone DEF LInv, Located, Begun
<1>6. /\ pc' = [pc EXCEPT ![c] = "idle"] /\ req' = [req EXCEPT ![c] = NoRequest]
      /\ holds' = [holds EXCEPT ![c] = [slot |-> s, block |-> b]]
  BY <1>1, <1>3, NilIsNoSlot DEF Return
<1>7. /\ pc'[c] = "idle" /\ req'[c] = NoRequest /\ holds'[c] = [slot |-> s, block |-> b]
      /\ \A d \in Clients : d # c => pc'[d] = pc[d] /\ req'[d] = req[d] /\ holds'[d] = holds[d]
      /\ waiting'[s] = <<>> /\ load'[s] = Idle
      /\ \A r \in Slots : r # s => waiting'[r] = waiting[r] /\ load'[r] = load[r]
      /\ Idle.stage = "off" /\ Idle \in Loads
  BY <1>2, <1>4, <1>6 DEF Idle, Loads
<1>8. b \in Blocks
  BY <1>0, <1>5
<1>9. Shape'
  <2>1. [slot |-> s, block |-> b] \in [slot : Links, block : Blocks \cup {NoBlock}]
    BY <1>8, NilIsNoSlot
  <2>2. /\ pc' \in [Clients -> {"idle", "sending", "receiving", "awaiting"}]
        /\ req' \in [Clients -> Requests \cup {NoRequest}]
        /\ holds' \in [Clients -> [slot : Links, block : Blocks \cup {NoBlock}]]
    BY <1>2, <1>6, <2>1
  <2>3. waiting' \in [Slots -> {<<>>} \cup {<<d>> : d \in Clients}] /\ load' \in [Slots -> Loads]
    BY <1>2, <1>4, <1>7
  <2> QED BY <1>1, <2>2, <2>3 DEF LInv, Shape, lru
<1>10. NoRequest.op = "none"
  BY DEF NoRequest, Request
<1>11. InTurn'
  BY <1>1, <1>2, <1>7, <1>10 DEF LInv, InTurn
<1>12. Calling'
  BY <1>1, <1>7, <1>8, <1>10 DEF LInv, Calling
<1>13. \A r : IdentityOf(r)' = IdentityOf(r)
  BY <1>1 DEF IdentityOf
<1>14. /\ \A r, a : Stored(r, a) => r # s
       /\ \A r : Empty(r) => r # s
  BY <1>1 DEF Stored, Empty
<1>15. ASSUME NEW r, NEW a
       PROVE  (Stored(r, a) => Stored(r, a)') /\ (Empty(r) => Empty(r)' /\ waiting'[r] = waiting[r])
  <2>1. CASE r \in Slots /\ r # s
    BY <1>7, <1>13, <2>1 DEF Stored, Empty, Loading
  <2>2. CASE r \notin Slots \/ r = s
    BY <1>14, <2>2 DEF Stored, Empty
  <2> QED BY <2>1, <2>2
<1>16. Stored(s, b)'
  BY <1>5, <1>7, <1>8, <1>13 DEF Stored, Loading
<1>17. AtHand'
  <2>1. server \in {"hit", "unhash", "lock", "reply"} => req'[cur] = req[cur] /\ cur \in Clients
    BY <1>1, <1>7 DEF LInv, InTurn, Shape
  <2>2. server = "hit" => Stored(bp, req[cur].block)' /\ bp' = bp
    BY <1>1, <1>15, <2>1 DEF LInv, AtHand, Stored, IdentityOf, Loading
  <2>3. server \in {"unhash", "lock"} => Empty(bp)' /\ waiting'[bp] = <<>>
    BY <1>1, <1>15 DEF LInv, AtHand, Empty, IdentityOf, Loading
  <2>4. server = "reply" /\ ~res.ready =>
          /\ res.kind = "async" /\ res.slot = bp /\ req'[cur].op = "get"
          /\ Empty(bp)' /\ waiting'[bp] = <<cur>>
    BY <1>1, <1>15, <2>1 DEF LInv, AtHand, Empty, IdentityOf, Loading
  <2>5. server = "reply" /\ res.ready /\ res.slot # nil =>
          req'[cur].op = "get" /\ Stored(res.slot, req[cur].block)'
    BY <1>1, <1>15, <2>1 DEF LInv, AtHand, Stored, IdentityOf, Loading
  <2> QED BY <1>1, <2>2, <2>3, <2>4, <2>5 DEF AtHand
<1>18. HeldStored'
  BY <1>7, <1>10, <1>15, <1>16 DEF LInv, HeldStored
<1>19. OneWaits'
  <2>1. \A r \in Slots : r # s => (Loading(r)' <=> Loading(r)) /\ (Given(r)' <=> Given(r))
    BY <1>1, <1>7 DEF Loading, Given
  <2>2. ~Loading(s)'
    BY <1>7 DEF Loading
  <2>3. ASSUME NEW r \in Slots, r # s, Loading(r)
        PROVE  \E d \in Clients : waiting[r] = <<d>> /\ pc'[d] = "awaiting" /\ load[r].block = req'[d].block
    <3>1. PICK d \in Clients : waiting[r] = <<d>> /\ pc[d] = "awaiting" /\ load[r].block = req[d].block
      BY <2>3 DEF LInv, OneWaits, ServedTo
    <3>2. d # c
      BY <1>0, <1>3, <1>5, <2>3, <3>1, ContentCases
    <3> QED BY <1>7, <3>1, <3>2
  <2> QED BY <1>7, <2>1, <2>2, <2>3 DEF LInv, OneWaits, ServedTo
<1>20. \A r \in Slots : ContentOf(r)' = ContentOf(r)
  <2>1. ~(server \in {"unhash", "lock"} /\ bp = s) /\ ~(server = "reply" /\ ~res.ready /\ res.slot = s)
    BY <1>14 DEF LInv, AtHand
  <2>2. ~Taken(s)' /\ ~Loading(s)'
    BY <1>1, <1>7, <2>1 DEF Taken, Loading
  <2>3. ContentOf(s)' = b
    BY <1>5, <1>8, <1>13, <2>2 DEF ContentOf
  <2>4. ASSUME NEW r \in Slots, r # s PROVE ContentOf(r)' = ContentOf(r)
    <3>1. (Taken(r)' <=> Taken(r)) /\ (Loading(r)' <=> Loading(r)) /\ load'[r] = load[r]
      BY <1>1, <1>7, <2>4 DEF Taken, Loading
    <3>2. Taken(r) /\ ~Loading(r) => req'[cur'] = req[cur]
      BY <1>1, <1>7 DEF Taken, LInv, InTurn, Shape
    <3> QED BY <1>13, <3>1, <3>2 DEF ContentOf
  <2> QED BY <1>5, <2>3, <2>4
<1>21. Located'
  <2>1. \A r \in Slots : Begun(r)' => Begun(r) /\ load'[r] = load[r]
    BY <1>7 DEF Begun
  <2>2. \A r \in Slots : (load'[r].stage = "start" => load[r].stage = "start") /\ (load[r].stage = "insert" => load'[r] = load[r])
    BY <1>1, <1>7
  <2>3. \A a \in Blocks : buf_hash'[Bucket(a[2])] # nil => IdentityOf(buf_hash[Bucket(a[2])])' = a
    BY <1>1 DEF LInv, Located, IdentityOf
  <2> QED BY <1>1, <1>13, <1>20, <2>1, <2>2, <2>3 DEF LInv, Located
<1>22. UnusedFirst'
  BY <1>1, <1>20, UnusedSame
<1>23. ReadOnce'
  <2>1. \A r \in Slots, a \in Blocks : Filled(r, a)' <=> Filled(r, a)
    BY <1>1, <1>7, <1>13 DEF Filled
  <2> QED BY <1>1, <2>1 DEF LInv, ReadOnce
<1> QED BY <1>9, <1>11, <1>12, <1>17, <1>18, <1>19, <1>21, <1>22, <1>23 DEF LInv

LEMMA InitFits ==
  ASSUME Fits, Init
  PROVE  LInv
<1>1. /\ Devno = [s \in Slots |-> NO_DEV] /\ Blockno = [s \in Slots |-> 0]
      /\ Block = [s \in Slots |-> 0] /\ load = [s \in Slots |-> Idle] /\ waiting = [s \in Slots |-> <<>>]
      /\ pc = [c \in Clients |-> "idle"] /\ req = [c \in Clients |-> NoRequest]
      /\ awaits = [c \in Clients |-> c] /\ holds = [c \in Clients |-> Nothing] /\ cur \in Clients
      /\ server = "loop" /\ disk \in [Blocks -> Values] /\ latest = [b \in Blocks |-> nil]
      /\ buf_hash = [h \in 0 .. numhash - 1 |-> IF h = 0 THEN 0 ELSE nil] /\ b_hash = next
      /\ next = [s \in Slots |-> IF s = numslots - 1 THEN nil ELSE s + 1]
      /\ prev = [s \in Slots |-> IF s = 0 THEN nil ELSE s - 1]
      /\ front = 0 /\ rear = numslots - 1
  BY DEF Init
<1>2. /\ 0 \in Slots /\ numslots - 1 \in Slots /\ nil \notin Slots
      /\ \A s \in Slots : s # numslots - 1 => s + 1 \in Slots
      /\ \A s \in Slots : s # 0 => s - 1 \in Slots
  BY SlotsAssumption, NilIsNoSlot DEF Slots
<1>3. Idle \in Loads /\ Idle.stage = "off" /\ NoRequest.op = "none" /\ Nothing \in [slot : Links, block : Blocks \cup {NoBlock}]
  BY NilIsNoSlot DEF Idle, Loads, NoRequest, Request, Nothing
<1>4. Shape
  <2>1. Links = Slots \cup {nil} /\ 0 \in Values
    BY BlocksAssumption DEF Links
  <2> QED BY <1>1, <1>2, <1>3, <2>1 DEF Shape
<1>5. InTurn /\ Calling /\ AtHand
  BY <1>1, <1>3 DEF InTurn, Calling, AtHand
<1>6. HeldStored /\ OneWaits
  BY <1>1, <1>3 DEF HeldStored, OneWaits, Loading
<1>7. \A s \in Slots : IdentityOf(s) = NoBlock /\ ContentOf(s) = NoBlock
  <2>1. \A s \in Slots : IdentityOf(s) = NoBlock
    BY <1>1 DEF IdentityOf, NoBlock
  <2> QED BY <1>1, <1>3, <2>1 DEF ContentOf, Taken, Loading
<1>8. NoBlock \notin Blocks
  BY NoBlockIsNone
<1>9. Located
  <2>1. \A b \in Blocks : Bucket(b[2]) \in 0 .. numhash - 1 /\ Bucket(b[2]) # 0
    BY NoBlockIsNone, BucketsAre DEF Fits, Apart
  <2> QED BY <1>1, <1>3, <1>7, <1>8, <2>1 DEF Located, Begun
<1>10. UnusedFirst
  BY <1>1, <1>2, <1>7 DEF UnusedFirst, Unused
<1>11. ReadOnce
  BY <1>1, <1>7, <1>8 DEF ReadOnce, Filled
<1> QED BY <1>4, <1>5, <1>6, <1>9, <1>10, <1>11 DEF LInv

LEMMA StutterFits ==
  ASSUME LInv, UNCHANGED vars
  PROVE  LInv'
<1>1. /\ UNCHANGED <<Devno, Blockno, Block, lru, b_hash, buf_hash, disk, latest>>
      /\ UNCHANGED <<waiting, server, bp, cur, res, load, pc, req, awaits, holds>>
  BY DEF vars, bufs, hash, store, serverVars, clientVars
<1>2. Shape' /\ InTurn' /\ Calling'
  BY <1>1 DEF LInv, Shape, InTurn, Calling, lru
<1>3. AtHand' /\ HeldStored' /\ OneWaits'
  BY <1>1, StoredSame DEF LInv, AtHand, HeldStored, OneWaits, Given, ServedTo
<1>4. \A s \in Slots : ContentOf(s)' = ContentOf(s)
  BY <1>1 DEF ContentOf, Taken, Loading, IdentityOf
<1>5. UnusedFirst'
  <2>1. CASE server = "panicked"
    BY <1>1, <2>1 DEF UnusedFirst
  <2> QED BY <1>1, <1>4, <2>1, UnusedSame
<1> QED BY <1>1, <1>2, <1>3, <1>4, <1>5, LocatedSame, ReadSame DEF LInv

LEMMA NextFits ==
  ASSUME Fits, LInv, [Next]_vars
  PROVE  LInv'
<1>1. CASE UNCHANGED vars
  BY <1>1, StutterFits
<1>2. CASE Work
  BY <1>2, HitFits, UnhashFits, KeepFits DEF Work
<1>3. ASSUME NEW s \in Slots, Goroutine(s) PROVE LInv'
  BY <1>3, LoadBlockFits, RehashFits, ReadFits, WakeFits DEF Goroutine
<1>4. ASSUME NEW c \in Clients, Serve(c) PROVE LInv'
  BY <1>4, GetFits, PutFits, QuietFits, InvalidateFits DEF Serve
<1>5. ASSUME NEW c \in Clients,
             (\E r \in Requests : Call(c, r)) \/ (\E v \in Values : Modify(c, v)) \/ Reply(c)
      PROVE  LInv'
  BY <1>5, CallFits, ModifyFits, ReplyFits
<1> QED BY <1>1, <1>2, <1>3, <1>4, <1>5 DEF Next

\* No change is lost and none is read that was not made, whoever makes it, if the cache
\* never evicts a block, though it hands blocks to several clients and counts them wrongly.
THEOREM KeepsLatest == Fits => (Spec => []LatestKept)
<1> SUFFICES ASSUME Fits PROVE Spec => []LatestKept
  OBVIOUS
<1>1. LInv => LatestKept
  <2> SUFFICES ASSUME LInv, NEW s \in Slots, IdentityOf(s) \in Blocks, ~Taken(s)
               PROVE  Block[s] = latest[IdentityOf(s)]
    BY DEF LatestKept
  <2>1. Filled(s, IdentityOf(s))
    BY StagesAre DEF Filled, Taken
  <2> QED BY <2>1 DEF LInv, ReadOnce
<1>2. Init => LInv
  BY InitFits
<1>3. LInv /\ [Next]_vars => LInv'
  BY NextFits
<1> QED BY <1>1, <1>2, <1>3, PTL DEF Spec
=============================================================================
