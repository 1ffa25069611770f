---------------------------- MODULE DinodeProofs ----------------------------
(***************************************************************************)
(* Proofs about the directory server: for every number of clients, size of  *)
(* blocks and directories, and set of entries, whatever disk and inode      *)
(* cache fail at, a search sees one version of the directory, LookupGet     *)
(* fetches an inode that still has its entry, and the server implements the *)
(* atomic directory its interface promises.                                 *)
(***************************************************************************)
EXTENDS Dinode, FiniteSetTheorems, WellFoundedInduction, SequenceTheorems, TLAPS

USE SlotsAssumption, EntriesAssumption, CallsAssumption
    DEF SlotsAssumption, EntriesAssumption, CallsAssumption

SearchOps == {"lookup", "lookupGet", "isEmpty"}
UpdateOps == {"link", "unlink"}

\* The server is busy with one request: that of the client that is receiving.
OneCaller ==
  /\ \A c, d \in Clients : pc[c] = "receiving" /\ pc[d] = "receiving" => c = d
  /\ server \in {"wait", "search", "reply"} <=> \E c \in Clients : pc[c] = "receiving"

ServesCaller ==
  \A c \in Clients : pc[c] = "receiving" =>
    /\ server = "wait" => req[c].op \in UpdateOps \cup {"close"}
    /\ server = "search" => req[c].op \in UpdateOps
    /\ server = "reply" => res.op = IF req[c].op \in SearchOps THEN "async" ELSE req[c].op

RequestsMatch ==
  \A c \in Clients :
    /\ pc[c] \in {"idle", "gone"} <=> req[c] = NoRequest
    /\ pc[c] = "awaiting" => req[c].op \in SearchOps
    /\ pc[c] # "awaiting" => search[c] = NoSearch
    /\ search[c].stage = "none" => search[c] = NoSearch
    /\ search[c].stage = "get" => req[c].op = "lookupGet"

\* The wait group counts the searches whose goroutine runs or is about to.
Counted ==
  \A c \in Clients :
    c \in waitGroup <=>
      pc[c] = "awaiting" \/ (pc[c] = "receiving" /\ req[c].op \in SearchOps)

NoSearchDuringUpdate == server = "search" => waitGroup = {}

IInv ==
  /\ TypeOK
  /\ OneCaller
  /\ ServesCaller
  /\ RequestsMatch
  /\ Counted
  /\ NoSearchDuringUpdate
  /\ SearchSeesStableDirectory
  /\ InodeGotIsLinked
-----------------------------------------------------------------------------
(* Slots and blocks *)

\* First is the least element.
LEMMA FirstIsLeast ==
  ASSUME NEW is \in SUBSET Nat, is # {}
  PROVE  First(is) \in is /\ \A j \in is : First(is) <= j
<1> DEFINE R == {p \in Nat \X Nat : p[1] < p[2]}
<1>1. IsWellFoundedOn(R, Nat)
  <2>1. R = OpToRel(<, Nat)
    BY DEF OpToRel
  <2> QED
    BY <2>1, NatLessThanWellFounded
<1>2. PICK i \in is : \A j \in is : ~(<<j, i>> \in R)
  BY <1>1, WFMin
<1>3. \A j \in is : i <= j
  <2> SUFFICES ASSUME NEW j \in is, j < i PROVE FALSE
    OBVIOUS
  <2>1. <<j, i>> \in R
    OBVIOUS
  <2> QED
    BY <1>2, <2>1
<1> QED
  BY <1>3 DEF First

\* A block that has slots has a smaller number than the directory slots.
LEMMA BlockBound ==
  ASSUME NEW b \in Nat, NEW n \in Nat, b * SlotsPerBlock < n
  PROVE  b + 1 <= n
<1>1. b * SlotsPerBlock >= b
  <2>1. PICK k \in Nat : SlotsPerBlock = k + 1
    <3>1. SlotsPerBlock - 1 \in Nat /\ SlotsPerBlock = (SlotsPerBlock - 1) + 1
      OBVIOUS
    <3> QED
      BY <3>1
  <2>2. b * (k + 1) = b * k + b /\ b * k \in Nat
    OBVIOUS
  <2> QED
    BY <2>1, <2>2
<1>2. b * SlotsPerBlock \in Nat
  OBVIOUS
<1> QED
  BY <1>1, <1>2

\* The slots of a block are those from block * SlotsPerBlock + 1 on.
LEMMA BlockOfSlot ==
  ASSUME NEW i \in Nat \ {0}
  PROVE  /\ BlockOf(i) \in Nat
         /\ BlockOf(i) * SlotsPerBlock <= i - 1
         /\ i - 1 < BlockOf(i) * SlotsPerBlock + SlotsPerBlock
         /\ (i - 1) % SlotsPerBlock = (i - 1) - BlockOf(i) * SlotsPerBlock
BY DEF BlockOf

\* Used slots hold entries.
LEMMA UsedIsEntry ==
  ASSUME TypeOK, NEW i \in 1 .. Len(slots), IsUsed(i)
  PROVE  slots[i] \in Entries /\ slots[i].inum # 0
BY ElementOfSeq DEF TypeOK, IsUsed

LEMMA HitsAreSlots ==
  ASSUME NEW r, NEW b, NEW old \in Nat
  PROVE  Hits(r, b, old) \in SUBSET (1 .. old) /\ Hits(r, b, old) \in SUBSET Nat
BY DEF Hits

LEMMA RequestFacts ==
  ASSUME NEW r \in Requests
  PROVE  /\ r # NoRequest
         /\ r.op \in SearchOps \cup UpdateOps \cup {"lock", "unlock", "close"}
         /\ r.op = "link" => [name |-> r.name, inum |-> r.inum] \in Entries
<1>1. CASE r \in Searches
  BY <1>1 DEF Searches, NoRequest, SearchOps
<1>2. CASE r \in Updates
  BY <1>2 DEF Updates, NoRequest, UpdateOps
<1>3. CASE r \notin Searches \cup Updates
  BY <1>3 DEF Requests, NoRequest
<1> QED
  BY <1>1, <1>2, <1>3

\* The request in hand is that of the one client that is receiving.
LEMMA CurrentRequest ==
  ASSUME IInv, NEW c \in Clients, pc[c] = "receiving"
  PROVE  Request = req[c] /\ req[c] \in Requests
<1>1. (CHOOSE d \in Clients : pc[d] = "receiving") = c
  BY DEF IInv, OneCaller
<1>2. req[c] \in Requests
  BY DEF IInv, RequestsMatch, TypeOK
<1> QED
  BY <1>1, <1>2 DEF Request
-----------------------------------------------------------------------------
(* Steps *)

SearchStates == [stage : {"none", "blocks", "get", "done"}, old : 0 .. MaxSlots,
                 block : 0 .. MaxSlots, ok : BOOLEAN, inum : Inums \cup {0}]

LEMMA NoSearchType == NoSearch \in SearchStates
BY DEF NoSearch, SearchStates

LEMMA InitEstablishes == Init => IInv
<1> SUFFICES ASSUME Init PROVE IInv
  OBVIOUS
<1>1. TypeOK
  <2>1. slots \in Seq(Entries \cup {Free}) /\ Len(slots) <= MaxSlots
    <3>1. PICK n \in 0 .. MaxSlots : slots \in [1 .. n -> Entries \cup {Free}]
      BY DEF Init
    <3>2. slots \in Seq(Entries \cup {Free})
      BY <3>1, SeqDef
    <3>3. Len(slots) = n
      BY <3>1, <3>2, LenProperties
    <3> QED
      BY <3>2, <3>3
  <2>2. search \in [Clients -> SearchStates]
    BY NoSearchType DEF Init
  <2>3. res \in Responses
    BY DEF Init, NoResponse, Responses
  <2>4. locked = FALSE /\ server = "loop" /\ at = 0 /\ waitGroup = {}
    BY DEF Init
  <2>5. /\ pc \in [Clients -> {"idle"}] /\ req \in [Clients -> {NoRequest}]
        /\ iface \in [Clients -> {"public"}]
    BY DEF Init
  <2>6. /\ pc \in [Clients -> {"idle", "sending", "receiving", "awaiting", "gone"}]
        /\ req \in [Clients -> Requests \cup {NoRequest}]
        /\ iface \in [Clients -> {"public", "private"}]
    BY <2>5
  <2>7. /\ locked \in BOOLEAN /\ waitGroup \subseteq Clients
        /\ server \in {"loop", "wait", "search", "reply", "panicked"}
    BY <2>4, Zenon
  <2>8. at \in 0 .. MaxSlots
    BY <2>4
  <2> QED
    BY <2>1, <2>2, <2>3, <2>6, <2>7, <2>8, Zenon DEF TypeOK, SearchStates
<1>2. OneCaller /\ ServesCaller /\ RequestsMatch /\ Counted
  BY DEF Init, OneCaller, ServesCaller, RequestsMatch, Counted, NoSearch
<1>3. NoSearchDuringUpdate /\ SearchSeesStableDirectory /\ InodeGotIsLinked
  BY DEF Init, NoSearchDuringUpdate, SearchSeesStableDirectory, InodeGotIsLinked
<1> QED
  BY <1>1, <1>2, <1>3 DEF IInv

\* A step that leaves the directory and the searches as they are, and every
\* client that awaits a search where it is, disturbs no search.
LEMMA SearchesUndisturbed ==
  ASSUME IInv, UNCHANGED <<slots, search>>,
         \A c \in Clients : pc'[c] = "awaiting" /\ search[c].stage # "none" =>
                              pc[c] = "awaiting" /\ req'[c] = req[c]
  PROVE  SearchSeesStableDirectory' /\ InodeGotIsLinked'
<1>1. SearchSeesStableDirectory'
  BY DEF IInv, SearchSeesStableDirectory, Hits, IsUsed
<1>2. InodeGotIsLinked'
  BY DEF IInv, InodeGotIsLinked
<1> QED
  BY <1>1, <1>2

LEMMA CallPreserves ==
  ASSUME IInv, NEW c \in Clients, NEW r \in Calls, Call(c, r)
  PROVE  IInv'
<1> USE DEF Call, serverVars
<1>1. r \in Requests /\ r # NoRequest
  BY RequestFacts
<1>2. TypeOK'
  BY <1>1 DEF IInv, TypeOK
<1>3. OneCaller' /\ ServesCaller'
  BY DEF IInv, OneCaller, ServesCaller, TypeOK
<1>4. RequestsMatch'
  <2>1. search[c].stage # "get"
    BY DEF IInv, RequestsMatch, NoSearch
  <2> QED
    BY <1>1, <2>1 DEF IInv, RequestsMatch, TypeOK
<1>5. Counted' /\ NoSearchDuringUpdate'
  BY DEF IInv, Counted, NoSearchDuringUpdate, TypeOK
<1>6. SearchSeesStableDirectory' /\ InodeGotIsLinked'
  BY SearchesUndisturbed DEF IInv, TypeOK
<1> QED
  BY <1>2, <1>3, <1>4, <1>5, <1>6 DEF IInv

\* What the four kinds of requests have in common.
LEMMA ReceivePreserves ==
  ASSUME IInv, NEW c \in Clients, NEW op, Receive(c, op),
         server' \in {"wait", "reply"}
  PROVE  /\ OneCaller' /\ RequestsMatch' /\ NoSearchDuringUpdate'
         /\ SearchSeesStableDirectory' /\ InodeGotIsLinked'
         /\ \A d \in Clients : pc'[d] = "receiving" <=> d = c
         /\ \A d \in Clients : d # c => pc'[d] = pc[d]
<1> USE DEF Receive
<1>1. \A d \in Clients : pc[d] # "receiving"
  BY DEF IInv, OneCaller
<1>2. pc' = [pc EXCEPT ![c] = "receiving"] /\ pc \in [Clients -> {"idle", "sending", "receiving", "awaiting", "gone"}]
  BY DEF IInv, TypeOK
<1>3. \A d \in Clients : (pc'[d] = "receiving" <=> d = c) /\ (d # c => pc'[d] = pc[d])
  BY <1>1, <1>2
<1>4. OneCaller'
  BY <1>3 DEF OneCaller
<1>5. RequestsMatch'
  BY <1>3 DEF IInv, RequestsMatch
<1>6. NoSearchDuringUpdate'
  BY DEF NoSearchDuringUpdate
<1>7. SearchSeesStableDirectory' /\ InodeGotIsLinked'
  BY <1>3, SearchesUndisturbed
<1> QED
  BY <1>3, <1>4, <1>5, <1>6, <1>7

LEMMA SearchRequestPreserves ==
  ASSUME IInv, NEW c \in Clients, SearchRequest(c)
  PROVE  IInv'
<1> USE DEF SearchRequest, Respond
<1>1. PICK op \in SearchOps : Receive(c, op)
  BY DEF SearchOps
<1>2. req[c].op = op /\ UNCHANGED <<slots, req, iface, search, at, locked>>
  BY <1>1 DEF Receive
<1>3. /\ OneCaller' /\ RequestsMatch' /\ NoSearchDuringUpdate'
      /\ SearchSeesStableDirectory' /\ InodeGotIsLinked'
      /\ \A d \in Clients : pc'[d] = "receiving" <=> d = c
      /\ \A d \in Clients : d # c => pc'[d] = pc[d]
  BY <1>1, ReceivePreserves
<1>4. TypeOK'
  <2>1. [op |-> "async", ok |-> TRUE] \in Responses
    BY DEF Responses
  <2> QED
    BY <1>1, <1>2, <2>1 DEF IInv, TypeOK, Receive
<1>5. ServesCaller'
  BY <1>2, <1>3 DEF ServesCaller
<1>6. Counted'
  BY <1>2, <1>3 DEF IInv, Counted, OneCaller, Receive
<1> QED
  BY <1>3, <1>4, <1>5, <1>6 DEF IInv

LEMMA WaitRequestPreserves ==
  ASSUME IInv, NEW c \in Clients, WaitRequest(c)
  PROVE  IInv'
<1> USE DEF WaitRequest
<1>1. PICK op \in UpdateOps \cup {"close"} : Receive(c, op)
  BY DEF UpdateOps
<1>2. req[c].op = op /\ UNCHANGED <<slots, req, iface, search, at, locked, res, waitGroup>>
  BY <1>1 DEF Receive
<1>3. /\ OneCaller' /\ RequestsMatch' /\ NoSearchDuringUpdate'
      /\ SearchSeesStableDirectory' /\ InodeGotIsLinked'
      /\ \A d \in Clients : pc'[d] = "receiving" <=> d = c
      /\ \A d \in Clients : d # c => pc'[d] = pc[d]
  BY <1>1, ReceivePreserves
<1>4. TypeOK'
  BY <1>1, <1>2 DEF IInv, TypeOK, Receive
<1>5. ServesCaller'
  BY <1>2, <1>3 DEF ServesCaller
<1>6. Counted'
  BY <1>1, <1>2, <1>3 DEF IInv, Counted, Receive, UpdateOps, SearchOps, OneCaller
<1> QED
  BY <1>3, <1>4, <1>5, <1>6 DEF IInv

LEMMA LockRequestPreserves ==
  ASSUME IInv, NEW c \in Clients, LockRequest(c) \/ UnlockRequest(c)
  PROVE  IInv'
<1> USE DEF LockRequest, UnlockRequest, Respond
<1>1. PICK op \in {"lock", "unlock"} : Receive(c, op) /\ \E ok : res' = [op |-> op, ok |-> ok]
  OBVIOUS
<1>2. req[c].op = op /\ UNCHANGED <<slots, req, iface, search, at, waitGroup>>
  BY <1>1 DEF Receive
<1>3. /\ OneCaller' /\ RequestsMatch' /\ NoSearchDuringUpdate'
      /\ SearchSeesStableDirectory' /\ InodeGotIsLinked'
      /\ \A d \in Clients : pc'[d] = "receiving" <=> d = c
      /\ \A d \in Clients : d # c => pc'[d] = pc[d]
  BY <1>1, ReceivePreserves
<1>4. TypeOK'
  <2>1. locked = TRUE \/ locked = FALSE
    BY DEF IInv, TypeOK
  <2>2. res' \in Responses
    <3>1. CASE LockRequest(c)
      BY <2>1, <3>1 DEF Responses
    <3>2. CASE UnlockRequest(c)
      BY <2>1, <3>2 DEF Responses
    <3> QED
      BY <3>1, <3>2
  <2>3. locked' = TRUE \/ locked' = FALSE
    BY <2>1
  <2> QED
    BY <1>1, <1>2, <2>2, <2>3 DEF IInv, TypeOK, Receive
<1>5. ServesCaller'
  BY <1>1, <1>2, <1>3 DEF ServesCaller, SearchOps
<1>6. Counted'
  BY <1>1, <1>2, <1>3 DEF IInv, Counted, Receive, SearchOps, OneCaller
<1> QED
  BY <1>3, <1>4, <1>5, <1>6 DEF IInv

\* A step of Link or Unlink, on the next block or the last one: nobody searches.
LEMMA UpdatePreserves ==
  ASSUME IInv, server = "search",
         slots' \in Seq(Entries \cup {Free}), Len(slots') <= MaxSlots,
         UNCHANGED <<locked, waitGroup, clientVars>>,
         \/ at' \in 0 .. MaxSlots /\ UNCHANGED <<server, res>>
         \/ \E ok \in BOOLEAN : Finish(ok)
  PROVE  IInv'
<1> USE DEF clientVars
<1>1. PICK c \in Clients : pc[c] = "receiving"
  BY DEF IInv, OneCaller
<1>2. req[c].op \in UpdateOps /\ Request = req[c]
  BY <1>1, CurrentRequest DEF IInv, ServesCaller
<1>3. \A d \in Clients : pc[d] = "receiving" => d = c
  BY <1>1 DEF IInv, OneCaller
<1>4. \A d \in Clients : pc[d] # "awaiting"
  BY DEF IInv, Counted, NoSearchDuringUpdate
<1>5. RequestsMatch' /\ Counted' /\ SearchSeesStableDirectory' /\ InodeGotIsLinked'
  BY <1>4 DEF IInv, RequestsMatch, Counted, SearchSeesStableDirectory, InodeGotIsLinked
<1>6. CASE at' \in 0 .. MaxSlots /\ UNCHANGED <<server, res>>
  <2>1. TypeOK'
    BY <1>6 DEF IInv, TypeOK
  <2>2. OneCaller' /\ ServesCaller' /\ NoSearchDuringUpdate'
    BY <1>6 DEF IInv, OneCaller, ServesCaller, NoSearchDuringUpdate
  <2> QED
    BY <1>5, <2>1, <2>2 DEF IInv
<1>7. CASE \E ok \in BOOLEAN : Finish(ok)
  <2>1. PICK ok \in BOOLEAN : server' = "reply" /\ res' = [op |-> req[c].op, ok |-> ok] /\ at' = 0
    BY <1>2, <1>7 DEF Finish, Respond
  <2>2. res' \in Responses
    BY <1>2, <2>1 DEF Responses, UpdateOps
  <2>3. TypeOK'
    BY <2>1, <2>2 DEF IInv, TypeOK
  <2>4. OneCaller' /\ NoSearchDuringUpdate'
    BY <1>1, <2>1 DEF IInv, OneCaller, NoSearchDuringUpdate
  <2>5. ServesCaller'
    BY <1>2, <1>3, <2>1 DEF ServesCaller, UpdateOps, SearchOps
  <2> QED
    BY <1>5, <2>3, <2>4, <2>5 DEF IInv
<1> QED
  BY <1>6, <1>7

LEMMA NextBlockPreserves ==
  ASSUME IInv, server = "search", More(at), NextBlock
  PROVE  IInv'
<1>1. at \in Nat /\ Len(slots) \in Nat /\ Len(slots) <= MaxSlots
  BY LenProperties DEF IInv, TypeOK
<1>2. at + 1 <= Len(slots)
  BY <1>1, BlockBound DEF More
<1>3. at' \in 0 .. MaxSlots
  BY <1>1, <1>2 DEF NextBlock
<1> QED
  BY <1>3, UpdatePreserves DEF NextBlock, IInv, TypeOK

\* Entering an entry in a slot, or behind the last one.
LEMMA PutType ==
  ASSUME IInv, server = "search", Request.op = "link",
         NEW i \in 1 .. Len(slots) + 1, i <= MaxSlots, Put(i)
  PROVE  slots' \in Seq(Entries \cup {Free}) /\ Len(slots') <= MaxSlots
<1> DEFINE n == IF i > Len(slots) THEN i ELSE Len(slots)
           entry == [name |-> Request.name, inum |-> Request.inum]
<1>1. PICK c \in Clients : pc[c] = "receiving"
  BY DEF IInv, OneCaller
<1>2. entry \in Entries
  BY <1>1, CurrentRequest, RequestFacts
<1>3. n \in Nat /\ n <= MaxSlots
  BY LenProperties DEF IInv, TypeOK
<1>4. \A j \in 1 .. n : j # i => j \in 1 .. Len(slots)
  BY LenProperties DEF IInv, TypeOK
<1>5. \A j \in 1 .. Len(slots) : slots[j] \in Entries \cup {Free}
  BY ElementOfSeq DEF IInv, TypeOK
<1> HIDE DEF n, entry
<1>6. slots' = [j \in 1 .. n |-> IF j = i THEN entry ELSE slots[j]]
  BY DEF Put, n, entry
<1>7. slots' \in [1 .. n -> Entries \cup {Free}]
  BY <1>2, <1>4, <1>5, <1>6
<1>8. slots' \in Seq(Entries \cup {Free})
  BY <1>3, <1>7, SeqDef
<1>9. Len(slots') = n
  BY <1>3, <1>7, <1>8, LenProperties
<1> QED
  BY <1>3, <1>8, <1>9

\* There is room for one more slot in a block that is not full.
LEMMA RoomInDirectory ==
  ASSUME TypeOK, More(at), NEW i \in Room(at)
  PROVE  i \in 1 .. Len(slots) + 1 /\ i <= MaxSlots
<1> DEFINE n == Len(slots)
<1>1. n \in Nat /\ n <= MaxSlots /\ at \in Nat
  BY LenProperties DEF TypeOK
<1>2. i \in 1 .. n + 1 /\ BlockOf(i) = at
  BY DEF Room
<1>3. CASE i <= n
  BY <1>1, <1>2, <1>3
<1>4. CASE i = n + 1
  <2>1. n % SlotsPerBlock = n - at * SlotsPerBlock
    BY <1>1, <1>2, <1>4, BlockOfSlot
  <2>2. n - at * SlotsPerBlock > 0
    BY <1>1 DEF More
  <2>3. n # MaxSlots
    BY <2>1, <2>2
  <2> QED
    BY <1>1, <1>2, <1>4, <2>3
<1> QED
  BY <1>1, <1>2, <1>3, <1>4

LEMMA DeleteBlockPreserves ==
  ASSUME IInv, DeleteBlock
  PROVE  IInv'
<1> DEFINE hits == Hits(Request, at, Len(slots))
<1>1. CASE hits = {}
  BY <1>1, NextBlockPreserves DEF DeleteBlock
<1>2. CASE hits # {}
  <2>1. Len(slots) \in Nat /\ slots \in Seq(Entries \cup {Free}) /\ Len(slots) <= MaxSlots
    BY LenProperties DEF IInv, TypeOK
  <2>2. First(hits) \in 1 .. Len(slots)
    BY <1>2, <2>1, HitsAreSlots, FirstIsLeast
  <2>3. slots' = [slots EXCEPT ![First(hits)] = Free]
    BY <1>2 DEF DeleteBlock, Erase
  <2>4. slots' \in Seq(Entries \cup {Free}) /\ Len(slots') = Len(slots)
    BY <2>1, <2>2, <2>3, ExceptSeq
  <2>5. Finish(TRUE) /\ server = "search"
    BY <1>2 DEF DeleteBlock
  <2> QED
    BY <2>1, <2>4, <2>5, UpdatePreserves DEF Finish
<1> QED
  BY <1>1, <1>2

LEMMA NotFoundPreserves ==
  ASSUME IInv, NotFound
  PROVE  IInv'
BY UpdatePreserves DEF NotFound, Finish, IInv, TypeOK

LEMMA EnterBlockPreserves ==
  ASSUME IInv, EnterBlock
  PROVE  IInv'
<1>1. CASE Room(at) = {}
  BY <1>1, NextBlockPreserves DEF EnterBlock
<1>2. CASE Room(at) # {}
  <2>1. Room(at) \in SUBSET Nat
    BY DEF Room
  <2>2. First(Room(at)) \in Room(at)
    BY <1>2, <2>1, FirstIsLeast
  <2>3. First(Room(at)) \in 1 .. Len(slots) + 1 /\ First(Room(at)) <= MaxSlots
    BY <2>2, RoomInDirectory DEF EnterBlock, IInv
  <2>4. Put(First(Room(at))) /\ Finish(TRUE) /\ server = "search" /\ Request.op = "link"
    BY <1>2 DEF EnterBlock
  <2>5. slots' \in Seq(Entries \cup {Free}) /\ Len(slots') <= MaxSlots
    BY <2>3, <2>4, PutType
  <2> QED
    BY <2>4, <2>5, UpdatePreserves DEF Finish
<1> QED
  BY <1>1, <1>2

LEMMA ExtendPreserves ==
  ASSUME IInv, Extend
  PROVE  IInv'
<1>1. CASE Len(slots) < MaxSlots /\ Put(Len(slots) + 1) /\ Finish(TRUE)
  <2>1. Len(slots) + 1 \in 1 .. Len(slots) + 1 /\ Len(slots) + 1 <= MaxSlots
    BY <1>1, LenProperties DEF IInv, TypeOK
  <2>2. slots' \in Seq(Entries \cup {Free}) /\ Len(slots') <= MaxSlots
    BY <1>1, <2>1, PutType DEF Extend
  <2> QED
    BY <1>1, <2>2, UpdatePreserves DEF Extend, Finish
<1>2. CASE Finish(FALSE) /\ UNCHANGED slots
  BY <1>2, UpdatePreserves DEF Extend, Finish, IInv, TypeOK
<1> QED
  BY <1>1, <1>2 DEF Extend

\* A step of the server once the searches are over: an update begins, or Close is
\* answered.
LEMMA WaitedPreserves ==
  ASSUME IInv, StartUpdate \/ EndClose
  PROVE  IInv'
<1> USE DEF StartUpdate, EndClose, Waited, Respond, clientVars
<1>1. PICK c \in Clients : pc[c] = "receiving"
  BY DEF IInv, OneCaller
<1>2. Request = req[c] /\ UNCHANGED <<slots, locked, at, waitGroup, pc, req, iface, search>>
  BY <1>1, CurrentRequest
<1>3. \A d \in Clients : pc[d] = "receiving" => d = c
  BY <1>1 DEF IInv, OneCaller
<1>4. RequestsMatch' /\ Counted' /\ SearchSeesStableDirectory' /\ InodeGotIsLinked'
  BY <1>2, SearchesUndisturbed DEF IInv, RequestsMatch, Counted
<1>5. NoSearchDuringUpdate'
  BY <1>2 DEF NoSearchDuringUpdate
<1>6. CASE StartUpdate
  <2>1. server' = "search" /\ UNCHANGED res
    BY <1>6
  <2>2. TypeOK'
    BY <1>2, <2>1 DEF IInv, TypeOK
  <2>3. OneCaller'
    BY <1>1, <1>2, <2>1 DEF IInv, OneCaller
  <2>4. ServesCaller'
    BY <1>2, <1>3, <1>6 DEF ServesCaller, UpdateOps
  <2> QED
    BY <1>4, <1>5, <2>2, <2>3, <2>4 DEF IInv
<1>7. CASE EndClose
  <2>1. server' = "reply" /\ res' = [op |-> "close", ok |-> TRUE] /\ req[c].op = "close"
    BY <1>2, <1>7
  <2>2. res' \in Responses
    BY <2>1 DEF Responses
  <2>3. TypeOK'
    BY <1>2, <2>1, <2>2 DEF IInv, TypeOK
  <2>4. OneCaller'
    BY <1>1, <1>2, <2>1 DEF IInv, OneCaller
  <2>5. ServesCaller'
    BY <1>2, <1>3, <2>1 DEF ServesCaller, SearchOps
  <2> QED
    BY <1>4, <1>5, <2>3, <2>4, <2>5 DEF IInv
<1> QED
  BY <1>6, <1>7

LEMMA ReplyPreserves ==
  ASSUME IInv, NEW c \in Clients, Reply(c)
  PROVE  IInv'
<1> USE DEF Reply
<1> DEFINE next == CASE res.op = "async" -> "awaiting"
                     [] res.op = "close" -> "gone"
                     [] OTHER -> "idle"
<1>1. server = "reply" /\ pc[c] = "receiving" /\ req[c] \in Requests
      /\ UNCHANGED <<slots, locked, at, waitGroup, search>>
  BY DEF IInv, RequestsMatch, TypeOK
<1>2. res.op = IF req[c].op \in SearchOps THEN "async" ELSE req[c].op
  BY <1>1 DEF IInv, ServesCaller
<1>3. req[c].op \in SearchOps <=> res.op = "async"
  BY <1>1, <1>2, RequestFacts DEF SearchOps, UpdateOps
<1>4. next \in {"idle", "awaiting", "gone"} /\ (next = "awaiting" <=> res.op = "async")
  OBVIOUS
<1>5. pc' = [pc EXCEPT ![c] = next]
  BY Zenon
<1> HIDE DEF next
<1>6. /\ pc \in [Clients -> {"idle", "sending", "receiving", "awaiting", "gone"}]
      /\ req \in [Clients -> Requests \cup {NoRequest}]
      /\ iface \in [Clients -> {"public", "private"}]
  BY DEF IInv, TypeOK
<1>7. pc'[c] = next /\ \A d \in Clients : d # c => pc'[d] = pc[d] /\ req'[d] = req[d]
  BY <1>5, <1>6
<1>8. req'[c] = IF res.op = "async" THEN req[c] ELSE NoRequest
  BY <1>6
<1>9. TypeOK'
  <2>1. pc' \in [Clients -> {"idle", "sending", "receiving", "awaiting", "gone"}]
    BY <1>4, <1>5, <1>6
  <2>2. req' \in [Clients -> Requests \cup {NoRequest}]
    BY <1>6
  <2>3. iface' \in [Clients -> {"public", "private"}]
    BY <1>6
  <2>4. res' \in Responses
    BY DEF Responses, NoResponse
  <2>5. server' \in {"loop", "wait", "search", "reply", "panicked"}
    OBVIOUS
  <2> QED
    BY <1>1, <2>1, <2>2, <2>3, <2>4, <2>5 DEF IInv, TypeOK
<1>10. \A d \in Clients : pc[d] = "receiving" => d = c
  BY <1>1 DEF IInv, OneCaller
<1>11. \A d \in Clients : pc'[d] # "receiving"
  BY <1>4, <1>7, <1>10
<1>12. OneCaller' /\ ServesCaller' /\ NoSearchDuringUpdate'
  BY <1>11 DEF OneCaller, ServesCaller, NoSearchDuringUpdate
<1>13. RequestsMatch'
  <2>1. search[c] = NoSearch /\ req[c] # NoRequest
    BY <1>1, RequestFacts DEF IInv, RequestsMatch
  <2>2. search[c].stage = "none"
    BY <2>1 DEF NoSearch
  <2>3. /\ pc'[c] \in {"idle", "gone"} <=> req'[c] = NoRequest
        /\ pc'[c] = "awaiting" => req'[c].op \in SearchOps
    BY <1>3, <1>4, <1>7, <1>8, <2>1
  <2> QED
    BY <1>1, <1>7, <2>1, <2>2, <2>3 DEF IInv, RequestsMatch
<1>14. Counted'
  BY <1>1, <1>3, <1>4, <1>7, <1>11 DEF IInv, Counted
<1>15. SearchSeesStableDirectory' /\ InodeGotIsLinked'
  <2>1. search[c].stage = "none"
    BY <1>1 DEF IInv, RequestsMatch, NoSearch
  <2> QED
    BY <1>1, <1>7, <2>1, SearchesUndisturbed
<1> QED
  BY <1>9, <1>12, <1>13, <1>14, <1>15 DEF IInv
-----------------------------------------------------------------------------
(* Steps of a search goroutine *)

LEMMA SearchUpdated ==
  ASSUME search \in [Clients -> SearchStates], NEW c \in Clients, NEW s \in SearchStates,
         search' = [search EXCEPT ![c] = s]
  PROVE  /\ search' \in [Clients -> SearchStates] /\ search'[c] = s
         /\ \A d \in Clients : d # c => search'[d] = search[d]
OBVIOUS

LEMMA BlocksState ==
  ASSUME NEW r \in SearchStates, NEW n \in 0 .. MaxSlots
  PROVE  [r EXCEPT !.stage = "blocks", !.old = n] \in SearchStates
BY DEF SearchStates

LEMMA AnswerState ==
  ASSUME NEW r \in SearchStates, NEW stage \in {"get", "done"}, NEW n \in 0 .. MaxSlots,
         NEW ok \in BOOLEAN, NEW inum \in Inums \cup {0}
  PROVE  [r EXCEPT !.stage = stage, !.old = n, !.block = n, !.ok = ok, !.inum = inum]
           \in SearchStates
BY DEF SearchStates

\* A step of one goroutine, before it answers the client, from what it makes of
\* its own state.
LEMMA GoroutinePreserves ==
  ASSUME IInv, NEW c \in Clients, pc[c] = "awaiting",
         UNCHANGED <<slots, serverVars, waitGroup, pc, req, iface>>,
         search' \in [Clients -> SearchStates],
         \A d \in Clients : d # c => search'[d] = search[d],
         search'[c].stage # "none",
         search'[c].stage = "get" => req[c].op = "lookupGet",
         search'[c].stage = "blocks" =>
           /\ search'[c].old = Len(slots)
           /\ \A b \in 0 .. search'[c].block - 1 : Hits(req[c], b, Len(slots)) = {},
         search'[c].stage = "get" =>
           [name |-> req[c].name, inum |-> search'[c].inum] \in {slots[i] : i \in 1 .. Len(slots)}
  PROVE  IInv'
<1> USE DEF serverVars
<1>1. TypeOK'
  BY DEF IInv, TypeOK, SearchStates
<1>2. OneCaller' /\ ServesCaller' /\ Counted' /\ NoSearchDuringUpdate'
  BY DEF IInv, OneCaller, ServesCaller, Counted, NoSearchDuringUpdate
<1>3. RequestsMatch'
  BY DEF IInv, RequestsMatch
<1>4. SearchSeesStableDirectory'
  <2> SUFFICES ASSUME NEW d \in Clients, pc[d] = "awaiting", search'[d].stage = "blocks"
               PROVE  /\ search'[d].old = Len(slots)
                      /\ \A b \in 0 .. search'[d].block - 1 : Hits(req[d], b, Len(slots)) = {}
    BY DEF SearchSeesStableDirectory, Hits, IsUsed
  <2>1. CASE d = c
    BY <2>1
  <2>2. CASE d # c
    BY <2>2 DEF IInv, SearchSeesStableDirectory
  <2> QED
    BY <2>1, <2>2
<1>5. InodeGotIsLinked'
  BY DEF IInv, InodeGotIsLinked
<1> QED
  BY <1>1, <1>2, <1>3, <1>4, <1>5 DEF IInv

LEMMA StartSearchPreserves ==
  ASSUME IInv, NEW c \in Clients, StartSearch(c)
  PROVE  IInv'
<1>1. search[c] = NoSearch /\ search \in [Clients -> SearchStates] /\ pc[c] = "awaiting"
  BY DEF StartSearch, Searching, IInv, RequestsMatch, TypeOK, SearchStates
<1>2. search[c].block = 0
  BY <1>1 DEF NoSearch
<1>3. Len(slots) \in 0 .. MaxSlots
  BY LenProperties DEF IInv, TypeOK
<1>4. search' = [search EXCEPT ![c].stage = "blocks", ![c].old = Len(slots)]
      /\ UNCHANGED <<slots, serverVars, waitGroup, pc, req, iface>>
  BY DEF StartSearch
<1>5. search' \in [Clients -> SearchStates] /\ \A d \in Clients : d # c => search'[d] = search[d]
  <2> DEFINE s == [search[c] EXCEPT !.stage = "blocks", !.old = Len(slots)]
  <2>1. s \in SearchStates
    BY <1>1, <1>3, BlocksState
  <2>2. search' = [search EXCEPT ![c] = s]
    BY <1>4
  <2> HIDE DEF s
  <2> QED
    BY <1>1, <2>1, <2>2, SearchUpdated
<1>6. search'[c].stage = "blocks" /\ search'[c].old = Len(slots) /\ search'[c].block = 0
  BY <1>1, <1>2, <1>4 DEF SearchStates
<1>7. \A b \in 0 .. search'[c].block - 1 : Hits(req[c], b, Len(slots)) = {}
  BY <1>6
<1> QED
  BY <1>1, <1>4, <1>5, <1>6, <1>7, GoroutinePreserves

\* What an answer leaves of the state of a search.
LEMMA AnswerPreserves ==
  ASSUME IInv, NEW c \in Clients, pc[c] = "awaiting",
         UNCHANGED <<slots, serverVars, waitGroup, pc, req, iface>>,
         NEW ok \in BOOLEAN, NEW inum \in Inums \cup {0}, Answer(c, ok, inum),
         ok /\ req[c].op = "lookupGet" =>
           [name |-> req[c].name, inum |-> inum] \in {slots[i] : i \in 1 .. Len(slots)}
  PROVE  IInv'
<1> DEFINE stage == IF ok /\ req[c].op = "lookupGet" THEN "get" ELSE "done"
<1>1. search \in [Clients -> SearchStates]
  BY DEF IInv, TypeOK, SearchStates
<1>2. stage \in {"get", "done"} /\ (stage = "get" <=> ok /\ req[c].op = "lookupGet")
  OBVIOUS
<1>3. search' = [search EXCEPT ![c].stage = stage, ![c].old = 0, ![c].block = 0,
                               ![c].ok = ok, ![c].inum = inum]
  BY DEF Answer
<1> HIDE DEF stage
<1>5. search' \in [Clients -> SearchStates] /\ \A d \in Clients : d # c => search'[d] = search[d]
  <2> DEFINE s == [search[c] EXCEPT !.stage = stage, !.old = 0, !.block = 0,
                                    !.ok = ok, !.inum = inum]
  <2>1. 0 \in 0 .. MaxSlots /\ search[c] \in SearchStates /\ stage \in {"get", "done"}
    BY <1>1, <1>2
  <2>2. s \in SearchStates
    BY <2>1, AnswerState
  <2>3. search' = [search EXCEPT ![c] = s]
    BY <1>3
  <2> HIDE DEF s
  <2> QED
    BY <1>1, <2>2, <2>3, SearchUpdated
<1>6. search'[c].stage = stage /\ search'[c].inum = inum
  BY <1>1, <1>3 DEF SearchStates
<1> QED
  BY <1>2, <1>5, <1>6, GoroutinePreserves

LEMMA SearchBlockPreserves ==
  ASSUME IInv, NEW c \in Clients, SearchBlock(c)
  PROVE  IInv'
<1> DEFINE k == search[c].block
           hits == Hits(req[c], k, search[c].old)
<1>1. /\ pc[c] = "awaiting" /\ search[c].stage = "blocks" /\ More(k)
      /\ UNCHANGED <<slots, serverVars, waitGroup, pc, req, iface>>
  BY DEF SearchBlock, Searching
<1>2. search[c].old = Len(slots) /\ \A b \in 0 .. k - 1 : Hits(req[c], b, Len(slots)) = {}
  BY <1>1 DEF IInv, SearchSeesStableDirectory
<1>3. search \in [Clients -> SearchStates] /\ search[c] \in SearchStates
  BY DEF IInv, TypeOK, SearchStates
<1>4. Len(slots) \in Nat /\ Len(slots) <= MaxSlots /\ k \in Nat
  BY <1>3, LenProperties DEF IInv, TypeOK, SearchStates
<1>5. CASE hits = {}
  <2>1. search' = [search EXCEPT ![c].block = k + 1]
    BY <1>5 DEF SearchBlock
  <2>2. k + 1 <= Len(slots)
    BY <1>1, <1>4, BlockBound DEF More
  <2>3. search' \in [Clients -> SearchStates] /\ \A d \in Clients : d # c => search'[d] = search[d]
    <3> DEFINE s == [search[c] EXCEPT !.block = k + 1]
    <3>1. k + 1 \in 0 .. MaxSlots
      BY <1>4, <2>2
    <3>2. s \in SearchStates
      BY <1>3, <3>1 DEF SearchStates
    <3> HIDE DEF s
    <3>3. search' = [search EXCEPT ![c] = s]
      BY <2>1 DEF s
    <3> QED
      BY <1>3, <3>2, <3>3, SearchUpdated
  <2>4. search'[c].stage = "blocks" /\ search'[c].old = Len(slots) /\ search'[c].block = k + 1
    BY <1>1, <1>2, <1>3, <2>1 DEF SearchStates
  <2>5. \A b \in 0 .. k : Hits(req[c], b, Len(slots)) = {}
    <3> SUFFICES ASSUME NEW b \in 0 .. k PROVE Hits(req[c], b, Len(slots)) = {}
      OBVIOUS
    <3>1. b = k \/ b \in 0 .. k - 1
      BY <1>4
    <3> QED
      BY <1>2, <1>5, <3>1
  <2>6. \A b \in 0 .. search'[c].block - 1 : Hits(req[c], b, Len(slots)) = {}
    BY <1>4, <2>4, <2>5
  <2> QED
    BY <1>1, <2>3, <2>4, <2>6, GoroutinePreserves
<1>6. CASE hits # {} /\ req[c].op = "isEmpty"
  <2>1. Answer(c, FALSE, 0)
    BY <1>6 DEF SearchBlock
  <2> QED
    BY <1>1, <2>1, AnswerPreserves
<1>7. CASE hits # {} /\ req[c].op # "isEmpty"
  <2>1. Answer(c, TRUE, slots[First(hits)].inum)
    BY <1>7 DEF SearchBlock
  <2>2. First(hits) \in hits
    BY <1>2, <1>4, <1>7, HitsAreSlots, FirstIsLeast
  <2>3. /\ First(hits) \in 1 .. Len(slots) /\ IsUsed(First(hits))
        /\ slots[First(hits)].name = req[c].name
    BY <1>2, <1>7, <2>2 DEF Hits
  <2>4. slots[First(hits)] \in Entries
    BY <2>3, UsedIsEntry DEF IInv
  <2>5. slots[First(hits)].inum \in Inums
    BY <2>4 DEF Inums
  <2>6. [name |-> req[c].name, inum |-> slots[First(hits)].inum] = slots[First(hits)]
    BY <2>3, <2>4
  <2> QED
    BY <1>1, <2>1, <2>3, <2>5, <2>6, AnswerPreserves
<1> QED
  BY <1>5, <1>6, <1>7

LEMMA SearchEndsPreserves ==
  ASSUME IInv, NEW c \in Clients, SearchEnds(c)
  PROVE  IInv'
<1>1. /\ pc[c] = "awaiting" /\ Answer(c, req[c].op = "isEmpty", 0)
      /\ UNCHANGED <<slots, serverVars, waitGroup, pc, req, iface>>
  BY DEF SearchEnds, Searching
<1> QED
  BY <1>1, AnswerPreserves

LEMMA GetInodePreserves ==
  ASSUME IInv, NEW c \in Clients, GetInode(c)
  PROVE  IInv'
<1>1. /\ pc[c] = "awaiting"
      /\ UNCHANGED <<slots, serverVars, waitGroup, pc, req, iface>>
  BY DEF GetInode, Searching
<1>2. PICK ok \in BOOLEAN :
        search' = [search EXCEPT ![c].stage = "done", ![c].ok = ok,
                                 ![c].inum = IF ok THEN @ ELSE 0]
  BY DEF GetInode
<1>3. search \in [Clients -> SearchStates] /\ search[c] \in SearchStates
  BY DEF IInv, TypeOK, SearchStates
<1>4. ok = TRUE \/ ok = FALSE
  OBVIOUS
<1>5. search' \in [Clients -> SearchStates] /\ \A d \in Clients : d # c => search'[d] = search[d]
  BY <1>2, <1>3, <1>4 DEF SearchStates
<1>6. search'[c].stage = "done"
  BY <1>2, <1>3 DEF SearchStates
<1> QED
  BY <1>1, <1>5, <1>6, GoroutinePreserves

LEMMA EndSearchPreserves ==
  ASSUME IInv, NEW c \in Clients, EndSearch(c)
  PROVE  IInv'
<1> USE DEF EndSearch, Searching, Done, serverVars
<1>1. /\ pc \in [Clients -> {"idle", "sending", "receiving", "awaiting", "gone"}]
      /\ req \in [Clients -> Requests \cup {NoRequest}]
      /\ search \in [Clients -> SearchStates]
  BY DEF IInv, TypeOK, SearchStates
<1>2. /\ pc'[c] = "idle" /\ req'[c] = NoRequest /\ search'[c] = NoSearch
      /\ \A d \in Clients : d # c => pc'[d] = pc[d] /\ req'[d] = req[d] /\ search'[d] = search[d]
  BY <1>1
<1>3. TypeOK'
  <2>1. /\ pc' \in [Clients -> {"idle", "sending", "receiving", "awaiting", "gone"}]
        /\ req' \in [Clients -> Requests \cup {NoRequest}]
        /\ search' \in [Clients -> SearchStates]
    BY <1>1, NoSearchType
  <2>2. waitGroup' \subseteq Clients
    BY DEF IInv, TypeOK
  <2> QED
    BY <2>1, <2>2 DEF IInv, TypeOK, SearchStates
<1>4. OneCaller' /\ ServesCaller'
  BY <1>2 DEF IInv, OneCaller, ServesCaller
<1>5. NoSearchDuringUpdate'
  BY DEF IInv, NoSearchDuringUpdate
<1>6. RequestsMatch'
  BY <1>2 DEF IInv, RequestsMatch, NoSearch
<1>7. Counted'
  BY <1>2 DEF IInv, Counted
<1>8. SearchSeesStableDirectory'
  BY <1>2 DEF IInv, SearchSeesStableDirectory, Hits, IsUsed
<1>9. InodeGotIsLinked'
  BY <1>2 DEF IInv, InodeGotIsLinked
<1> QED
  BY <1>3, <1>4, <1>5, <1>6, <1>7, <1>8, <1>9 DEF IInv

LEMMA StutterPreserves == IInv /\ UNCHANGED vars => IInv'
BY DEF IInv, vars, serverVars, clientVars, TypeOK, OneCaller, ServesCaller, RequestsMatch,
       Counted, NoSearchDuringUpdate, SearchSeesStableDirectory, InodeGotIsLinked, Hits, IsUsed

LEMMA NextPreserves == IInv /\ [Next]_vars => IInv'
<1> SUFFICES ASSUME IInv, [Next]_vars PROVE IInv'
  OBVIOUS
<1>1. CASE Work
  BY <1>1, WaitedPreserves, DeleteBlockPreserves, NotFoundPreserves, EnterBlockPreserves,
     ExtendPreserves DEF Work
<1>2. CASE \E c \in Clients : \E r \in Calls : Call(c, r)
  BY <1>2, CallPreserves
<1>3. CASE \E c \in Clients : Serve(c)
  BY <1>3, SearchRequestPreserves, WaitRequestPreserves, LockRequestPreserves DEF Serve
<1>4. CASE \E c \in Clients : Reply(c)
  BY <1>4, ReplyPreserves
<1>5. CASE \E c \in Clients : Goroutine(c)
  BY <1>5, StartSearchPreserves, SearchBlockPreserves, SearchEndsPreserves, GetInodePreserves,
     EndSearchPreserves DEF Goroutine
<1>6. CASE UNCHANGED vars
  BY <1>6, StutterPreserves
<1> QED
  BY <1>1, <1>2, <1>3, <1>4, <1>5, <1>6 DEF Next
-----------------------------------------------------------------------------
LEMMA Invariance == Spec => []IInv
<1>1. IInv /\ [Next]_vars => IInv'
  BY NextPreserves
<1> QED
  BY InitEstablishes, <1>1, PTL DEF Spec

\* Every variable of the directory server keeps its shape, for any number of
\* clients and any size of a directory; a search never runs past the largest one.
THEOREM TypeCorrectness == Spec => []TypeOK
<1>1. IInv => TypeOK
  BY DEF IInv
<1> QED
  BY Invariance, <1>1, PTL

\* The wait group makes a search see one version of the directory: while it is
\* between two blocks, Link and Unlink change neither the blocks behind it nor the
\* size it began with.
THEOREM StableSearches == Spec => []SearchSeesStableDirectory
<1>1. IInv => SearchSeesStableDirectory
  BY DEF IInv
<1> QED
  BY Invariance, <1>1, PTL

\* LookupGet fetches an inode while an entry for it stands in the directory:
\* Unlink waits until the goroutine has it.
THEOREM InodesLinked == Spec => []InodeGotIsLinked
<1>1. IInv => InodeGotIsLinked
  BY DEF IInv
<1> QED
  BY Invariance, <1>1, PTL
-----------------------------------------------------------------------------
(* The refinement. *)

StageOf(c) == IF ~InDirectory(c) THEN "idle" ELSE IF Answered(c) THEN "answered" ELSE "asked"
AskOf(c) == IF InDirectory(c) THEN req[c] ELSE NoRequest
NoAnswer == [ok |-> FALSE, inum |-> 0]
AnswerOf(c) ==
  IF ~InDirectory(c) \/ ~Answered(c) THEN NoAnswer
  ELSE IF req[c].op \in UpdateOps THEN [ok |-> res.ok, inum |-> 0]
  ELSE [ok |-> search[c].ok, inum |-> search[c].inum]

\* The slots that hold an entry.
SlotsOf(e) == {i \in 1 .. Len(slots) : slots[i] = e}

\* LookupGet fetches the inode of an entry, not that of a free slot.
GetsEntry == \A c \in Clients : search[c].stage = "get" => search[c].inum # 0

\* Unlink begins at the first block, and has seen those behind it.
UnlinkSeesBlocks ==
  /\ server # "search" => at = 0
  /\ server = "search" /\ Request.op = "unlink" =>
       \A b \in 0 .. at - 1 : Hits(Request, b, Len(slots)) = {}

RInv == GetsEntry /\ UnlinkSeesBlocks

\* The state of client d's call in the atomic directory does not change.
Same(d) == StageOf(d)' = StageOf(d) /\ AskOf(d)' = AskOf(d) /\ AnswerOf(d)' = AnswerOf(d)

LEMMA Maps ==
  /\ Stages = [c \in Clients |-> StageOf(c)]
  /\ Asks = [c \in Clients |-> AskOf(c)]
  /\ Answers = [c \in Clients |-> AnswerOf(c)]
  /\ Entered = [e \in Entries |-> Cardinality(SlotsOf(e))]
BY DEF Stages, Asks, Answers, Entered, StageOf, AskOf, AnswerOf, NoAnswer, UpdateOps, SlotsOf

LEMMA MapsNext ==
  /\ Stages' = [c \in Clients |-> StageOf(c)']
  /\ Asks' = [c \in Clients |-> AskOf(c)']
  /\ Answers' = [c \in Clients |-> AnswerOf(c)']
  /\ Entered' = [e \in Entries |-> Cardinality(SlotsOf(e)')]
BY DEF Stages, Asks, Answers, Entered, StageOf, AskOf, AnswerOf, NoAnswer, UpdateOps, SlotsOf

LEMMA AllSame ==
  ASSUME \A d \in Clients : Same(d)
  PROVE  UNCHANGED <<Stages, Asks, Answers>>
BY Maps, MapsNext DEF Same

LEMMA OthersSame ==
  ASSUME NEW c \in Clients, \A d \in Clients \ {c} : Same(d)
  PROVE  /\ Stages' = [Stages EXCEPT ![c] = StageOf(c)'] /\ Stages[c] = StageOf(c)
         /\ Asks' = [Asks EXCEPT ![c] = AskOf(c)'] /\ Asks[c] = AskOf(c)
         /\ Answers' = [Answers EXCEPT ![c] = AnswerOf(c)']
BY Maps, MapsNext DEF Same

LEMMA SameEntries == ASSUME slots' = slots PROVE Entered' = Entered
BY DEF Entered

\* A client that a step leaves alone.
LEMMA Untouched ==
  ASSUME IInv, NEW d \in Clients, pc'[d] = pc[d], req'[d] = req[d], search'[d] = search[d],
         pc[d] = "receiving" => server' = server /\ res' = res
  PROVE  Same(d)
<1>1. InDirectory(d)' <=> InDirectory(d)
  BY DEF InDirectory
<1>2. CASE pc[d] = "receiving"
  <2>1. (Answered(d)' <=> Answered(d)) /\ res' = res
    BY <1>2 DEF Answered
  <2> QED
    BY <1>1, <2>1 DEF Same, StageOf, AskOf, AnswerOf, NoAnswer, NoRequest
<1>3. CASE pc[d] # "receiving"
  <2>1. Answered(d)' <=> Answered(d)
    BY <1>3 DEF Answered
  <2>2. Answered(d) => req[d].op \notin UpdateOps
    BY <1>3 DEF Answered, IInv, RequestsMatch, SearchOps, UpdateOps
  <2> QED
    BY <1>1, <2>1, <2>2 DEF Same, StageOf, AskOf, AnswerOf, NoAnswer, NoRequest
<1> QED
  BY <1>2, <1>3

\* A client whose call is not answered, before and after.
LEMMA StillAsked ==
  ASSUME NEW d \in Clients, req'[d] = req[d], ~Answered(d), ~Answered(d)'
  PROVE  Same(d)
<1>1. InDirectory(d)' <=> InDirectory(d)
  BY DEF InDirectory
<1> QED
  BY <1>1 DEF Same, StageOf, AskOf, AnswerOf, NoAnswer, NoRequest

\* A step that the atomic directory does not see.
LEMMA Stutter ==
  ASSUME \A d \in Clients : Same(d), slots' = slots
  PROVE  [A!Next]_A!vars
BY AllSame, SameEntries DEF A!vars
-----------------------------------------------------------------------------
(* What the number of the slots of an entry says. *)

LEMMA CountOfSlots ==
  ASSUME TypeOK, NEW e \in Entries
  PROVE  /\ IsFiniteSet(SlotsOf(e)) /\ Cardinality(SlotsOf(e)) \in 0 .. MaxSlots
         /\ Entered[e] = Cardinality(SlotsOf(e))
         /\ Entered[e] > 0 <=> \E i \in 1 .. Len(slots) : slots[i] = e
<1>1. Len(slots) \in Nat /\ Len(slots) <= MaxSlots
  BY LenProperties DEF TypeOK
<1>2. IsFiniteSet(1 .. Len(slots)) /\ Cardinality(1 .. Len(slots)) = Len(slots)
  <2> DEFINE n == Len(slots)
  <2>1. 1 \in Int /\ n \in Int
    BY <1>1
  <2>2. IsFiniteSet(1 .. n) /\ Cardinality(1 .. n) = IF 1 > n THEN 0 ELSE n - 1 + 1
    BY <2>1, FS_Interval
  <2> HIDE DEF n
  <2>3. n \in Nat => (IF 1 > n THEN 0 ELSE n - 1 + 1) = n
    OBVIOUS
  <2> QED
    BY <1>1, <2>2, <2>3 DEF n
<1>3. SlotsOf(e) \in SUBSET (1 .. Len(slots))
  BY DEF SlotsOf
<1>4. IsFiniteSet(SlotsOf(e)) /\ Cardinality(SlotsOf(e)) <= Len(slots)
  BY <1>2, <1>3, FS_Subset
<1>5. Cardinality(SlotsOf(e)) \in Nat
  BY <1>4, FS_CardinalityType
<1>6. Cardinality(SlotsOf(e)) = 0 <=> SlotsOf(e) = {}
  BY <1>4, FS_EmptySet
<1>7. SlotsOf(e) # {} <=> \E i \in 1 .. Len(slots) : slots[i] = e
  BY DEF SlotsOf
<1>8. Entered[e] = Cardinality(SlotsOf(e))
  BY DEF Entered, SlotsOf
<1> QED
  BY <1>1, <1>4, <1>5, <1>6, <1>7, <1>8

LEMMA EntryIsNotFree == ASSUME NEW e \in Entries PROVE e # Free
<1>1. e \in [name : STRING, inum : Nat \ {0}]
  OBVIOUS
<1>2. e.inum # 0 /\ Free.inum = 0
  BY <1>1 DEF Free
<1> QED
  BY <1>2

\* A search that is past the last block has seen every slot, so that what it looks
\* for is not in the directory.
LEMMA AllBlocksSeen ==
  ASSUME TypeOK, NEW r, NEW k \in 0 .. MaxSlots, ~More(k),
         \A b \in 0 .. k - 1 : Hits(r, b, Len(slots)) = {},
         NEW e \in Entries, Entered[e] > 0
  PROVE  IF r.op = "isEmpty" THEN e.name \in Dots ELSE e.name # r.name
<1>1. PICK i \in 1 .. Len(slots) : slots[i] = e
  BY CountOfSlots
<1>2. k \in Nat /\ Len(slots) \in Nat /\ i \in Nat \ {0} /\ i - 1 < Len(slots)
  BY LenProperties DEF TypeOK
<1>3. k * SlotsPerBlock >= Len(slots)
  <2>1. k * SlotsPerBlock \in Nat
    BY <1>2
  <2> QED
    BY <1>2, <2>1 DEF More
<1>4. BlockOf(i) \in Nat /\ BlockOf(i) * SlotsPerBlock <= i - 1
  BY <1>2, BlockOfSlot
<1>5. BlockOf(i) < k
  <2> SUFFICES ASSUME BlockOf(i) >= k PROVE FALSE
    BY <1>2, <1>4
  <2>1. BlockOf(i) * SlotsPerBlock >= k * SlotsPerBlock
    <3>1. BlockOf(i) = k + (BlockOf(i) - k) /\ BlockOf(i) - k \in Nat
      BY <1>2, <1>4
    <3>2. (BlockOf(i) - k) * SlotsPerBlock \in Nat
      BY <3>1
    <3>3. BlockOf(i) * SlotsPerBlock = k * SlotsPerBlock + (BlockOf(i) - k) * SlotsPerBlock
      BY <1>2, <1>4
    <3> QED
      BY <1>2, <3>2, <3>3
  <2> QED
    BY <1>2, <1>3, <1>4, <2>1
<1>6. i \notin Hits(r, BlockOf(i), Len(slots))
  BY <1>2, <1>4, <1>5
<1>7. e # Free
  BY EntryIsNotFree
<1> QED
  BY <1>1, <1>6, <1>7 DEF Hits, IsUsed
-----------------------------------------------------------------------------
(* One lemma per action. *)

LEMMA CallMaps ==
  ASSUME IInv, NEW c \in Clients, NEW r \in Calls, Call(c, r)
  PROVE  [A!Next]_A!vars
<1>1. /\ pc[c] = "idle" /\ pc' = [pc EXCEPT ![c] = "sending"] /\ req' = [req EXCEPT ![c] = r]
      /\ UNCHANGED <<slots, search, server, res>>
  BY DEF Call, serverVars
<1>2. /\ pc'[c] = "sending" /\ req'[c] = r /\ req[c] = NoRequest
      /\ \A d \in Clients \ {c} : pc'[d] = pc[d] /\ req'[d] = req[d]
  BY <1>1 DEF IInv, TypeOK, RequestsMatch
<1>3. \A d \in Clients \ {c} : Same(d)
  BY <1>1, <1>2, Untouched
<1>4. ~InDirectory(c) /\ ~Answered(c)'
  BY <1>2 DEF InDirectory, NoRequest, Answered
<1>5. /\ StageOf(c) = "idle" /\ AskOf(c) = NoRequest /\ AnswerOf(c) = NoAnswer
      /\ AnswerOf(c)' = NoAnswer
  BY <1>4 DEF StageOf, AskOf, AnswerOf
<1>6. CASE r.op \in SearchOps \cup UpdateOps
  <2>1. InDirectory(c)'
    BY <1>2, <1>6 DEF InDirectory, SearchOps, UpdateOps
  <2>2. StageOf(c)' = "asked" /\ AskOf(c)' = r
    BY <1>2, <1>4, <2>1 DEF StageOf, AskOf
  <2>3. r \in A!AllCalls
    <3>1. r \in Searches \cup Updates
      BY <1>6 DEF Requests, SearchOps, UpdateOps
    <3> QED
      BY <3>1 DEF Searches, Updates, Names, A!AllCalls, A!Names
  <2>4. Stages[c] = "idle" /\ Stages' = [Stages EXCEPT ![c] = "asked"]
        /\ Asks' = [Asks EXCEPT ![c] = r]
    BY <1>3, <1>5, <2>2, OthersSame
  <2>5. Answers' = Answers
    BY <1>3, <1>5, Maps, MapsNext DEF Same
  <2>6. A!Ask(c, r)
    BY <1>1, <2>4, <2>5, SameEntries DEF A!Ask
  <2> QED
    BY <2>3, <2>6 DEF A!Next
<1>7. CASE r.op \notin SearchOps \cup UpdateOps
  <2>1. ~InDirectory(c)'
    BY <1>2, <1>7, RequestFacts DEF InDirectory
  <2>2. Same(c)
    BY <1>4, <1>5, <2>1 DEF Same, StageOf, AskOf
  <2> QED
    BY <1>1, <1>3, <2>2, Stutter
<1> QED
  BY <1>6, <1>7

LEMMA ReceiveMaps ==
  ASSUME IInv, NEW c \in Clients, NEW op, Receive(c, op),
         server' = "reply" => res'.op \notin UpdateOps
  PROVE  [A!Next]_A!vars
<1>1. server = "loop" /\ pc[c] = "sending" /\ pc' = [pc EXCEPT ![c] = "receiving"]
      /\ UNCHANGED <<slots, req, search>>
  BY DEF Receive
<1>2. \A d \in Clients : pc[d] # "receiving"
  BY <1>1 DEF IInv, OneCaller
<1>3. pc'[c] = "receiving" /\ \A d \in Clients \ {c} : pc'[d] = pc[d]
  BY <1>1 DEF IInv, TypeOK
<1>4. ~Answered(c) /\ ~Answered(c)'
  BY <1>1, <1>3 DEF Answered, UpdateOps
<1>5. Same(c)
  BY <1>1, <1>4, StillAsked
<1>6. \A d \in Clients \ {c} : Same(d)
  BY <1>1, <1>2, <1>3, Untouched
<1> QED
  BY <1>1, <1>5, <1>6, Stutter

LEMMA ServeMaps ==
  ASSUME IInv, NEW c \in Clients, Serve(c)
  PROVE  [A!Next]_A!vars
<1>1. CASE SearchRequest(c)
  BY <1>1, ReceiveMaps DEF SearchRequest, Respond, UpdateOps
<1>2. CASE WaitRequest(c)
  BY <1>2, ReceiveMaps DEF WaitRequest
<1>3. CASE LockRequest(c)
  BY <1>3, ReceiveMaps DEF LockRequest, Respond, UpdateOps
<1>4. CASE UnlockRequest(c)
  BY <1>4, ReceiveMaps DEF UnlockRequest, Respond, UpdateOps
<1> QED
  BY <1>1, <1>2, <1>3, <1>4 DEF Serve

\* A call returns.
LEMMA ReturnMaps ==
  ASSUME NEW c \in Clients, StageOf(c) = "answered", req'[c] = NoRequest,
         \A d \in Clients \ {c} : Same(d), slots' = slots
  PROVE  A!Next
<1>1. StageOf(c)' = "idle" /\ AskOf(c)' = A!NoCall /\ AnswerOf(c)' = A!NoAnswer
  BY DEF StageOf, AskOf, AnswerOf, InDirectory, NoRequest, A!NoCall, NoAnswer, A!NoAnswer
<1>2. A!Return(c)
  BY <1>1, OthersSame, SameEntries DEF A!Return
<1> QED
  BY <1>2 DEF A!Next

LEMMA ReplyMaps ==
  ASSUME IInv, NEW c \in Clients, Reply(c)
  PROVE  [A!Next]_A!vars
<1>1. /\ server = "reply" /\ pc[c] = "receiving" /\ UNCHANGED <<slots, search>>
      /\ \/ /\ res.op = "async" /\ pc' = [pc EXCEPT ![c] = "awaiting"] /\ req' = req
         \/ /\ res.op # "async" /\ pc' \in {[pc EXCEPT ![c] = "idle"], [pc EXCEPT ![c] = "gone"]}
            /\ req' = [req EXCEPT ![c] = NoRequest]
  BY DEF Reply
<1>2. /\ req[c] \in Requests /\ \A d \in Clients \ {c} : pc[d] # "receiving"
      /\ res.op = IF req[c].op \in SearchOps THEN "async" ELSE req[c].op
  BY <1>1 DEF IInv, OneCaller, ServesCaller, RequestsMatch, TypeOK
<1>3. \A d \in Clients \ {c} : pc'[d] = pc[d] /\ req'[d] = req[d]
  BY <1>1 DEF IInv, TypeOK
<1>4. \A d \in Clients \ {c} : Same(d)
  BY <1>1, <1>2, <1>3, Untouched
<1>5. CASE res.op = "async"
  <2>1. req'[c] = req[c] /\ pc'[c] = "awaiting"
    BY <1>1, <1>5 DEF IInv, TypeOK
  <2>2. search'[c].stage = "none"
    BY <1>1 DEF IInv, RequestsMatch, NoSearch
  <2>3. ~Answered(c) /\ ~Answered(c)'
    BY <1>1, <1>5, <2>1, <2>2 DEF Answered
  <2> QED
    BY <1>1, <1>4, <2>1, <2>3, StillAsked, Stutter
<1>6. CASE res.op # "async"
  <2>1. req'[c] = NoRequest /\ res.op = req[c].op
    BY <1>1, <1>2, <1>6 DEF IInv, TypeOK
  <2>2. CASE res.op \in UpdateOps
    <3>1. StageOf(c) = "answered"
      BY <1>1, <2>1, <2>2 DEF StageOf, InDirectory, Answered, UpdateOps
    <3> QED
      BY <1>1, <1>4, <2>1, <3>1, ReturnMaps
  <2>3. CASE res.op \notin UpdateOps
    <3>1. ~InDirectory(c) /\ ~InDirectory(c)'
      <4>1. req[c].op \in {"lock", "unlock", "close"}
        BY <1>2, <1>6, <2>1, <2>3, RequestFacts
      <4> QED
        BY <2>1, <4>1 DEF InDirectory, NoRequest
    <3>2. Same(c)
      BY <3>1 DEF Same, StageOf, AskOf, AnswerOf, NoRequest, NoAnswer
    <3> QED
      BY <1>1, <1>4, <3>2, Stutter
  <2> QED
    BY <2>2, <2>3
<1> QED
  BY <1>5, <1>6

LEMMA EndSearchMaps ==
  ASSUME IInv, NEW c \in Clients, EndSearch(c)
  PROVE  A!Next
<1>1. /\ pc[c] = "awaiting" /\ search[c].stage = "done"
      /\ pc' = [pc EXCEPT ![c] = "idle"] /\ req' = [req EXCEPT ![c] = NoRequest]
      /\ search' = [search EXCEPT ![c] = NoSearch] /\ UNCHANGED <<slots, server, res>>
  BY DEF EndSearch, Searching, serverVars
<1>2. req'[c] = NoRequest /\ \A d \in Clients \ {c} :
         pc'[d] = pc[d] /\ req'[d] = req[d] /\ search'[d] = search[d]
  BY <1>1 DEF IInv, TypeOK
<1>3. \A d \in Clients \ {c} : Same(d)
  BY <1>1, <1>2, Untouched
<1>4. StageOf(c) = "answered"
  BY <1>1 DEF StageOf, InDirectory, Answered, IInv, RequestsMatch, SearchOps
<1> QED
  BY <1>1, <1>2, <1>3, <1>4, ReturnMaps
-----------------------------------------------------------------------------
(* Searches *)

\* A step of a goroutine that does not end the search.
LEMMA SearchGoesOn ==
  ASSUME IInv, NEW c \in Clients, pc[c] = "awaiting",
         search[c].stage # "done", search'[c].stage # "done",
         \A d \in Clients : d # c => search'[d] = search[d],
         UNCHANGED <<slots, serverVars, waitGroup, pc, req, iface>>
  PROVE  [A!Next]_A!vars
<1>1. \A d \in Clients \ {c} : Same(d)
  BY Untouched DEF serverVars
<1>2. ~Answered(c) /\ ~Answered(c)'
  BY DEF Answered
<1>3. Same(c)
  BY <1>2, StillAsked
<1> QED
  BY <1>1, <1>3, Stutter

\* A step that ends it takes effect in the atomic directory.
LEMMA SearchAnswers ==
  ASSUME IInv, NEW c \in Clients, pc[c] = "awaiting",
         search[c].stage # "done", search'[c].stage = "done",
         \A d \in Clients : d # c => search'[d] = search[d],
         UNCHANGED <<slots, serverVars, waitGroup, pc, req, iface>>
  PROVE  /\ A!Answer(c, req[c].op, [ok |-> search'[c].ok, inum |-> search'[c].inum])
         /\ Entered' = Entered /\ Asks[c] = req[c] /\ req[c].op \in SearchOps
<1>1. \A d \in Clients \ {c} : Same(d)
  BY Untouched DEF serverVars
<1>2. req[c].op \in SearchOps /\ req[c].op \notin UpdateOps
  BY DEF IInv, RequestsMatch, SearchOps, UpdateOps
<1>3. ~Answered(c) /\ Answered(c)' /\ InDirectory(c) /\ InDirectory(c)'
  BY <1>2 DEF Answered, InDirectory, SearchOps
<1>4. /\ StageOf(c) = "asked" /\ AskOf(c) = req[c]
      /\ StageOf(c)' = "answered" /\ AskOf(c)' = req[c]
      /\ AnswerOf(c)' = [ok |-> search'[c].ok, inum |-> search'[c].inum]
  BY <1>2, <1>3 DEF StageOf, AskOf, AnswerOf
<1>5. /\ Stages[c] = "asked" /\ Stages' = [Stages EXCEPT ![c] = "answered"]
      /\ Asks[c] = req[c]
      /\ Answers' = [Answers EXCEPT ![c] = [ok |-> search'[c].ok, inum |-> search'[c].inum]]
  BY <1>1, <1>4, OthersSame
<1>6. Asks' = Asks
  BY <1>1, <1>4, Maps, MapsNext DEF Same
<1> QED
  BY <1>2, <1>5, <1>6, SameEntries DEF A!Answer

\* What Answer leaves, read from the model.
LEMMA AnswerFields ==
  ASSUME IInv, NEW c \in Clients, NEW ok \in BOOLEAN, NEW inum \in Inums \cup {0},
         Answer(c, ok, inum)
  PROVE  /\ search'[c].stage = IF ok /\ req[c].op = "lookupGet" THEN "get" ELSE "done"
         /\ search'[c].ok = ok /\ search'[c].inum = inum
         /\ \A d \in Clients : d # c => search'[d] = search[d]
<1>1. search \in [Clients -> SearchStates]
  BY DEF IInv, TypeOK, SearchStates
<1>2. search'[c].stage = IF ok /\ req[c].op = "lookupGet" THEN "get" ELSE "done"
  BY <1>1 DEF Answer, SearchStates
<1>3. search'[c].ok = ok
  BY <1>1 DEF Answer, SearchStates
<1>4. search'[c].inum = inum
  BY <1>1 DEF Answer, SearchStates
<1>5. \A d \in Clients : d # c => search'[d] = search[d]
  BY <1>1 DEF Answer
<1> QED
  BY <1>2, <1>3, <1>4, <1>5

\* An entry in the directory that a lookup has found.
LEMMA FoundMaps ==
  ASSUME NEW c \in Clients, NEW op, NEW e \in Entries, Entered[e] > 0, Asks[c] = req[c],
         e.name = req[c].name,
         A!Answer(c, op, [ok |-> TRUE, inum |-> e.inum])
  PROVE  A!Found(c, op)
BY DEF A!Found, A!Named

LEMMA SearchBlockMaps ==
  ASSUME IInv, NEW c \in Clients, SearchBlock(c)
  PROVE  [A!Next]_A!vars
<1> DEFINE hits == Hits(req[c], search[c].block, search[c].old)
           f == First(hits)
<1>1. /\ pc[c] = "awaiting" /\ search[c].stage = "blocks"
      /\ UNCHANGED <<slots, serverVars, waitGroup, pc, req, iface>>
  BY DEF SearchBlock, Searching
<1>2. search[c].old = Len(slots) /\ Len(slots) \in Nat
  BY <1>1, LenProperties DEF IInv, SearchSeesStableDirectory, TypeOK
<1>3. CASE hits = {}
  <2>1. search' = [search EXCEPT ![c].block = @ + 1]
    BY <1>3 DEF SearchBlock
  <2>2. search \in [Clients -> SearchStates]
    BY DEF IInv, TypeOK, SearchStates
  <2>3. search'[c].stage = "blocks" /\ \A d \in Clients : d # c => search'[d] = search[d]
    BY <1>1, <2>1, <2>2 DEF SearchStates
  <2> QED
    BY <1>1, <2>3, SearchGoesOn
<1>4. CASE hits # {}
  <2>1. f \in hits
    BY <1>2, <1>4, HitsAreSlots, FirstIsLeast
  <2>2. /\ f \in 1 .. Len(slots) /\ IsUsed(f)
        /\ IF req[c].op = "isEmpty" THEN slots[f].name \notin Dots ELSE slots[f].name = req[c].name
    BY <1>2, <2>1 DEF Hits
  <2>3. slots[f] \in Entries
    BY <2>2, UsedIsEntry DEF IInv
  <2>4. Entered[slots[f]] > 0 /\ slots[f].inum \in Inums
    BY <2>2, <2>3, CountOfSlots DEF IInv, Inums
  <2>5. CASE req[c].op = "isEmpty"
    <3>1. Answer(c, FALSE, 0)
      BY <1>4, <2>5 DEF SearchBlock
    <3>2. search'[c].stage = "done" /\ search'[c].ok = FALSE /\ search'[c].inum = 0
          /\ \A d \in Clients : d # c => search'[d] = search[d]
      BY <3>1, AnswerFields
    <3>3. A!Answer(c, "isEmpty", [ok |-> FALSE, inum |-> 0]) /\ Entered' = Entered
      BY <1>1, <2>5, <3>2, SearchAnswers
    <3>4. (\A e \in Entries : Entered[e] > 0 => e.name \in Dots) = FALSE
      BY <2>2, <2>3, <2>4, <2>5
    <3>5. A!IsEmpty(c)
      BY <3>3, <3>4 DEF A!IsEmpty
    <3> QED
      BY <3>5 DEF A!Next
  <2>6. CASE req[c].op = "lookup"
    <3>1. Answer(c, TRUE, slots[f].inum)
      BY <1>4, <2>6 DEF SearchBlock
    <3>2. search'[c].stage = "done" /\ search'[c].ok = TRUE /\ search'[c].inum = slots[f].inum
          /\ \A d \in Clients : d # c => search'[d] = search[d]
      BY <2>4, <2>6, <3>1, AnswerFields
    <3>3. A!Answer(c, "lookup", [ok |-> TRUE, inum |-> slots[f].inum]) /\ Entered' = Entered
          /\ Asks[c] = req[c]
      BY <1>1, <2>6, <3>2, SearchAnswers
    <3>4. A!Found(c, "lookup")
      BY <2>2, <2>3, <2>4, <2>6, <3>3, FoundMaps
    <3>5. A!Lookup(c)
      BY <2>6, <3>3, <3>4 DEF A!Lookup
    <3> QED
      BY <3>5 DEF A!Next
  <2>7. CASE req[c].op = "lookupGet"
    <3>1. Answer(c, TRUE, slots[f].inum)
      BY <1>4, <2>7 DEF SearchBlock
    <3>2. search'[c].stage = "get" /\ \A d \in Clients : d # c => search'[d] = search[d]
      BY <2>4, <2>7, <3>1, AnswerFields
    <3> QED
      BY <1>1, <3>2, SearchGoesOn
  <2> QED
    BY <1>1, <2>5, <2>6, <2>7 DEF IInv, RequestsMatch, SearchOps
<1> QED
  BY <1>3, <1>4

LEMMA SearchEndsMaps ==
  ASSUME IInv, NEW c \in Clients, SearchEnds(c)
  PROVE  A!Next
<1>1. /\ pc[c] = "awaiting" /\ search[c].stage = "blocks" /\ ~More(search[c].block)
      /\ Answer(c, req[c].op = "isEmpty", 0)
      /\ UNCHANGED <<slots, serverVars, waitGroup, pc, req, iface>>
  BY DEF SearchEnds, Searching
<1>2. /\ search'[c].stage = "done" /\ search'[c].ok = (req[c].op = "isEmpty") /\ search'[c].inum = 0
      /\ \A d \in Clients : d # c => search'[d] = search[d]
  BY <1>1, AnswerFields
<1>3. /\ A!Answer(c, req[c].op, [ok |-> req[c].op = "isEmpty", inum |-> 0])
      /\ Entered' = Entered /\ Asks[c] = req[c] /\ req[c].op \in SearchOps
  BY <1>1, <1>2, SearchAnswers
<1>4. \A e \in Entries : Entered[e] > 0 =>
        IF req[c].op = "isEmpty" THEN e.name \in Dots ELSE e.name # req[c].name
  <2>1. search[c].block \in 0 .. MaxSlots /\ TypeOK
    BY DEF IInv, TypeOK
  <2>2. \A b \in 0 .. search[c].block - 1 : Hits(req[c], b, Len(slots)) = {}
    BY <1>1 DEF IInv, SearchSeesStableDirectory
  <2> QED
    BY <1>1, <2>1, <2>2, AllBlocksSeen
<1>5. CASE req[c].op = "isEmpty"
  <2>1. (\A e \in Entries : Entered[e] > 0 => e.name \in Dots) = TRUE
    BY <1>4, <1>5
  <2>2. A!Answer(c, "isEmpty", [ok |-> TRUE, inum |-> 0])
    <3>1. (req[c].op = "isEmpty") = TRUE
      BY <1>5
    <3> QED
      BY <1>3, <1>5, <3>1
  <2>3. A!IsEmpty(c)
    BY <1>3, <2>1, <2>2 DEF A!IsEmpty
  <2> QED
    BY <2>3 DEF A!Next
<1>6. CASE req[c].op # "isEmpty"
  <2>1. A!Answer(c, req[c].op, A!NoAnswer)
    <3>1. (req[c].op = "isEmpty") = FALSE
      BY <1>6
    <3> QED
      BY <1>3, <3>1 DEF A!NoAnswer
  <2>2. A!Named(Asks[c].name) = {}
    BY <1>3, <1>4, <1>6 DEF A!Named
  <2>3. CASE req[c].op = "lookup"
    <3>1. A!Lookup(c)
      BY <1>3, <2>1, <2>2, <2>3 DEF A!Lookup, A!Missing
    <3> QED
      BY <3>1 DEF A!Next
  <2>4. CASE req[c].op = "lookupGet"
    <3>1. A!LookupGet(c)
      BY <1>3, <2>1, <2>4 DEF A!LookupGet
    <3> QED
      BY <3>1 DEF A!Next
  <2> QED
    BY <1>3, <1>6, <2>3, <2>4 DEF SearchOps
<1> QED
  BY <1>5, <1>6

LEMMA GetInodeMaps ==
  ASSUME IInv, GetsEntry, NEW c \in Clients, GetInode(c)
  PROVE  A!Next
<1>1. /\ pc[c] = "awaiting" /\ search[c].stage = "get" /\ req[c].op = "lookupGet"
      /\ UNCHANGED <<slots, serverVars, waitGroup, pc, req, iface>>
  BY DEF GetInode, Searching, IInv, RequestsMatch
<1>2. PICK ok \in BOOLEAN :
        search' = [search EXCEPT ![c].stage = "done", ![c].ok = ok,
                                 ![c].inum = IF ok THEN @ ELSE 0]
  BY DEF GetInode
<1>3. search \in [Clients -> SearchStates]
  BY DEF IInv, TypeOK, SearchStates
<1>4. search'[c].stage = "done" /\ \A d \in Clients : d # c => search'[d] = search[d]
  BY <1>2, <1>3 DEF SearchStates
<1>5. search'[c].ok = ok /\ search'[c].inum = IF ok THEN search[c].inum ELSE 0
  BY <1>2, <1>3 DEF SearchStates
<1>6. /\ A!Answer(c, "lookupGet", [ok |-> search'[c].ok, inum |-> search'[c].inum])
      /\ Entered' = Entered /\ Asks[c] = req[c]
  BY <1>1, <1>4, SearchAnswers
<1>7. CASE ok = TRUE
  <2>1. A!Answer(c, "lookupGet", [ok |-> TRUE, inum |-> search[c].inum])
    BY <1>5, <1>6, <1>7
  <2>2. PICK i \in 1 .. Len(slots) : slots[i] = [name |-> req[c].name, inum |-> search[c].inum]
    BY <1>1 DEF IInv, InodeGotIsLinked
  <2>3. IsUsed(i) /\ slots[i].name = req[c].name /\ slots[i].inum = search[c].inum
    <3>1. slots[i].name = req[c].name /\ slots[i].inum = search[c].inum
      BY <2>2
    <3>2. slots[i].inum # 0 /\ Free.inum = 0
      BY <1>1, <3>1 DEF GetsEntry, Free
    <3> QED
      BY <3>1, <3>2 DEF IsUsed
  <2>4. slots[i] \in Entries
    BY <2>3, UsedIsEntry DEF IInv
  <2>5. Entered[slots[i]] > 0
    BY <2>4, CountOfSlots DEF IInv
  <2>6. A!Found(c, "lookupGet")
    BY <1>6, <2>1, <2>3, <2>4, <2>5, FoundMaps
  <2>7. A!LookupGet(c)
    BY <1>1, <1>6, <2>6 DEF A!LookupGet
  <2> QED
    BY <2>7 DEF A!Next
<1>8. CASE ok = FALSE
  <2>1. A!Answer(c, "lookupGet", A!NoAnswer)
    BY <1>5, <1>6, <1>8 DEF A!NoAnswer
  <2>2. A!LookupGet(c)
    BY <1>1, <1>6, <2>1 DEF A!LookupGet
  <2> QED
    BY <2>2 DEF A!Next
<1> QED
  BY <1>7, <1>8
-----------------------------------------------------------------------------
(* Updates *)

LEMMA ErasedCounts ==
  ASSUME TypeOK, NEW f \in 1 .. Len(slots), IsUsed(f), slots' = [slots EXCEPT ![f] = Free]
  PROVE  Entered' = [Entered EXCEPT ![slots[f]] = @ - 1]
<1>1. slots[f] \in Entries
  BY UsedIsEntry
<1>2. slots \in Seq(Entries \cup {Free})
  BY DEF TypeOK
<1>3. Len(slots') = Len(slots) /\ \A i \in 1 .. Len(slots) : slots'[i] = IF i = f THEN Free ELSE slots[i]
  BY <1>2, ExceptSeq, LenProperties
<1>4. ASSUME NEW e \in Entries
      PROVE  SlotsOf(e)' = IF e = slots[f] THEN SlotsOf(e) \ {f} ELSE SlotsOf(e)
  <2>1. e # Free
    BY EntryIsNotFree
  <2> QED
    BY <1>3, <2>1 DEF SlotsOf
<1>5. ASSUME NEW e \in Entries
      PROVE  Cardinality(SlotsOf(e)') =
               IF e = slots[f] THEN Cardinality(SlotsOf(e)) - 1 ELSE Cardinality(SlotsOf(e))
  <2>1. IsFiniteSet(SlotsOf(e))
    BY CountOfSlots
  <2>2. f \in SlotsOf(slots[f])
    BY DEF SlotsOf
  <2> QED
    BY <1>4, <2>1, <2>2, FS_RemoveElement
<1> QED
  BY <1>1, <1>5, Maps, MapsNext

LEMMA PutCounts ==
  ASSUME TypeOK, TypeOK', NEW i \in 1 .. Len(slots) + 1, i <= Len(slots) => ~IsUsed(i),
         [name |-> Request.name, inum |-> Request.inum] \in Entries, Put(i)
  PROVE  Entered' = [Entered EXCEPT ![[name |-> Request.name, inum |-> Request.inum]] = @ + 1]
<1> DEFINE entry == [name |-> Request.name, inum |-> Request.inum]
           n == IF i > Len(slots) THEN i ELSE Len(slots)
<1>1. entry \in Entries
  OBVIOUS
<1> HIDE DEF entry
<1>2. slots' = [j \in 1 .. n |-> IF j = i THEN entry ELSE slots[j]]
  BY DEF Put, entry
<1>3. Len(slots) \in Nat /\ slots \in Seq(Entries \cup {Free}) /\ slots' \in Seq(Entries \cup {Free})
  BY LenProperties DEF TypeOK
<1>4. n \in Nat /\ Len(slots) <= n /\ i \in 1 .. n
      /\ \A j \in 1 .. n : j # i => j \in 1 .. Len(slots)
  BY <1>3
<1> HIDE DEF n
<1>5. Len(slots') = n
  <2>1. Len(slots') \in Nat /\ DOMAIN slots' = 1 .. Len(slots') /\ DOMAIN slots' = 1 .. n
    BY <1>2, <1>3, LenProperties
  <2>2. ~(Len(slots') < n)
    <3>1. n > Len(slots') => n \in 1 .. n /\ n \notin 1 .. Len(slots')
      BY <1>4, <2>1
    <3> QED
      BY <2>1, <3>1
  <2>3. ~(Len(slots') > n)
    <3>1. Len(slots') > n => Len(slots') \in 1 .. Len(slots') /\ Len(slots') \notin 1 .. n
      BY <1>4, <2>1
    <3> QED
      BY <2>1, <3>1
  <2> DEFINE m == Len(slots')
  <2>4. m \in Int /\ n \in Int /\ ~(m < n) /\ ~(m > n)
    BY <1>4, <2>1, <2>2, <2>3
  <2>5. m = n
    <3> HIDE DEF m
    <3> QED
      BY <2>4
  <2> QED
    BY <2>5
<1>6. \A j \in 1 .. n : slots'[j] = IF j = i THEN entry ELSE slots[j]
  BY <1>2
<1>7. i \in 1 .. Len(slots) => slots[i] = Free
  BY DEF IsUsed
<1>8. ASSUME NEW e \in Entries
      PROVE  /\ SlotsOf(e)' = IF e = entry THEN SlotsOf(e) \cup {i} ELSE SlotsOf(e)
             /\ i \notin SlotsOf(e)
  <2>1. e # Free
    BY EntryIsNotFree
  <2>2. i \notin SlotsOf(e)
    BY <1>7, <2>1 DEF SlotsOf
  <2>3. SlotsOf(e)' = {j \in 1 .. n : slots'[j] = e}
    BY <1>5 DEF SlotsOf
  <2>4. \A j \in 1 .. n : j # i => (slots'[j] = e <=> j \in SlotsOf(e))
    BY <1>4, <1>6 DEF SlotsOf
  <2>5. slots'[i] = e <=> e = entry
    BY <1>4, <1>6
  <2>6. SlotsOf(e) \subseteq 1 .. n
    BY <1>3, <1>4 DEF SlotsOf
  <2> QED
    BY <1>4, <2>2, <2>3, <2>4, <2>5, <2>6
<1>9. ASSUME NEW e \in Entries
      PROVE  Cardinality(SlotsOf(e)') =
               IF e = entry THEN Cardinality(SlotsOf(e)) + 1 ELSE Cardinality(SlotsOf(e))
  <2>1. IsFiniteSet(SlotsOf(e))
    BY CountOfSlots
  <2> QED
    BY <1>8, <2>1, FS_AddElement
<1> QED
  BY <1>1, <1>9, Maps, MapsNext DEF entry

\* The end of Link or Unlink takes effect in the atomic directory.
LEMMA UpdateAnswers ==
  ASSUME IInv, server = "search", NEW ok \in BOOLEAN, Finish(ok)
  PROVE  \E c \in Clients :
           /\ A!Answer(c, Request.op, [ok |-> ok, inum |-> 0])
           /\ Asks[c] = Request /\ Request \in Requests
<1>1. PICK c \in Clients : pc[c] = "receiving"
  BY DEF IInv, OneCaller
<1>2. Request = req[c] /\ req[c] \in Requests /\ req[c].op \in UpdateOps
      /\ \A d \in Clients \ {c} : pc[d] # "receiving"
  BY <1>1, CurrentRequest DEF IInv, OneCaller, ServesCaller
<1>3. server' = "reply" /\ res' = [op |-> req[c].op, ok |-> ok] /\ UNCHANGED <<pc, req, search>>
  BY <1>2 DEF Finish, Respond, clientVars
<1>4. \A d \in Clients \ {c} : Same(d)
  BY <1>2, <1>3, Untouched
<1>5. ~Answered(c) /\ Answered(c)' /\ InDirectory(c) /\ InDirectory(c)'
  BY <1>1, <1>2, <1>3 DEF Answered, InDirectory, UpdateOps
<1>6. /\ StageOf(c) = "asked" /\ AskOf(c) = req[c]
      /\ StageOf(c)' = "answered" /\ AskOf(c)' = req[c]
      /\ AnswerOf(c)' = [ok |-> ok, inum |-> 0]
  BY <1>2, <1>3, <1>5 DEF StageOf, AskOf, AnswerOf
<1>7. /\ Stages[c] = "asked" /\ Stages' = [Stages EXCEPT ![c] = "answered"]
      /\ Asks[c] = req[c]
      /\ Answers' = [Answers EXCEPT ![c] = [ok |-> ok, inum |-> 0]]
  BY <1>4, <1>6, OthersSame
<1>8. Asks' = Asks
  BY <1>4, <1>6, Maps, MapsNext DEF Same
<1> QED
  BY <1>2, <1>7, <1>8 DEF A!Answer

\* A step of the server that neither answers nor changes the directory.
LEMMA ServerGoesOn ==
  ASSUME IInv, server \in {"wait", "search"}, UNCHANGED <<slots, pc, req, search>>,
         server' = "reply" => res'.op \notin UpdateOps
  PROVE  [A!Next]_A!vars
<1>1. ASSUME NEW d \in Clients PROVE Same(d)
  <2>1. Answered(d) <=> Answered(d)'
    BY DEF Answered, UpdateOps
  <2>2. CASE Answered(d)
    <3>1. pc[d] = "awaiting"
      BY <2>2 DEF Answered
    <3> QED
      BY <3>1, Untouched
  <2>3. CASE ~Answered(d)
    BY <2>1, <2>3, StillAsked
  <2> QED
    BY <2>2, <2>3
<1> QED
  BY <1>1, Stutter

LEMMA LinkMaps ==
  ASSUME IInv, IInv', server = "search", Request.op = "link", Finish(TRUE),
         NEW i \in 1 .. Len(slots) + 1, i <= Len(slots) => ~IsUsed(i), Put(i)
  PROVE  A!Next
<1>1. PICK c \in Clients : /\ A!Answer(c, Request.op, [ok |-> TRUE, inum |-> 0])
                           /\ Asks[c] = Request /\ Request \in Requests
  BY UpdateAnswers
<1>2. [name |-> Request.name, inum |-> Request.inum] \in Entries
  BY <1>1, RequestFacts
<1>3. Entered' = [Entered EXCEPT ![[name |-> Request.name, inum |-> Request.inum]] = @ + 1]
  BY <1>2, PutCounts DEF IInv
<1>4. A!Link(c)
  BY <1>1, <1>3 DEF A!Link, A!Yes
<1> QED
  BY <1>4 DEF A!Next

\* The disk is full, or no entry has the name.
LEMMA UpdateFailsMaps ==
  ASSUME IInv, server = "search", Finish(FALSE), slots' = slots,
         Request.op = "link"
           \/ (Request.op = "unlink" /\ \A e \in Entries : Entered[e] > 0 => e.name # Request.name)
  PROVE  A!Next
<1>1. PICK c \in Clients : /\ A!Answer(c, Request.op, [ok |-> FALSE, inum |-> 0])
                           /\ Asks[c] = Request /\ Request \in Requests
  BY UpdateAnswers
<1>2. Entered' = Entered
  BY SameEntries
<1>3. CASE Request.op = "link"
  <2>1. A!Link(c)
    BY <1>1, <1>2, <1>3 DEF A!Link, A!NoAnswer
  <2> QED
    BY <2>1 DEF A!Next
<1>4. CASE Request.op = "unlink" /\ \A e \in Entries : Entered[e] > 0 => e.name # Request.name
  <2>1. A!Missing(c, "unlink")
    BY <1>1, <1>4 DEF A!Missing, A!Named, A!NoAnswer
  <2>2. A!Unlink(c)
    BY <1>1, <1>2, <1>4, <2>1 DEF A!Unlink
  <2> QED
    BY <2>2 DEF A!Next
<1> QED
  BY <1>3, <1>4

LEMMA EnterMaps ==
  ASSUME IInv, IInv', EnterBlock \/ Extend
  PROVE  [A!Next]_A!vars
<1>1. CASE EnterBlock /\ Room(at) # {}
  <2>1. Room(at) \in SUBSET Nat
    BY DEF Room
  <2>2. First(Room(at)) \in Room(at)
    BY <1>1, <2>1, FirstIsLeast
  <2>3. First(Room(at)) \in 1 .. Len(slots) + 1
        /\ (First(Room(at)) <= Len(slots) => ~IsUsed(First(Room(at))))
    BY <2>2 DEF Room
  <2> QED
    BY <1>1, <2>3, LinkMaps DEF EnterBlock
<1>2. CASE EnterBlock /\ Room(at) = {}
  BY <1>2, ServerGoesOn DEF EnterBlock, NextBlock, clientVars
<1>3. CASE Extend /\ Put(Len(slots) + 1) /\ Finish(TRUE)
  <2>1. Len(slots) \in Nat
    BY LenProperties DEF IInv, TypeOK
  <2>2. Len(slots) + 1 \in 1 .. Len(slots) + 1 /\ ~(Len(slots) + 1 <= Len(slots))
    BY <2>1
  <2> QED
    BY <1>3, <2>2, LinkMaps DEF Extend
<1>4. CASE Extend /\ Finish(FALSE) /\ UNCHANGED slots
  BY <1>4, UpdateFailsMaps DEF Extend
<1> QED
  BY <1>1, <1>2, <1>3, <1>4 DEF Extend

LEMMA UnlinkMaps ==
  ASSUME IInv, UnlinkSeesBlocks, DeleteBlock \/ NotFound
  PROVE  [A!Next]_A!vars
<1> DEFINE hits == Hits(Request, at, Len(slots))
           f == First(hits)
<1>1. CASE DeleteBlock /\ hits = {}
  BY <1>1, ServerGoesOn DEF DeleteBlock, NextBlock, clientVars
<1>2. CASE DeleteBlock /\ hits # {}
  <2>1. Len(slots) \in Nat
    BY LenProperties DEF IInv, TypeOK
  <2>2. f \in hits
    BY <1>2, <2>1, HitsAreSlots, FirstIsLeast
  <2>3. server = "search" /\ Request.op = "unlink" /\ Finish(TRUE)
        /\ slots' = [slots EXCEPT ![f] = Free]
    BY <1>2 DEF DeleteBlock, Erase
  <2>4. f \in 1 .. Len(slots) /\ IsUsed(f) /\ slots[f].name = Request.name
    BY <2>2, <2>3 DEF Hits
  <2>5. slots[f] \in Entries
    BY <2>4, UsedIsEntry DEF IInv
  <2>6. Entered[slots[f]] > 0
    BY <2>4, <2>5, CountOfSlots DEF IInv
  <2>7. Entered' = [Entered EXCEPT ![slots[f]] = @ - 1]
    BY <2>3, <2>4, ErasedCounts DEF IInv
  <2>8. PICK c \in Clients : /\ A!Answer(c, Request.op, [ok |-> TRUE, inum |-> 0])
                             /\ Asks[c] = Request /\ Request \in Requests
    BY <2>3, UpdateAnswers
  <2>9. slots[f] \in A!Named(Asks[c].name)
    BY <2>4, <2>5, <2>6, <2>8 DEF A!Named
  <2>10. A!Unlink(c)
    BY <2>3, <2>7, <2>8, <2>9 DEF A!Unlink, A!Yes
  <2> QED
    BY <2>10 DEF A!Next
<1>3. CASE NotFound
  <2>1. server = "search" /\ Request.op = "unlink" /\ ~More(at) /\ Finish(FALSE) /\ slots' = slots
    BY <1>3 DEF NotFound
  <2>2. at \in 0 .. MaxSlots /\ TypeOK /\ \A b \in 0 .. at - 1 : Hits(Request, b, Len(slots)) = {}
    BY <2>1 DEF IInv, TypeOK, UnlinkSeesBlocks
  <2>3. \A e \in Entries : Entered[e] > 0 => e.name # Request.name
    <3> SUFFICES ASSUME NEW e \in Entries, Entered[e] > 0 PROVE e.name # Request.name
      OBVIOUS
    <3>1. IF Request.op = "isEmpty" THEN e.name \in Dots ELSE e.name # Request.name
      BY <2>1, <2>2, AllBlocksSeen
    <3> QED
      BY <2>1, <3>1
  <2> QED
    BY <2>1, <2>3, UpdateFailsMaps
<1> QED
  BY <1>1, <1>2, <1>3

LEMMA WaitedMaps ==
  ASSUME IInv, StartUpdate \/ EndClose
  PROVE  [A!Next]_A!vars
<1>1. CASE StartUpdate
  BY <1>1, ServerGoesOn DEF StartUpdate, Waited, clientVars
<1>2. CASE EndClose
  BY <1>2, ServerGoesOn DEF EndClose, Waited, Respond, UpdateOps, clientVars
<1> QED
  BY <1>1, <1>2
-----------------------------------------------------------------------------
(* RInv is an invariant. *)

LEMMA GetsEntryKept ==
  ASSUME IInv, GetsEntry, Next
  PROVE  GetsEntry'
<1>1. ASSUME UNCHANGED search PROVE GetsEntry'
  BY <1>1 DEF GetsEntry
<1>2. CASE Work
  BY <1>1, <1>2 DEF Work, StartUpdate, DeleteBlock, NotFound, EnterBlock, Extend, EndClose,
     Finish, NextBlock, clientVars
<1>3. ASSUME NEW c \in Clients, NEW r \in Calls, Call(c, r) PROVE GetsEntry'
  BY <1>1, <1>3 DEF Call
<1>4. ASSUME NEW c \in Clients, Serve(c) \/ Reply(c) PROVE GetsEntry'
  BY <1>1, <1>4 DEF Serve, SearchRequest, WaitRequest, LockRequest, UnlockRequest, Receive, Reply
<1>5. ASSUME NEW c \in Clients, Goroutine(c) PROVE GetsEntry'
  <2>1. search \in [Clients -> SearchStates]
    BY DEF IInv, TypeOK, SearchStates
  <2>2. CASE StartSearch(c)
    <3>1. search' = [search EXCEPT ![c].stage = "blocks", ![c].old = Len(slots)]
      BY <2>2 DEF StartSearch
    <3>2. search'[c].stage = "blocks"
      BY <2>1, <3>1 DEF SearchStates
    <3> QED
      BY <2>1, <3>1, <3>2 DEF GetsEntry
  <2>3. CASE SearchBlock(c)
    <3> DEFINE hits == Hits(req[c], search[c].block, search[c].old)
    <3>1. search[c].old = Len(slots) /\ Len(slots) \in Nat /\ search[c].stage = "blocks"
      BY <2>3, LenProperties DEF SearchBlock, Searching, IInv, SearchSeesStableDirectory, TypeOK
    <3>2. CASE hits = {}
      <4>1. search' = [search EXCEPT ![c].block = @ + 1]
        BY <2>3, <3>2 DEF SearchBlock
      <4>2. search'[c].stage = "blocks" /\ \A d \in Clients : d # c => search'[d] = search[d]
        BY <2>1, <3>1, <4>1 DEF SearchStates
      <4> QED
        BY <4>2 DEF GetsEntry
    <3>3. CASE hits # {} /\ req[c].op = "isEmpty"
      <4>1. Answer(c, FALSE, 0)
        BY <2>3, <3>3 DEF SearchBlock
      <4> QED
        BY <4>1, AnswerFields DEF GetsEntry
    <3>4. CASE hits # {} /\ req[c].op # "isEmpty"
      <4>1. First(hits) \in hits
        BY <3>1, <3>4, HitsAreSlots, FirstIsLeast
      <4>2. First(hits) \in 1 .. Len(slots) /\ IsUsed(First(hits))
        BY <3>1, <4>1 DEF Hits
      <4>3. slots[First(hits)].inum # 0 /\ slots[First(hits)].inum \in Inums
        BY <4>2, UsedIsEntry DEF IInv, Inums
      <4>4. Answer(c, TRUE, slots[First(hits)].inum)
        BY <2>3, <3>4 DEF SearchBlock
      <4>5. search'[c].inum # 0 /\ \A d \in Clients : d # c => search'[d] = search[d]
        BY <4>3, <4>4, AnswerFields
      <4> QED
        BY <4>5 DEF GetsEntry
    <3> QED
      BY <3>2, <3>3, <3>4
  <2>4. CASE SearchEnds(c)
    <3>1. Answer(c, req[c].op = "isEmpty", 0)
      BY <2>4 DEF SearchEnds
    <3>2. search'[c].stage = "done" /\ \A d \in Clients : d # c => search'[d] = search[d]
      BY <3>1, AnswerFields
    <3> QED
      BY <3>2 DEF GetsEntry
  <2>5. CASE GetInode(c)
    <3>1. PICK ok \in BOOLEAN :
            search' = [search EXCEPT ![c].stage = "done", ![c].ok = ok,
                                     ![c].inum = IF ok THEN @ ELSE 0]
      BY <2>5 DEF GetInode
    <3>2. search'[c].stage = "done" /\ \A d \in Clients : d # c => search'[d] = search[d]
      BY <2>1, <3>1 DEF SearchStates
    <3> QED
      BY <3>2 DEF GetsEntry
  <2>6. CASE EndSearch(c)
    BY <2>1, <2>6 DEF EndSearch, GetsEntry, NoSearch
  <2> QED
    BY <1>5, <2>2, <2>3, <2>4, <2>5, <2>6 DEF Goroutine
<1> QED
  BY <1>2, <1>3, <1>4, <1>5 DEF Next

LEMMA UnlinkSeesBlocksKept ==
  ASSUME IInv, UnlinkSeesBlocks, Next
  PROVE  UnlinkSeesBlocks'
<1>1. ASSUME server' # "search", server # "search", at' = at PROVE UnlinkSeesBlocks'
  BY <1>1 DEF UnlinkSeesBlocks
<1>2. CASE Work
  <2>1. CASE StartUpdate
    BY <2>1 DEF StartUpdate, Waited, UnlinkSeesBlocks, IInv, TypeOK
  <2>2. CASE EndClose
    BY <1>1, <2>2 DEF EndClose, Waited, Respond
  <2>3. ASSUME NEW ok \in BOOLEAN, Finish(ok) PROVE UnlinkSeesBlocks'
    BY <2>3 DEF Finish, Respond, UnlinkSeesBlocks
  <2>4. ASSUME NextBlock, server = "search",
               Request.op = "unlink" => Hits(Request, at, Len(slots)) = {}
        PROVE  UnlinkSeesBlocks'
    <3>1. at' = at + 1 /\ at \in Nat /\ UNCHANGED <<slots, server, pc, req>>
      BY <2>4 DEF NextBlock, clientVars, IInv, TypeOK
    <3>2. Request' = Request /\ \A b : Hits(Request, b, Len(slots))' = Hits(Request, b, Len(slots))
      BY <3>1 DEF Request, Hits, IsUsed
    <3>3. ASSUME Request.op = "unlink", NEW b \in 0 .. at PROVE Hits(Request, b, Len(slots)) = {}
      <4>1. b = at \/ b \in 0 .. at - 1
        BY <3>1
      <4> QED
        BY <2>4, <3>3, <4>1 DEF UnlinkSeesBlocks
    <3>4. ASSUME Request'.op = "unlink", NEW b \in 0 .. at' - 1
          PROVE  Hits(Request, b, Len(slots))' = {}
      <4>1. b \in 0 .. at /\ Request.op = "unlink"
        BY <3>1, <3>2, <3>4
      <4> QED
        BY <3>2, <3>3, <4>1
    <3> QED
      BY <2>4, <3>1, <3>4 DEF UnlinkSeesBlocks
  <2>5. CASE DeleteBlock \/ NotFound
    BY <2>3, <2>4, <2>5 DEF DeleteBlock, NotFound
  <2>6. CASE EnterBlock \/ Extend
    BY <2>3, <2>4, <2>6 DEF EnterBlock, Extend
  <2> QED
    BY <1>2, <2>1, <2>2, <2>5, <2>6 DEF Work
<1>3. ASSUME server' = server, at' = at, slots' = slots,
             server = "search" => Request' = Request
      PROVE  UnlinkSeesBlocks'
  BY <1>3 DEF UnlinkSeesBlocks, Hits, IsUsed
<1>4. ASSUME NEW c \in Clients, \A d \in Clients : pc'[d] = "receiving" <=> pc[d] = "receiving",
             req'[c] = req[c] \/ pc[c] # "receiving",
             \A d \in Clients : d # c => req'[d] = req[d],
             server = "search"
      PROVE  Request' = Request
  <2>1. PICK e \in Clients : pc[e] = "receiving"
    BY <1>4 DEF IInv, OneCaller
  <2>2. \A d \in Clients : pc[d] = "receiving" <=> d = e
    BY <2>1 DEF IInv, OneCaller
  <2>3. Request = req[e]
    BY <2>1, CurrentRequest
  <2>4. (CHOOSE d \in Clients : pc'[d] = "receiving") = e
    BY <1>4, <2>2
  <2>5. Request' = req'[e]
    BY <2>4 DEF Request
  <2>6. req'[e] = req[e]
    BY <1>4, <2>1
  <2> QED
    BY <2>3, <2>5, <2>6
<1>5. ASSUME NEW c \in Clients, NEW r \in Calls, Call(c, r) PROVE UnlinkSeesBlocks'
  <2>1. UNCHANGED <<server, at, slots>> /\ pc[c] = "idle"
        /\ pc' = [pc EXCEPT ![c] = "sending"] /\ req' = [req EXCEPT ![c] = r]
    BY <1>5 DEF Call, serverVars
  <2>2. /\ \A d \in Clients : pc'[d] = "receiving" <=> pc[d] = "receiving"
        /\ \A d \in Clients : d # c => req'[d] = req[d]
    BY <2>1 DEF IInv, TypeOK
  <2> QED
    BY <1>3, <1>4, <2>1, <2>2
<1>6. ASSUME NEW c \in Clients, Serve(c) PROVE UnlinkSeesBlocks'
  BY <1>1, <1>6 DEF Serve, SearchRequest, WaitRequest, LockRequest, UnlockRequest, Receive, Respond
<1>7. ASSUME NEW c \in Clients, Reply(c) PROVE UnlinkSeesBlocks'
  BY <1>1, <1>7 DEF Reply
<1>8. ASSUME NEW c \in Clients, Goroutine(c) PROVE UnlinkSeesBlocks'
  <2>1. UNCHANGED <<server, at, slots>> /\ pc[c] = "awaiting"
        /\ \/ UNCHANGED <<pc, req>>
           \/ pc' = [pc EXCEPT ![c] = "idle"] /\ req' = [req EXCEPT ![c] = NoRequest]
    BY <1>8 DEF Goroutine, StartSearch, SearchBlock, SearchEnds, GetInode, EndSearch, Searching, serverVars
  <2>2. /\ \A d \in Clients : pc'[d] = "receiving" <=> pc[d] = "receiving"
        /\ \A d \in Clients : d # c => req'[d] = req[d]
    BY <2>1 DEF IInv, TypeOK
  <2> QED
    BY <1>3, <1>4, <2>1, <2>2
<1> QED
  BY <1>2, <1>5, <1>6, <1>7, <1>8 DEF Next
-----------------------------------------------------------------------------
LEMMA InitMaps == Init => A!Init
<1> SUFFICES ASSUME Init PROVE A!Init
  OBVIOUS
<1>1. TypeOK
  BY InitEstablishes DEF IInv
<1>2. Entered \in [Entries -> 0 .. MaxSlots]
  BY <1>1, CountOfSlots, Maps
<1>3. \A c \in Clients : StageOf(c) = "idle" /\ AskOf(c) = A!NoCall /\ AnswerOf(c) = A!NoAnswer
  BY DEF Init, StageOf, AskOf, AnswerOf, InDirectory, NoRequest, A!NoCall, NoAnswer, A!NoAnswer
<1> QED
  BY <1>2, <1>3, Maps DEF A!Init

LEMMA NextMaps ==
  ASSUME IInv, IInv', RInv, [Next]_vars
  PROVE  [A!Next]_A!vars
<1> USE DEF RInv
<1>1. CASE UNCHANGED vars
  <2>1. UNCHANGED <<slots, server, res, pc, req, search>>
    BY <1>1 DEF vars, serverVars, clientVars
  <2>2. \A d \in Clients : Same(d)
    BY <2>1, Untouched
  <2> QED
    BY <2>1, <2>2, Stutter
<1>2. CASE Work
  BY <1>2, WaitedMaps, UnlinkMaps, EnterMaps DEF Work
<1>3. ASSUME NEW c \in Clients, NEW r \in Calls, Call(c, r)
      PROVE  [A!Next]_A!vars
  BY <1>3, CallMaps
<1>4. ASSUME NEW c \in Clients, Serve(c) \/ Reply(c)
      PROVE  [A!Next]_A!vars
  BY <1>4, ServeMaps, ReplyMaps
<1>5. ASSUME NEW c \in Clients, Goroutine(c)
      PROVE  [A!Next]_A!vars
  <2>1. CASE StartSearch(c)
    <3>1. /\ pc[c] = "awaiting" /\ search[c].stage = "none"
          /\ search' = [search EXCEPT ![c].stage = "blocks", ![c].old = Len(slots)]
          /\ UNCHANGED <<slots, serverVars, waitGroup, pc, req, iface>>
      BY <2>1 DEF StartSearch, Searching
    <3>2. search \in [Clients -> SearchStates]
      BY DEF IInv, TypeOK, SearchStates
    <3>3. search'[c].stage = "blocks" /\ \A d \in Clients : d # c => search'[d] = search[d]
      BY <3>1, <3>2 DEF SearchStates
    <3> QED
      BY <3>1, <3>3, SearchGoesOn
  <2> QED
    BY <1>5, <2>1, SearchBlockMaps, SearchEndsMaps, GetInodeMaps, EndSearchMaps DEF Goroutine
<1> QED
  BY <1>1, <1>2, <1>3, <1>4, <1>5 DEF Next

\* Every behaviour of the directory server is one of the atomic directory:
\* searches and updates take effect one at a time, between their call and their
\* return, and a search that finds nothing has missed nothing.
THEOREM Implementation == Spec => ImplementsAtomicDirectory
<1>1. Init => RInv
  BY DEF Init, RInv, GetsEntry, UnlinkSeesBlocks, NoSearch
<1>2. IInv /\ RInv /\ [Next]_vars => RInv'
  <2>1. ASSUME UNCHANGED vars, RInv PROVE RInv'
    <3>1. slots' = slots /\ server' = server /\ at' = at /\ search' = search /\ Request' = Request
      BY <2>1 DEF vars, serverVars, clientVars, Request
    <3>2. GetsEntry'
      BY <2>1, <3>1 DEF RInv, GetsEntry
    <3>3. \A b : Hits(Request, b, Len(slots))' = Hits(Request, b, Len(slots))
      BY <3>1 DEF Hits, IsUsed
    <3>4. UnlinkSeesBlocks'
      BY <2>1, <3>1, <3>3 DEF RInv, UnlinkSeesBlocks
    <3> QED
      BY <3>2, <3>4 DEF RInv
  <2> QED
    BY <2>1, GetsEntryKept, UnlinkSeesBlocksKept DEF RInv
<1>3. Init => A!Init
  BY InitMaps
<1>4. IInv /\ IInv' /\ RInv /\ [Next]_vars => [A!Next]_A!vars
  BY NextMaps
<1> QED
  BY <1>1, <1>2, <1>3, <1>4, Invariance, PTL DEF Spec, ImplementsAtomicDirectory, A!Spec
=============================================================================
