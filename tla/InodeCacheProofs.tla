-------------------------- MODULE InodeCacheProofs --------------------------
(***************************************************************************)
(* The inode cache counts the users of its slots, hands out inodes that are *)
(* ready, loses no change, and implements the life of inodes, for any       *)
(* number of clients, slots and inodes, if no inode is asked for while it   *)
(* is being loaded (MCInodeCacheLoading shows what happens if one is).      *)
(***************************************************************************)
EXTENDS InodeCache, FiniteSetTheorems, TLAPS

NobodyAsks == Asks = {}

USE SizeAssumption, ClientsAssumption, IdsAssumption, WorkloadAssumption
    DEF SizeAssumption, ClientsAssumption, IdsAssumption, WorkloadAssumption
-----------------------------------------------------------------------------
(* The inductive invariant. *)

User(c, s) == Given(c, s) \/ Has(c, s) \/ Returns(c, s)
Users(s) == {c \in Clients : User(c, s)}

\* Slot s is being filled, for client c.
Filling(s) == (server = "lock" /\ xp = s) \/ waiting[s] # <<>>
FillsFor(c, s) == (server = "lock" /\ xp = s /\ cur = c) \/ waiting[s] = <<c>>

IsAsking(c) == req[c].op \in {"get", "new"}

\* What the server is doing, for which client.
Serving ==
  /\ server = "lock" =>
       /\ cur \in Clients /\ pc[cur] = "receiving" /\ IsAsking(cur)
       /\ xp \in Slots /\ ident[xp] = req[cur].id /\ waiting[xp] = <<>>
  /\ server = "reply" =>
       /\ cur \in Clients /\ pc[cur] = "receiving"
       /\ IsAsking(cur) <=> res.kind \in {"inode", "async", "ENFILE"}
       /\ res.kind \in {"inode", "async"} => res.slot \in Slots /\ ident[res.slot] = req[cur].id
       /\ res.kind = "async" => waiting[res.slot] = <<cur>>
       /\ res.kind = "inode" => req[cur].op = "get"
  /\ server # "reply" => res.kind = "none"
  /\ server # "panicked"

\* What client c is waiting for.
Waiting(c) ==
  /\ pc[c] = "idle" <=> req[c].op = "none"
  /\ pc[c] = "receiving" => c = cur /\ server \in {"lock", "reply", "gone"}
  /\ pc[c] = "awaiting" => \E s \in Slots : waiting[s] = <<c>>

\* What client c holds, and what it does with it.
Holding(c) ==
  /\ \A h \in holds[c] : ident[h.slot] = h.id
  /\ pc[c] = "sending" /\ req[c].op = "put" =>
       ident[req[c].slot] = req[c].id /\ ~Has(c, req[c].slot)
  /\ pc[c] = "sending" /\ req[c].op = "flush" => Hold(req[c].id, req[c].slot) \in holds[c]
  /\ IsAsking(c) => \A h \in holds[c] : h.id # req[c].id
  /\ made[c] # NoId =>
       /\ \E h \in holds[c] : h.id = made[c]
       /\ pc[c] # "idle" => req[c].op = "flush" /\ req[c].id = made[c]

Loading(s) ==
  /\ load[s].stage = "off" <=> waiting[s] = <<>>
  /\ \A c \in Clients : waiting[s] = <<c>> =>
       /\ IsAsking(c) /\ load[s].op = req[c].op /\ load[s].mode = req[c].mode
       /\ ident[s] = req[c].id
       /\ pc[c] = "awaiting" \/ (server = "reply" /\ cur = c /\ res = [kind |-> "async", slot |-> s])
  /\ \A c \in Clients : FillsFor(c, s) => \A d \in Clients : User(d, s) => d = c

\* A slot in use has an inode, which it points to when it is loaded, and a server
\* when there is one.
Ready(s) ==
  Count[s] > 0 =>
    /\ ident[s] \in Ids
    /\ ~(server = "lock" /\ xp = s) /\ load[s].stage # "load" => Inode[s] = ident[s]
    /\ ~(server = "lock" /\ xp = s) /\ load[s].stage \notin {"load", "fill"} =>
         /\ table[ident[s]].mode # I_NOT_ALLOC
         /\ Server[s] = [kind |-> table[ident[s]].mode, id |-> ident[s], open |-> TRUE]

OneSlot ==
  \A s, t \in Slots : Count[s] > 0 /\ Count[t] > 0 /\ ident[s] = ident[t] => s = t

\* Who asks for an inode, and who creates it, is the only one that does.
OneAsks ==
  /\ \A c, d \in Clients : IsAsking(c) /\ IsAsking(d) /\ req[c].id = req[d].id => c = d
  /\ \A c, d \in Clients : made[c] # NoId /\ made[c] = made[d] => c = d
  /\ \A c, d \in Clients : req[c].op = "new" => made[d] # req[c].id

\* Numbers are free, linked, or on their way.
Creating(i) == \E c \in Clients : (req[c].op = "new" /\ req[c].id = i) \/ made[c] = i
Numbers ==
  /\ linked \cap free = {}
  /\ \A s \in Slots : Count[s] > 0 => ident[s] \notin free
  /\ \A c \in Clients : req[c].op = "get" => req[c].id \in linked
  /\ \A i \in Ids : Creating(i) => i \notin linked \cup free
  /\ \A s \in Slots : \A c \in Clients :
       Count[s] > 0 /\ req[c].op = "new" /\ ident[s] = req[c].id => FillsFor(c, s)

\* An inode has one link if it has an entry or will have one, and else none.
Links ==
  /\ \A i \in Ids : i \in linked \/ (\E c \in Clients : made[c] = i) =>
       table[i].links = 1
  /\ \A i \in linked : table[i].mode # I_NOT_ALLOC
  /\ \A s \in Slots :
       Count[s] > 0 /\ load[s].stage \in {"lock", "wake"} /\ load[s].op = "new" => table[ident[s]].links = 1
  /\ \A s \in Slots :
       Count[s] > 0 /\ ~Filling(s) /\ ident[s] \notin linked /\ ~Creating(ident[s]) =>
         table[ident[s]].links = 0

\* An inode that was changed and not saved yet is in a slot that says so, or is
\* new and about to be flushed.
Flushing(i) == \E c \in Clients : pc[c] = "sending" /\ req[c].op = "flush" /\ made[c] = i
Unsaved ==
  \A i \in Ids \ saved : \E s \in Slots :
    /\ Count[s] > 0 /\ ident[s] = i
    /\ ~(server = "lock" /\ xp = s) /\ load[s].stage \notin {"load"}
    /\ Dirty[s] \/ (load[s].stage \in {"lock", "wake"} /\ load[s].op = "new") \/ Flushing(i)

IInv ==
  /\ TypeOK /\ CountIsUsers /\ Serving
  /\ \A c \in Clients : Waiting(c) /\ Holding(c)
  /\ \A s \in Slots : Loading(s) /\ Ready(s)
  /\ OneSlot /\ OneAsks /\ Numbers /\ Links /\ Unsaved
-----------------------------------------------------------------------------
(* Lemmas about the parts of the state. *)

LEMMA NoIdIsNone == NoId \notin Ids
BY DEF NoId

LEMMA RequestsAre ==
  ASSUME NEW r \in AllRequests \cup {NoRequest}
  PROVE  /\ r.op \in {"none", "get", "new", "put", "flush", "mount", "isbusy", "putnil", "close"}
         /\ r.op = "none" => r = NoRequest
         /\ r.op \in {"get", "new", "put", "flush"} => r.id \in Ids
         /\ r.op \in {"put", "flush"} => r.slot \in Slots
         /\ r.op \in {"mount", "isbusy"} => r.id[1] \in Devices
         /\ r.mode \in Types
         /\ r.op = "new" => r.mode \in Modes
BY DEF AllRequests, NoRequest, Request, Types

LEMMA FlushIsRequest ==
  ASSUME NEW i \in Ids, NEW s \in Slots
  PROVE  Request("flush", i, s, I_NOT_ALLOC) \in AllRequests \cup {NoRequest}
BY DEF AllRequests

\* At most one client waits for a slot to be filled.
LEMMA OneWaits ==
  ASSUME NEW w \in {<<>>} \cup {<<c>> : c \in Clients}, NEW c \in Clients
  PROVE  (\E i \in DOMAIN w : w[i] = c) <=> w = <<c>>
OBVIOUS

LEMMA UsersFinite ==
  /\ \A s \in Slots : IsFiniteSet(Users(s)) /\ Cardinality(Users(s)) \in Nat
                      /\ Cardinality(Users(s)) <= Cardinality(Clients)
  /\ \A s \in Slots : IsFiniteSet(Users(s)') /\ Cardinality(Users(s)') \in Nat
                      /\ Cardinality(Users(s)') <= Cardinality(Clients)
<1>1. \A S \in SUBSET Clients : IsFiniteSet(S) /\ Cardinality(S) \in Nat
                               /\ Cardinality(S) <= Cardinality(Clients)
  BY FS_Subset, FS_CardinalityType
<1> QED BY <1>1 DEF Users

LEMMA CountIs == CountIsUsers <=> \A s \in Slots : Count[s] = Cardinality(Users(s))
BY DEF CountIsUsers, Users, User

LEMMA CountIsNext == CountIsUsers' <=> \A s \in Slots : Count'[s] = Cardinality(Users(s)')
BY DEF CountIsUsers, Users, User

\* A step that changes no user, adds one, or takes one away.
LEMMA UsersSame ==
  ASSUME CountIsUsers, Count' = Count,
         \A d \in Clients, s \in Slots : User(d, s)' <=> User(d, s)
  PROVE  CountIsUsers'
<1>1. \A s \in Slots : Users(s)' = Users(s)
  BY DEF Users
<1> QED BY <1>1, CountIs, CountIsNext

LEMMA UserMore ==
  ASSUME TypeOK, CountIsUsers, NEW c \in Clients, NEW t \in Slots, ~User(c, t),
         Count' = [Count EXCEPT ![t] = @ + 1],
         \A d \in Clients, s \in Slots : User(d, s)' <=> User(d, s) \/ (d = c /\ s = t)
  PROVE  CountIsUsers'
<1>1. \A s \in Slots \ {t} : Users(s)' = Users(s)
  BY DEF Users
<1>2. Users(t)' = Users(t) \cup {c} /\ c \notin Users(t)
  BY DEF Users
<1>3. Cardinality(Users(t)') = Cardinality(Users(t)) + 1
  BY <1>2, UsersFinite, FS_AddElement
<1> QED BY <1>1, <1>3, CountIs, CountIsNext DEF TypeOK

LEMMA UserLess ==
  ASSUME TypeOK, CountIsUsers, NEW c \in Clients, NEW t \in Slots, User(c, t),
         Count' = [Count EXCEPT ![t] = @ - 1],
         \A d \in Clients, s \in Slots : User(d, s)' <=> User(d, s) /\ ~(d = c /\ s = t)
  PROVE  CountIsUsers'
<1>1. \A s \in Slots \ {t} : Users(s)' = Users(s)
  BY DEF Users
<1>2. Users(t)' = Users(t) \ {c} /\ c \in Users(t)
  BY DEF Users
<1>3. Cardinality(Users(t)') = Cardinality(Users(t)) - 1
  BY <1>2, UsersFinite, FS_RemoveElement
<1> QED BY <1>1, <1>3, CountIs, CountIsNext DEF TypeOK

\* A slot is in use if and only if it has a user.
LEMMA InUseHasUser ==
  ASSUME TypeOK, CountIsUsers, NEW s \in Slots
  PROVE  /\ Count[s] \in Nat
         /\ \A c \in Clients : User(c, s) => Count[s] > 0
         /\ Count[s] > 0 => \E c \in Clients : User(c, s)
         /\ Count[s] = 1 => \E c \in Clients : \A d \in Clients : User(d, s) <=> d = c
         /\ Count[s] > 1 => \A c \in Clients : \E d \in Clients : User(d, s) /\ d # c
<1>1. Count[s] = Cardinality(Users(s)) /\ Users(s) \subseteq Clients /\ IsFiniteSet(Users(s))
  BY CountIs, UsersFinite DEF Users
<1>2. Count[s] \in Nat
  BY <1>1, UsersFinite
<1>3. Count[s] = 0 <=> Users(s) = {}
  BY <1>1, FS_EmptySet
<1>4. Count[s] = 1 <=> \E c : Users(s) = {c}
  BY <1>1, FS_Singleton
<1>5. \A c \in Clients : User(c, s) <=> c \in Users(s)
  BY DEF Users
<1>6. Count[s] > 0 <=> Users(s) # {}
  BY <1>2, <1>3
<1>7. Count[s] = 1 => \E c \in Clients : \A d \in Clients : User(d, s) <=> d = c
  BY <1>1, <1>4, <1>5
<1>8. Count[s] > 1 => \A c \in Clients : \E d \in Clients : User(d, s) /\ d # c
  <2> SUFFICES ASSUME Count[s] > 1, NEW c \in Clients
               PROVE  \E d \in Clients : User(d, s) /\ d # c
    OBVIOUS
  <2>1. Users(s) # {} /\ Users(s) # {c}
    BY <1>2, <1>3, <1>4
  <2> QED BY <2>1, <1>1, <1>5
<1> QED BY <1>1, <1>2, <1>5, <1>6, <1>7, <1>8
-----------------------------------------------------------------------------
(* Every action preserves the invariant. *)

\* Who waits for a slot, in this state and the next.
LEMMA GivenIs ==
  ASSUME TypeOK, TypeOK'
  PROVE  \A c \in Clients, s \in Slots :
           /\ User(c, s) <=> \/ waiting[s] = <<c>>
                             \/ c = cur /\ server = "lock" /\ xp = s
                             \/ c = cur /\ server = "reply" /\ res.kind = "inode" /\ res.slot = s
                             \/ Has(c, s) \/ Returns(c, s)
           /\ User(c, s)' <=> \/ waiting'[s] = <<c>>
                              \/ c = cur' /\ server' = "lock" /\ xp' = s
                              \/ c = cur' /\ server' = "reply" /\ res'.kind = "inode" /\ res'.slot = s
                              \/ Has(c, s)' \/ Returns(c, s)'
<1> SUFFICES ASSUME NEW c \in Clients, NEW s \in Slots
             PROVE  /\ (\E i \in DOMAIN waiting[s] : waiting[s][i] = c) <=> waiting[s] = <<c>>
                    /\ (\E i \in DOMAIN waiting'[s] : waiting'[s][i] = c) <=> waiting'[s] = <<c>>
  BY DEF User, Given
<1> QED BY OneWaits DEF TypeOK

\* A request that concerns no slot.
LEMMA OtherRequests ==
  ASSUME IInv, NEW c \in Clients, NEW op \in {"mount", "isbusy", "close", "putnil"},
         Receive(c, op), UNCHANGED <<slots, waiting, table, saved, free, linked, lost, xp, load>>,
         mounted' \in SUBSET Devices,
         \/ server' = "gone" /\ UNCHANGED res
         \/ server' = "reply"
            /\ res' \in [kind : {"empty", "busy", "notbusy", "EBUSY", "closed"}, slot : {nil}]
  PROVE  IInv'
<1> USE DEF IInv, Receive, slots
<1>1. TypeOK'
  BY DEF TypeOK, AnySlot
<1>2. \A d \in Clients : pc[d] # "receiving"
  BY DEF Waiting
<1>3. \A d \in Clients, s \in Slots : User(d, s)' <=> User(d, s)
  <2>1. \A d \in Clients, s \in Slots : (Has(d, s)' <=> Has(d, s)) /\ (Returns(d, s)' <=> Returns(d, s))
    BY DEF Has, Returns, TypeOK
  <2> QED BY <1>1, <2>1, GivenIs DEF Serving
<1>4. CountIsUsers'
  BY <1>3, UsersSame
<1>5. Serving'
  BY DEF Serving, TypeOK, IsAsking
<1>6. ASSUME NEW d \in Clients PROVE (Waiting(d) /\ Holding(d))'
  <2>1. Waiting(d)'
    BY <1>2 DEF Waiting, TypeOK
  <2>2. Holding(d)'
    BY DEF Holding, TypeOK, Has, IsAsking
  <2> QED BY <2>1, <2>2
<1>7. ASSUME NEW s \in Slots PROVE (Loading(s) /\ Ready(s))'
  <2>1. \A d \in Clients : FillsFor(d, s)' <=> FillsFor(d, s)
    BY DEF FillsFor
  <2>2. \A d \in Clients : waiting[s] = <<d>> => pc[d] = "awaiting" /\ pc'[d] = "awaiting"
    BY DEF Loading, TypeOK
  <2>3. Loading(s)'
    BY <1>3, <2>1, <2>2 DEF Loading, IsAsking
  <2>4. Ready(s)'
    BY DEF Ready
  <2> QED BY <2>3, <2>4
<1>8. OneSlot' /\ OneAsks'
  BY DEF OneSlot, OneAsks, IsAsking
<1>9. Numbers'
  BY DEF Numbers, Creating, FillsFor
<1>10. Links'
  BY DEF Links, Creating, Filling
<1>11. Unsaved'
  BY DEF Unsaved, Flushing, TypeOK
<1> QED BY <1>1, <1>4, <1>5, <1>6, <1>7, <1>8, <1>9, <1>10, <1>11

LEMMA MountDeviceStep == ASSUME IInv, NEW c \in Clients, MountDevice(c) PROVE IInv'
<1>1. req[c].op = "mount" /\ req[c].id[1] \in Devices
  BY RequestsAre DEF MountDevice, Receive, IInv, TypeOK
<1> QED BY <1>1, OtherRequests DEF MountDevice, Answer, Respond, IInv, TypeOK

LEMMA IsDeviceBusyStep == ASSUME IInv, NEW c \in Clients, IsDeviceBusy(c) PROVE IInv'
BY OtherRequests DEF IsDeviceBusy, Respond, IInv, TypeOK, disk

LEMMA CloseStep == ASSUME IInv, NEW c \in Clients, Close(c) PROVE IInv'
BY OtherRequests DEF Close, Respond, IInv, TypeOK, disk

LEMMA PutNilStep == ASSUME IInv, NEW c \in Clients, PutNil(c) PROVE IInv'
BY OtherRequests DEF PutNil, IInv, TypeOK, disk

\* A slot that is being filled has no other user than the client that waits for it.
LEMMA FillerWaits ==
  ASSUME IInv, NEW s \in Slots
  PROVE  /\ Filling(s) => \E c \in Clients : FillsFor(c, s)
         /\ \A c \in Clients : FillsFor(c, s) =>
              /\ Filling(s) /\ User(c, s) /\ IsAsking(c) /\ ident[s] = req[c].id
              /\ ~Has(c, s) /\ ~Returns(c, s)
              /\ \A d \in Clients : User(d, s) => d = c
<1> USE DEF IInv
<1>1. Filling(s) => \E c \in Clients : FillsFor(c, s)
  <2>1. waiting[s] # <<>> => \E c \in Clients : waiting[s] = <<c>>
    BY DEF TypeOK
  <2>2. server = "lock" => cur \in Clients
    BY DEF Serving
  <2> QED BY <2>1, <2>2 DEF Filling, FillsFor
<1>2. ASSUME NEW c \in Clients, FillsFor(c, s)
      PROVE  /\ Filling(s) /\ User(c, s) /\ IsAsking(c) /\ ident[s] = req[c].id
             /\ ~Has(c, s) /\ ~Returns(c, s)
             /\ \A d \in Clients : User(d, s) => d = c
  <2>1. Filling(s) /\ IsAsking(c) /\ ident[s] = req[c].id
    BY <1>2 DEF FillsFor, Filling, Loading, Serving
  <2>2. User(c, s)
    <3>1. (\E i \in DOMAIN waiting[s] : waiting[s][i] = c) <=> waiting[s] = <<c>>
      BY OneWaits DEF TypeOK
    <3> QED BY <1>2, <3>1 DEF FillsFor, User, Given
  <2>3. ~Has(c, s) /\ ~Returns(c, s)
    BY <2>1 DEF Has, Returns, Holding, IsAsking
  <2>4. \A d \in Clients : User(d, s) => d = c
    BY <1>2 DEF Loading
  <2> QED BY <2>1, <2>2, <2>3, <2>4
<1> QED BY <1>1, <1>2

\* What a slot that a client has, or returns, is like.
LEMMA Settled ==
  ASSUME IInv, NEW c \in Clients, NEW s \in Slots, Has(c, s) \/ Returns(c, s)
  PROVE  /\ Count[s] > 0 /\ User(c, s) /\ ~Filling(s) /\ load[s].stage = "off"
         /\ ident[s] \in Ids /\ Inode[s] = ident[s]
         /\ table[ident[s]].mode # I_NOT_ALLOC
         /\ Server[s] = [kind |-> table[ident[s]].mode, id |-> ident[s], open |-> TRUE]
         /\ ident[s] \notin free
         /\ \A t \in Slots : Count[t] > 0 /\ ident[t] = ident[s] => t = s
<1>1. User(c, s)
  BY DEF User
<1>2. Count[s] > 0
  BY <1>1, InUseHasUser DEF IInv
<1>3. ~Filling(s)
  <2>1. \A d \in Clients : FillsFor(d, s) => d = c /\ ~Has(d, s) /\ ~Returns(d, s)
    BY <1>1, FillerWaits
  <2> QED BY <2>1, FillerWaits
<1>4. load[s].stage = "off" /\ ~(server = "lock" /\ xp = s)
  BY <1>3 DEF Filling, Loading, IInv
<1> QED BY <1>1, <1>2, <1>3, <1>4 DEF IInv, Ready, OneSlot, Numbers

LEMMA HolderKnows ==
  ASSUME IInv, NEW c \in Clients, NEW h \in holds[c]
  PROVE  /\ h \in [id : Ids, slot : Slots] /\ Has(c, h.slot)
         /\ ident[h.slot] = h.id
BY DEF IInv, TypeOK, Has, Holding

\* What a client knows of an inode that it has.
LEMMA Held ==
  ASSUME IInv, NEW c \in Clients, NEW h \in holds[c]
  PROVE  /\ h \in [id : Ids, slot : Slots] /\ Has(c, h.slot)
         /\ ident[h.slot] = h.id /\ Inode[h.slot] = h.id
         /\ Count[h.slot] > 0 /\ ~Filling(h.slot) /\ load[h.slot].stage = "off"
         /\ table[h.id].mode # I_NOT_ALLOC
         /\ Server[h.slot] = [kind |-> table[h.id].mode, id |-> h.id, open |-> TRUE]
         /\ h.id \notin free
         /\ \A t \in Slots : Count[t] > 0 /\ ident[t] = h.id => t = h.slot
<1>1. h \in [id : Ids, slot : Slots] /\ Has(c, h.slot) /\ ident[h.slot] = h.id
  BY HolderKnows
<1>2. PICK s \in Slots : s = h.slot
  BY <1>1
<1>3. Has(c, s) /\ ident[s] = h.id
  BY <1>1, <1>2
<1>4. /\ Count[s] > 0 /\ ~Filling(s) /\ load[s].stage = "off"
      /\ Inode[s] = ident[s]
      /\ table[ident[s]].mode # I_NOT_ALLOC
      /\ Server[s] = [kind |-> table[ident[s]].mode, id |-> ident[s], open |-> TRUE]
      /\ ident[s] \notin free
      /\ \A t \in Slots : Count[t] > 0 /\ ident[t] = ident[s] => t = s
  BY <1>3, Settled
<1> QED BY <1>1, <1>2, <1>3, <1>4

LEMMA FlushInodeStep == ASSUME IInv, NEW c \in Clients, FlushInode(c) PROVE IInv'
<1> DEFINE s == req[c].slot
<1>0. req[c].op = "flush" /\ s \in Slots
  BY RequestsAre DEF IInv, TypeOK, FlushInode, Receive
<1>a. Hold(req[c].id, s) \in holds[c]
  BY <1>0 DEF IInv, Holding, FlushInode, Receive
<1>b. Has(c, s) /\ ident[s] = req[c].id
  BY <1>a, HolderKnows DEF Hold
<1> HIDE DEF s
<1>c. Inode[s] = ident[s] /\ ident[s] \in Ids /\ ~Filling(s) /\ Count[s] > 0 /\ load[s].stage = "off"
      /\ (\A t \in Slots : Count[t] > 0 /\ ident[t] = ident[s] => t = s)
  BY <1>0, <1>b, Settled
<1>d. table' = table
  BY <1>0, <1>c, NoIdIsNone DEF Written, IInv, TypeOK, FlushInode, s
<1>e. /\ saved' = saved \cup {ident[s]} /\ Dirty' = [Dirty EXCEPT ![s] = FALSE]
      /\ server' = "reply" /\ res' = [kind |-> "empty", slot |-> nil]
  BY <1>0, <1>c, NoIdIsNone DEF Answer, Respond, FlushInode, s
<1>f. UNCHANGED <<ident, Count, Inode, Server, waiting, mounted, free, linked, lost, xp, load, req, holds, made>>
      /\ pc' = [pc EXCEPT ![c] = "receiving"] /\ cur' = c /\ pc[c] = "sending" /\ server = "loop"
  BY DEF FlushInode, Receive
<1> USE DEF IInv
<1>1. TypeOK'
  BY <1>0, <1>c, <1>d, <1>e, <1>f DEF TypeOK, AnySlot
<1>2. \A d \in Clients : pc[d] # "receiving"
  BY <1>f DEF Waiting
<1>3. \A d \in Clients, t \in Slots : User(d, t)' <=> User(d, t)
  <2>1. \A d \in Clients, t \in Slots : (Has(d, t)' <=> Has(d, t)) /\ (Returns(d, t)' <=> Returns(d, t))
    BY <1>0, <1>f DEF Has, Returns, TypeOK
  <2> QED BY <1>1, <1>e, <1>f, <2>1, GivenIs DEF Serving
<1>4. CountIsUsers'
  BY <1>3, <1>f, UsersSame
<1>5. Serving'
  BY <1>0, <1>e, <1>f DEF Serving, TypeOK, IsAsking
<1>6. ASSUME NEW d \in Clients PROVE (Waiting(d) /\ Holding(d))'
  <2>1. Waiting(d)'
    BY <1>0, <1>2, <1>e, <1>f DEF Waiting, TypeOK
  <2>2. Holding(d)'
    BY <1>0, <1>e, <1>f DEF Holding, TypeOK, Has, IsAsking
  <2> QED BY <2>1, <2>2
<1>7. ASSUME NEW t \in Slots PROVE (Loading(t) /\ Ready(t))'
  <2>1. \A d \in Clients : FillsFor(d, t)' <=> FillsFor(d, t)
    BY <1>e, <1>f DEF FillsFor
  <2>2. \A d \in Clients : waiting[t] = <<d>> => pc[d] = "awaiting" /\ pc'[d] = "awaiting"
    BY <1>f DEF Loading, TypeOK
  <2>3. Loading(t)'
    BY <1>3, <1>f, <2>1, <2>2 DEF Loading, IsAsking
  <2>4. Ready(t)'
    BY <1>d, <1>e, <1>f DEF Ready
  <2> QED BY <2>3, <2>4
<1>8. OneSlot' /\ OneAsks'
  BY <1>f DEF OneSlot, OneAsks, IsAsking
<1>9. Numbers'
  BY <1>e, <1>f DEF Numbers, Creating, FillsFor
<1>10. Links'
  BY <1>d, <1>e, <1>f DEF Links, Creating, Filling
<1>11. Unsaved'
  <2> SUFFICES ASSUME NEW i \in Ids \ saved, i # ident[s]
               PROVE  \E t \in Slots :
                        /\ Count'[t] > 0 /\ ident'[t] = i
                        /\ ~(server' = "lock" /\ xp' = t) /\ load'[t].stage \notin {"load"}
                        /\ \/ Dirty'[t] \/ (load'[t].stage \in {"lock", "wake"} /\ load'[t].op = "new")
                           \/ Flushing(i)'
    BY <1>e DEF Unsaved
  <2>1. Flushing(i) => Flushing(i)'
    <3> SUFFICES ASSUME NEW d \in Clients, pc[d] = "sending", req[d].op = "flush", made[d] = i
                 PROVE  Flushing(i)'
      BY DEF Flushing
    <3>1. i # NoId
      BY NoIdIsNone
    <3>2. req[d].id = i
      BY <3>1 DEF Holding
    <3>3. d # c
      BY <1>b, <3>2
    <3> QED BY <1>f, <3>3 DEF Flushing, TypeOK
  <2>2. PICK t \in Slots :
          /\ Count[t] > 0 /\ ident[t] = i
          /\ ~(server = "lock" /\ xp = t) /\ load[t].stage \notin {"load"}
          /\ Dirty[t] \/ (load[t].stage \in {"lock", "wake"} /\ load[t].op = "new") \/ Flushing(i)
    BY DEF Unsaved
  <2>3. Dirty[t] => Dirty'[t]
    BY <2>2, <1>e DEF TypeOK
  <2> QED BY <2>1, <2>2, <2>3, <1>e, <1>f
<1> QED BY <1>1, <1>4, <1>5, <1>6, <1>7, <1>8, <1>9, <1>10, <1>11
-----------------------------------------------------------------------------
(* Loading an inode. *)

LEMMA KeepCallbackStep == ASSUME IInv, KeepCallback PROVE IInv'
<1> USE DEF IInv
<1>0. /\ server = "lock" /\ cur \in Clients /\ pc[cur] = "receiving" /\ IsAsking(cur)
      /\ xp \in Slots /\ ident[xp] = req[cur].id /\ waiting[xp] = <<>>
      /\ req[cur].op \in {"get", "new"} /\ req[cur].mode \in Types
  <2>1. req[cur].mode \in Types
    BY RequestsAre DEF KeepCallback, Serving, TypeOK
  <2> QED BY <2>1 DEF KeepCallback, Serving, IsAsking
<1>a. /\ waiting' = [waiting EXCEPT ![xp] = <<cur>>]
      /\ load' = [load EXCEPT ![xp] = [stage |-> "load", op |-> req[cur].op, mode |-> req[cur].mode]]
      /\ server' = "reply" /\ res' = [kind |-> "async", slot |-> xp]
      /\ UNCHANGED <<ident, Count, Dirty, Inode, Server, table, saved, mounted, free, linked, lost,
                     xp, cur, pc, req, holds, made>>
  BY <1>0 DEF KeepCallback, Respond, slots, disk, clientVars, TypeOK
<1>1. TypeOK'
  BY <1>0, <1>a DEF TypeOK, AnySlot
<1>2. \A d \in Clients, t \in Slots :
        /\ Has(d, t)' <=> Has(d, t)
        /\ Returns(d, t)' <=> Returns(d, t)
        /\ FillsFor(d, t)' <=> FillsFor(d, t)
        /\ Filling(t)' <=> Filling(t)
  BY <1>0, <1>a DEF Has, Returns, FillsFor, Filling, TypeOK
<1>3. \A d \in Clients, t \in Slots : User(d, t)' <=> User(d, t)
  <2>1. \A d \in Clients, t \in Slots :
          waiting'[t] = <<d>> <=> waiting[t] = <<d>> \/ (t = xp /\ d = cur)
    BY <1>0, <1>a DEF TypeOK
  <2> QED BY <1>0, <1>1, <1>2, <1>a, <2>1, GivenIs
<1>4. CountIsUsers'
  BY <1>3, <1>a, UsersSame
<1>5. Serving'
  BY <1>0, <1>a DEF Serving, TypeOK, IsAsking
<1>6. ASSUME NEW d \in Clients PROVE (Waiting(d) /\ Holding(d))'
  <2>1. Waiting(d)'
    <3>1. \A t \in Slots : waiting[t] = <<d>> => waiting'[t] = <<d>>
      BY <1>0, <1>a DEF TypeOK
    <3> QED BY <1>0, <1>a, <3>1 DEF Waiting
  <2>2. Holding(d)'
    BY <1>0, <1>a DEF Holding, TypeOK, Has, IsAsking
  <2> QED BY <2>1, <2>2
<1>7. ASSUME NEW t \in Slots PROVE (Loading(t) /\ Ready(t))'
  <2>1. Loading(t)'
    <3>1. CASE t = xp
      BY <1>0, <1>2, <1>3, <1>a, <3>1 DEF Loading, IsAsking, TypeOK
    <3>2. CASE t # xp
      BY <1>0, <1>2, <1>3, <1>a, <3>2 DEF Loading, IsAsking, TypeOK
    <3> QED BY <3>1, <3>2
  <2>2. Ready(t)'
    BY <1>0, <1>a DEF Ready, TypeOK
  <2> QED BY <2>1, <2>2
<1>8. OneSlot' /\ OneAsks'
  BY <1>a DEF OneSlot, OneAsks, IsAsking
<1>9. Numbers'
  BY <1>a, <1>2 DEF Numbers, Creating
<1>10. Links'
  BY <1>0, <1>2, <1>a DEF Links, Creating, TypeOK
<1>11. Unsaved'
  <2>1. \A t \in Slots : t # xp => load'[t] = load[t]
    BY <1>a DEF TypeOK
  <2>2. \A i : Flushing(i)' <=> Flushing(i)
    BY <1>a DEF Flushing
  <2> QED BY <1>0, <1>a, <2>1, <2>2 DEF Unsaved
<1> QED BY <1>1, <1>4, <1>5, <1>6, <1>7, <1>8, <1>9, <1>10, <1>11

\* What is known of a slot whose goroutine is at a stage, and of its client.
LEMMA BeingLoaded ==
  ASSUME IInv, NEW s \in Slots, load[s].stage # "off"
  PROVE  /\ Filling(s) /\ Count[s] > 0 /\ ident[s] \in Ids /\ ~(server = "lock" /\ xp = s)
         /\ \E c \in Clients : waiting[s] = <<c>>
         /\ \A c \in Clients : waiting[s] = <<c>> =>
              /\ FillsFor(c, s) /\ IsAsking(c) /\ ident[s] = req[c].id /\ load[s].op = req[c].op
              /\ load[s].mode = req[c].mode
         /\ \A t \in Slots : Count[t] > 0 /\ ident[t] = ident[s] => t = s
<1> USE DEF IInv
<1>1. waiting[s] # <<>> /\ waiting[s] \in {<<>>} \cup {<<c>> : c \in Clients}
  BY DEF Loading, TypeOK
<1>2. PICK c \in Clients : waiting[s] = <<c>>
  BY <1>1
<1>3. FillsFor(c, s) /\ Filling(s) /\ ~(server = "lock" /\ xp = s)
  BY <1>1, <1>2 DEF FillsFor, Filling, Serving
<1>4. User(c, s)
  BY <1>3, FillerWaits
<1>5. Count[s] > 0
  BY <1>4, InUseHasUser
<1>6. \A d \in Clients : waiting[s] = <<d>> =>
        /\ FillsFor(d, s) /\ IsAsking(d) /\ ident[s] = req[d].id /\ load[s].op = req[d].op
        /\ load[s].mode = req[d].mode
  BY DEF Loading, FillsFor
<1> QED BY <1>2, <1>3, <1>5, <1>6 DEF Ready, OneSlot

\* A step of a goroutine that wakes nobody.
LEMMA GoroutineFrame ==
  ASSUME IInv, TypeOK', NEW s \in Slots, load[s].stage # "off",
         NEW to \in {"fill", "lock", "wake"}, load' = [load EXCEPT ![s].stage = to],
         UNCHANGED <<ident, Count, waiting, mounted, free, linked, lost, serverVars, clientVars>>
  PROVE  /\ CountIsUsers' /\ Serving' /\ OneSlot' /\ OneAsks' /\ Numbers'
         /\ \A d \in Clients : (Waiting(d) /\ Holding(d))'
         /\ \A t \in Slots : Loading(t)'
         /\ \A t \in Slots : Filling(t)' <=> Filling(t)
<1> USE DEF IInv, serverVars, clientVars
<1>2. \A d \in Clients, t \in Slots :
        /\ Has(d, t)' <=> Has(d, t)
        /\ Returns(d, t)' <=> Returns(d, t)
        /\ FillsFor(d, t)' <=> FillsFor(d, t)
        /\ Filling(t)' <=> Filling(t)
  BY DEF Has, Returns, FillsFor, Filling
<1>3. \A d \in Clients, t \in Slots : User(d, t)' <=> User(d, t)
  BY <1>2, GivenIs
<1>4. CountIsUsers'
  BY <1>3, UsersSame
<1>5. Serving'
  BY DEF Serving, IsAsking
<1>6. ASSUME NEW d \in Clients PROVE (Waiting(d) /\ Holding(d))'
  <2>1. Waiting(d)'
    BY DEF Waiting
  <2>2. Holding(d)'
    BY DEF Holding, Has, IsAsking
  <2> QED BY <2>1, <2>2
<1>7. ASSUME NEW t \in Slots PROVE Loading(t)'
  <2>1. CASE t = s
    BY <1>2, <1>3, <2>1 DEF Loading, IsAsking, TypeOK
  <2>2. CASE t # s
    BY <1>2, <1>3, <2>2 DEF Loading, IsAsking, TypeOK
  <2> QED BY <2>1, <2>2
<1>8. OneSlot' /\ OneAsks'
  BY DEF OneSlot, OneAsks, IsAsking
<1>9. Numbers'
  BY <1>2 DEF Numbers, Creating
<1>10. \A d \in Clients : (Waiting(d) /\ Holding(d))'
  BY <1>6
<1>11. \A t \in Slots : Loading(t)'
  BY <1>7
<1>12. \A t \in Slots : Filling(t)' <=> Filling(t)
  BY DEF Filling
<1> HIDE DEF IInv, serverVars, clientVars
<1> QED BY <1>4, <1>5, <1>8, <1>9, <1>10, <1>11, <1>12

\* A goroutine at another stage.
LoadStates == [stage : {"off", "load", "fill", "lock", "wake"}, op : {"get", "new"}, mode : Types]
LEMMA AtStage ==
  ASSUME NEW f \in [Slots -> LoadStates], NEW s \in Slots, NEW to \in {"fill", "lock", "wake"}
  PROVE  [f EXCEPT ![s].stage = to] \in [Slots -> LoadStates]
<1>1. [f[s] EXCEPT !.stage = to] \in LoadStates
  BY DEF LoadStates
<1> QED BY <1>1

LEMMA LoadInodeStep == ASSUME IInv, NEW s \in Slots, LoadInode(s) PROVE IInv'
<1>0. /\ load[s].stage = "load" /\ load' = [load EXCEPT ![s].stage = "fill"]
      /\ Inode' = [Inode EXCEPT ![s] = ident[s]] /\ Dirty' = [Dirty EXCEPT ![s] = FALSE]
      /\ UNCHANGED <<ident, Count, Server, waiting, disk, serverVars, clientVars>>
  BY DEF LoadInode, Step
<1>1. TypeOK'
  <2>1. load' \in [Slots -> LoadStates]
    BY <1>0, AtStage DEF IInv, TypeOK, LoadStates
  <2> QED BY <1>0, <2>1 DEF LoadStates, IInv, TypeOK, disk, serverVars, clientVars
<1>2. /\ CountIsUsers' /\ Serving' /\ OneSlot' /\ OneAsks' /\ Numbers'
      /\ \A d \in Clients : (Waiting(d) /\ Holding(d))'
      /\ \A t \in Slots : Loading(t)'
      /\ \A t \in Slots : Filling(t)' <=> Filling(t)
  <2>1. UNCHANGED <<ident, Count, waiting, mounted, free, linked, lost, serverVars, clientVars>>
    BY <1>0 DEF disk
  <2> QED BY <1>0, <1>1, <2>1, GoroutineFrame
<1>3. Count[s] > 0 /\ ident[s] \in Ids /\ ~(server = "lock" /\ xp = s)
  BY <1>0, BeingLoaded
<1> USE DEF IInv, disk, serverVars, clientVars
<1>4. ASSUME NEW t \in Slots PROVE Ready(t)'
  BY <1>0, <1>3 DEF Ready, TypeOK
<1>5. Links'
  BY <1>0, <1>2 DEF Links, Creating, TypeOK
<1>6. Unsaved'
  BY <1>0 DEF Unsaved, Flushing, TypeOK
<1> QED BY <1>1, <1>2, <1>4, <1>5, <1>6

LEMMA TakeMutexStep == ASSUME IInv, NEW s \in Slots, TakeMutex(s) PROVE IInv'
<1>0. /\ load[s].stage = "lock" /\ load' = [load EXCEPT ![s].stage = "wake"]
      /\ UNCHANGED <<slots, waiting, disk, serverVars, clientVars>>
  BY DEF TakeMutex, Step
<1>1. TypeOK'
  <2>1. load' \in [Slots -> LoadStates]
    BY <1>0, AtStage DEF IInv, TypeOK, LoadStates
  <2> QED BY <1>0, <2>1 DEF LoadStates, IInv, TypeOK, slots, disk, serverVars, clientVars
<1>2. /\ CountIsUsers' /\ Serving' /\ OneSlot' /\ OneAsks' /\ Numbers'
      /\ \A d \in Clients : (Waiting(d) /\ Holding(d))'
      /\ \A t \in Slots : Loading(t)'
      /\ \A t \in Slots : Filling(t)' <=> Filling(t)
  <2>1. UNCHANGED <<ident, Count, waiting, mounted, free, linked, lost, serverVars, clientVars>>
    BY <1>0 DEF disk, slots
  <2> QED BY <1>0, <1>1, <2>1, GoroutineFrame
<1> USE DEF IInv, slots, disk, serverVars, clientVars
<1>4. ASSUME NEW t \in Slots PROVE Ready(t)'
  BY <1>0 DEF Ready, TypeOK
<1>5. Links'
  BY <1>0, <1>2 DEF Links, Creating, TypeOK
<1>6. Unsaved'
  BY <1>0 DEF Unsaved, Flushing, TypeOK
<1> QED BY <1>1, <1>2, <1>4, <1>5, <1>6

LEMMA FillStep == ASSUME IInv, NEW s \in Slots, Fill(s) PROVE IInv'
<1> DEFINE i == ident[s]
           isnew == load[s].op = "new"
<1>0. /\ load[s].stage = "fill" /\ load' = [load EXCEPT ![s].stage = "lock"]
      /\ UNCHANGED <<ident, Count, Dirty, Inode, waiting, mounted, free, linked, lost, serverVars,
                     clientVars>>
  BY DEF Fill, Step
<1>1. /\ Filling(s) /\ Count[s] > 0 /\ i \in Ids /\ ~(server = "lock" /\ xp = s)
      /\ \E c \in Clients : waiting[s] = <<c>>
      /\ \A c \in Clients : waiting[s] = <<c>> =>
              /\ FillsFor(c, s) /\ IsAsking(c) /\ i = req[c].id /\ load[s].op = req[c].op
              /\ load[s].mode = req[c].mode
      /\ \A t \in Slots : Count[t] > 0 /\ ident[t] = i => t = s
  BY <1>0, BeingLoaded
<1>2. PICK c \in Clients : waiting[s] = <<c>>
  BY <1>1
<1>3. /\ IsAsking(c) /\ i = req[c].id /\ load[s].op = req[c].op /\ load[s].mode = req[c].mode
  BY <1>1, <1>2
<1>4. Inode[s] = i
  BY <1>0, <1>1 DEF IInv, Ready
<1>5. isnew => load[s].mode \in Modes /\ load[s].mode # I_NOT_ALLOC
  <2>1. req[c].op = "new" => req[c].mode \in Modes
    BY RequestsAre DEF IInv, TypeOK
  <2> QED BY <1>3, <2>1 DEF I_NOT_ALLOC
<1>6. ~isnew => req[c].op = "get" /\ i \in linked
  BY <1>3 DEF IInv, Numbers, IsAsking
<1>7. /\ table' = IF isnew THEN [table EXCEPT ![i] = [mode |-> load[s].mode, links |-> 1]] ELSE table
      /\ saved' = IF isnew THEN saved \ {i} ELSE saved
  BY <1>4 DEF Fill
<1>8. table'[i].mode # I_NOT_ALLOC /\ table'[i].mode \in Modes /\ table' \in [Ids -> [mode : Types, links : 0 .. 1]]
  <2>1. CASE isnew
    BY <1>1, <1>5, <1>7, <2>1 DEF IInv, TypeOK, Types
  <2>2. CASE ~isnew
    BY <1>1, <1>6, <1>7, <2>2 DEF IInv, TypeOK, Links, Types
  <2> QED BY <2>1, <2>2
<1>9. Server' = [Server EXCEPT ![s] = [kind |-> table'[i].mode, id |-> i, open |-> TRUE]]
  BY <1>4, <1>8 DEF Fill
<1>10. table'[i].links = 1
  BY <1>1, <1>6, <1>7 DEF IInv, Links, TypeOK
<1>11. \A j \in Ids \ {i} : table'[j] = table[j]
  BY <1>7 DEF IInv, TypeOK
<1> HIDE DEF i, isnew
<1>12. TypeOK'
  <2>1. load' \in [Slots -> LoadStates]
    BY <1>0, AtStage DEF IInv, TypeOK, LoadStates
  <2>2. Server' \in [Slots -> [kind : Modes \cup {"none"}, id : AnyId, open : BOOLEAN]]
    BY <1>1, <1>8, <1>9 DEF IInv, TypeOK, AnyId
  <2>3. saved' \subseteq Ids
    BY <1>7 DEF IInv, TypeOK
  <2> QED BY <1>0, <1>8, <2>1, <2>2, <2>3 DEF LoadStates, IInv, TypeOK, serverVars, clientVars
<1>13. /\ CountIsUsers' /\ Serving' /\ OneSlot' /\ OneAsks' /\ Numbers'
       /\ \A d \in Clients : (Waiting(d) /\ Holding(d))'
       /\ \A t \in Slots : Loading(t)'
       /\ \A t \in Slots : Filling(t)' <=> Filling(t)
  <2>1. UNCHANGED <<ident, Count, waiting, mounted, free, linked, lost, serverVars, clientVars>>
    BY <1>0
  <2> QED BY <1>0, <1>12, <2>1, GoroutineFrame
<1> USE DEF IInv, serverVars, clientVars
<1>14. /\ load'[s].stage = "lock" /\ load'[s].op = load[s].op
       /\ \A t \in Slots \ {s} : load'[t] = load[t]
  BY <1>0 DEF TypeOK
<1>15. ASSUME NEW t \in Slots PROVE Ready(t)'
  <2>1. CASE t = s
    BY <1>0, <1>1, <1>4, <1>8, <1>9, <2>1 DEF Ready, TypeOK, i
  <2>2. CASE t # s
    <3>1. Server'[t] = Server[t] /\ load'[t] = load[t]
      BY <1>9, <1>14, <2>2 DEF TypeOK
    <3>2. Count[t] > 0 => ident[t] \in Ids \ {i}
      BY <1>1, <2>2 DEF Ready
    <3>3. Count[t] > 0 => table'[ident[t]] = table[ident[t]]
      BY <1>11, <3>2
    <3> QED BY <1>0, <3>1, <3>3 DEF Ready
  <2> QED BY <2>1, <2>2
<1>16. Links'
  <2>1. \A j \in Ids : (j \in linked \/ \E d \in Clients : made[d] = j) => table'[j].links = 1
    BY <1>10, <1>11 DEF Links
  <2>2. \A j \in linked : table'[j].mode # I_NOT_ALLOC
    BY <1>8, <1>11 DEF Links, TypeOK
  <2>3. \A t \in Slots : Count[t] > 0 /\ load'[t].stage \in {"lock", "wake"} /\ load'[t].op = "new" =>
          table'[ident[t]].links = 1
    BY <1>1, <1>10, <1>11, <1>14 DEF Links, Ready, i
  <2>4. \A t \in Slots :
         Count[t] > 0 /\ ~Filling(t) /\ ident[t] \notin linked /\ ~Creating(ident[t]) =>
         table'[ident[t]].links = 0
    BY <1>1, <1>11 DEF Links, Ready, i
  <2>5. \A j : Creating(j)' <=> Creating(j)
    BY <1>0 DEF Creating
  <2> QED BY <1>0, <1>13, <2>1, <2>2, <2>3, <2>4, <2>5 DEF Links
<1>17. Unsaved'
  <2>1. \A j : Flushing(j)' <=> Flushing(j)
    BY <1>0 DEF Flushing
  <2>2. ASSUME NEW j \in Ids \ saved', j = i /\ isnew
        PROVE  /\ Count'[s] > 0 /\ ident'[s] = j
               /\ ~(server' = "lock" /\ xp' = s) /\ load'[s].stage \notin {"load"}
               /\ load'[s].stage \in {"lock", "wake"} /\ load'[s].op = "new"
    BY <1>0, <1>1, <1>14, <2>2 DEF i, isnew
  <2>3. ASSUME NEW j \in Ids \ saved
        PROVE  \E t \in Slots :
                 /\ Count'[t] > 0 /\ ident'[t] = j
                 /\ ~(server' = "lock" /\ xp' = t) /\ load'[t].stage \notin {"load"}
                 /\ Dirty'[t] \/ (load'[t].stage \in {"lock", "wake"} /\ load'[t].op = "new") \/ Flushing(j)'
    <3>1. PICK t \in Slots :
            /\ Count[t] > 0 /\ ident[t] = j
            /\ ~(server = "lock" /\ xp = t) /\ load[t].stage \notin {"load"}
            /\ Dirty[t] \/ (load[t].stage \in {"lock", "wake"} /\ load[t].op = "new") \/ Flushing(j)
      BY DEF Unsaved
    <3>2. load'[t].stage # "load" /\ (load[t].stage \in {"lock", "wake"} /\ load[t].op = "new" =>
               load'[t].stage \in {"lock", "wake"} /\ load'[t].op = "new")
      BY <1>0, <1>14, <3>1
    <3> QED BY <1>0, <2>1, <3>1, <3>2
  <2>4. \A j \in Ids \ saved' : j \in Ids \ saved \/ (j = i /\ isnew)
    BY <1>7
  <2> QED BY <2>2, <2>3, <2>4 DEF Unsaved
<1> QED BY <1>12, <1>13, <1>15, <1>16, <1>17
-----------------------------------------------------------------------------
(* Clients get their inodes. *)

\* Client c returns with the inode of slot s: the clients' part of the step.
LEMMA Returned ==
  ASSUME IInv, TypeOK', NEW c \in Clients, NEW s \in Slots, Return(c, s), pc[c] # "sending",
         IsAsking(c), ident[s] = req[c].id, Count[s] > 0,
         req[c].op = "new" => table[ident[s]].links = 1,
         UNCHANGED <<slots, table, saved, mounted, free, linked>>
  PROVE  /\ \A d \in Clients : Holding(d)'
         /\ OneSlot' /\ OneAsks'
         /\ linked \cap free = {} /\ \A t \in Slots : Count[t] > 0 => ident[t] \notin free
         /\ \A d \in Clients : req'[d].op = "get" => req'[d].id \in linked
         /\ \A i \in Ids : Creating(i)' <=> Creating(i)
         /\ \A i \in Ids : i \in linked \/ (\E d \in Clients : made'[d] = i) => table[i].links = 1
         /\ \A i \in Ids : Flushing(i) => Flushing(i)'
         /\ req[c].op = "new" => \A i \in Ids : i = ident[s] => Flushing(i)' /\ Creating(i)'
         /\ \A d \in Clients : pc'[d] = "idle" <=> req'[d].op = "none"
         /\ pc'[c] \notin {"receiving", "awaiting"} /\ ~IsAsking(c)'
         /\ \A d \in Clients \ {c} : pc'[d] = pc[d] /\ req'[d] = req[d] /\ holds'[d] = holds[d]
                                     /\ made'[d] = made[d]
         /\ \A d \in Clients, t \in Slots : Has(d, t)' <=> Has(d, t) \/ (d = c /\ t = s)
         /\ \A d \in Clients, t \in Slots : Returns(d, t)' <=> Returns(d, t)
<1> DEFINE i == req[c].id
<1> USE DEF IInv
<1>1. i \in Ids /\ i # NoId /\ req[c].op \in {"get", "new"} /\ made[c] = NoId /\ pc[c] # "idle"
  <2>1. i \in Ids
    BY RequestsAre DEF TypeOK, IsAsking
  <2>2. pc[c] # "idle" /\ made[c] = NoId
    BY DEF Holding, Waiting, IsAsking
  <2> QED BY <2>1, <2>2, NoIdIsNone DEF IsAsking
<1>2. holds' = [holds EXCEPT ![c] = @ \cup {Hold(i, s)}]
  BY DEF Return
<1>3. \/ /\ req[c].op = "new" /\ made' = [made EXCEPT ![c] = i]
         /\ pc' = [pc EXCEPT ![c] = "sending"]
         /\ req' = [req EXCEPT ![c] = Request("flush", i, s, I_NOT_ALLOC)]
      \/ /\ req[c].op = "get" /\ made' = made
         /\ pc' = [pc EXCEPT ![c] = "idle"] /\ req' = [req EXCEPT ![c] = NoRequest]
  BY <1>1 DEF Return
<1>4. /\ req'[c].op \in {"flush", "none"} /\ pc'[c] \in {"sending", "idle"}
      /\ pc'[c] = "idle" <=> req'[c].op = "none"
      /\ req'[c].op = "flush" => req'[c].id = i /\ req'[c].slot = s /\ made'[c] = i /\ req[c].op = "new"
      /\ req'[c].op # "flush" => made'[c] = NoId /\ req[c].op = "get"
      /\ req[c].op = "new" => req'[c].op = "flush"
      /\ \A d \in Clients \ {c} : pc'[d] = pc[d] /\ req'[d] = req[d] /\ holds'[d] = holds[d]
                                  /\ made'[d] = made[d]
  BY <1>1, <1>2, <1>3 DEF TypeOK, Request, NoRequest
<1>5. holds'[c] = holds[c] \cup {Hold(i, s)} /\ Hold(i, s).id = i /\ Hold(i, s).slot = s
  BY <1>2 DEF Hold, TypeOK
<1>6. \A d \in Clients, t \in Slots : Has(d, t)' <=> Has(d, t) \/ (d = c /\ t = s)
  BY <1>4, <1>5 DEF Has
<1>7. \A d \in Clients, t \in Slots : Returns(d, t)' <=> Returns(d, t)
  BY <1>1, <1>4 DEF Returns
<1>8. ASSUME NEW d \in Clients PROVE Holding(d)'
  <2>1. CASE d # c
    BY <1>4, <2>1 DEF Holding, slots, IsAsking, Has
  <2>2. CASE d = c
    BY <1>4, <1>5, <2>2 DEF Holding, slots, IsAsking, Hold
  <2> QED BY <2>1, <2>2
<1>9. OneSlot'
  BY DEF OneSlot, slots
<1>10. OneAsks'
  <2>1. \A d \in Clients \ {c} : made[d] # i
    <3>1. req[c].op = "new" => \A d \in Clients : made[d] # i
      BY DEF OneAsks
    <3>2. req[c].op = "get" => i \in linked
      BY DEF Numbers
    <3>3. \A d \in Clients : made[d] = i => i \notin linked
      BY <1>1 DEF Numbers, Creating
    <3> QED BY <1>1, <3>1, <3>2, <3>3
  <2>2. \A d \in Clients \ {c} : IsAsking(d) => req[d].id # i
    BY DEF OneAsks
  <2>3. \A d \in Clients : IsAsking(d)' <=> d # c /\ IsAsking(d)
    BY <1>4 DEF IsAsking
  <2>4. \A d, e \in Clients : IsAsking(d)' /\ IsAsking(e)' /\ req'[d].id = req'[e].id => d = e
    BY <1>4, <2>3 DEF OneAsks
  <2>5. \A d, e \in Clients : made'[d] # NoId /\ made'[d] = made'[e] => d = e
    BY <1>1, <1>4, <2>1 DEF OneAsks
  <2>6. \A d, e \in Clients : req'[d].op = "new" => made'[e] # req'[d].id
    <3> SUFFICES ASSUME NEW d \in Clients, NEW e \in Clients, req'[d].op = "new"
                 PROVE  made'[e] # req'[d].id
      OBVIOUS
    <3>1. d # c /\ req'[d] = req[d] /\ IsAsking(d) /\ req[d].id \in Ids
      BY <1>4, RequestsAre DEF IsAsking, TypeOK
    <3> QED BY <1>1, <1>4, <2>2, <3>1, NoIdIsNone DEF OneAsks
  <2> QED BY <2>4, <2>5, <2>6 DEF OneAsks
<1>11. /\ linked \cap free = {} /\ \A t \in Slots : Count[t] > 0 => ident[t] \notin free
       /\ \A d \in Clients : req'[d].op = "get" => req'[d].id \in linked
  BY <1>4 DEF Numbers
<1>12. \A j \in Ids : Creating(j)' <=> Creating(j)
  BY <1>1, <1>4, NoIdIsNone DEF Creating
<1>13. \A j \in Ids : j \in linked \/ (\E d \in Clients : made'[d] = j) => table[j].links = 1
  BY <1>4, NoIdIsNone DEF Links
<1>14. \A j \in Ids : Flushing(j) => Flushing(j)'
  BY <1>1, <1>4, NoIdIsNone DEF Flushing
<1>15. req[c].op = "new" => \A j \in Ids : j = ident[s] => Flushing(j)' /\ Creating(j)'
  <2>1. req[c].op = "new" => pc'[c] = "sending" /\ req'[c].op = "flush" /\ made'[c] = ident[s]
    BY <1>4
  <2> QED BY <2>1 DEF Flushing, Creating
<1>16. \A d \in Clients : pc'[d] = "idle" <=> req'[d].op = "none"
  BY <1>4 DEF Waiting
<1>17. pc'[c] \notin {"receiving", "awaiting"} /\ ~IsAsking(c)'
  BY <1>4 DEF IsAsking
<1> HIDE DEF IInv
<1> QED BY <1>4, <1>6, <1>7, <1>8, <1>9, <1>10, <1>11, <1>12, <1>13, <1>14, <1>15, <1>16, <1>17

LEMMA WakeStep == ASSUME IInv, NEW s \in Slots, NEW c \in Clients, Wake(s, c) PROVE IInv'
<1> DEFINE i == ident[s]
<1>0. /\ load[s].stage = "wake" /\ pc[c] = "awaiting" /\ c = Head(waiting[s])
      /\ Return(c, s) /\ UNCHANGED <<slots, disk, serverVars>>
  BY DEF Wake
<1>1. /\ Filling(s) /\ Count[s] > 0 /\ i \in Ids /\ ~(server = "lock" /\ xp = s)
      /\ \E d \in Clients : waiting[s] = <<d>>
      /\ \A d \in Clients : waiting[s] = <<d>> =>
              /\ FillsFor(d, s) /\ IsAsking(d) /\ i = req[d].id /\ load[s].op = req[d].op
              /\ load[s].mode = req[d].mode
      /\ \A t \in Slots : Count[t] > 0 /\ ident[t] = i => t = s
  BY <1>0, BeingLoaded
<1>2. waiting[s] = <<c>>
  BY <1>0, <1>1
<1>3. IsAsking(c) /\ i = req[c].id /\ load[s].op = req[c].op /\ FillsFor(c, s) /\ req[c].op \in {"get", "new"}
  BY <1>1, <1>2 DEF IsAsking
<1>4. waiting' = [waiting EXCEPT ![s] = <<>>] /\ load' = [load EXCEPT ![s] = Idle]
  BY <1>2 DEF Wake, Served
<1>5. \A t \in Slots : waiting'[t] = (IF t = s THEN <<>> ELSE waiting[t])
                       /\ load'[t] = (IF t = s THEN Idle ELSE load[t])
  BY <1>4 DEF IInv, TypeOK
<1>6. TypeOK'
  <2>1. load' \in [Slots -> [stage : {"off", "load", "fill", "lock", "wake"}, op : {"get", "new"}, mode : Types]]
    BY <1>4 DEF IInv, TypeOK, Idle, Types
  <2>2. waiting' \in [Slots -> {<<>>} \cup {<<d>> : d \in Clients}]
    BY <1>4 DEF IInv, TypeOK
  <2>3. holds' \in [Clients -> SUBSET [id : Ids, slot : Slots]]
    BY <1>0, <1>1, <1>3 DEF Return, IInv, TypeOK, Hold
  <2>4. pc' \in [Clients -> {"idle", "sending", "receiving", "awaiting"}]
    BY <1>0 DEF Return, IInv, TypeOK
  <2>5. req' \in [Clients -> AllRequests \cup {NoRequest}]
    <3>1. Request("flush", req[c].id, s, I_NOT_ALLOC) \in AllRequests \cup {NoRequest}
      BY <1>1, <1>3, FlushIsRequest
    <3>2. req' = [req EXCEPT ![c] = Request("flush", req[c].id, s, I_NOT_ALLOC)]
          \/ req' = [req EXCEPT ![c] = NoRequest]
      BY <1>0 DEF Return
    <3> QED BY <3>1, <3>2 DEF IInv, TypeOK
  <2>6. made' \in [Clients -> AnyId]
    BY <1>0, <1>1, <1>3 DEF Return, IInv, TypeOK, AnyId
  <2> QED BY <1>0, <2>1, <2>2, <2>3, <2>4, <2>5, <2>6 DEF IInv, TypeOK, slots, disk, serverVars
<1>7. req[c].op = "new" => table[i].links = 1
  BY <1>0, <1>1, <1>3 DEF IInv, Links
<1>8. /\ \A d \in Clients : Holding(d)'
      /\ OneSlot' /\ OneAsks'
      /\ linked \cap free = {} /\ \A t \in Slots : Count[t] > 0 => ident[t] \notin free
      /\ \A d \in Clients : req'[d].op = "get" => req'[d].id \in linked
      /\ \A j \in Ids : Creating(j)' <=> Creating(j)
      /\ \A j \in Ids : j \in linked \/ (\E d \in Clients : made'[d] = j) => table[j].links = 1
      /\ \A j \in Ids : Flushing(j) => Flushing(j)'
      /\ req[c].op = "new" => \A j \in Ids : j = ident[s] => Flushing(j)' /\ Creating(j)'
      /\ \A d \in Clients : pc'[d] = "idle" <=> req'[d].op = "none"
      /\ pc'[c] \notin {"receiving", "awaiting"} /\ ~IsAsking(c)'
      /\ \A d \in Clients \ {c} : pc'[d] = pc[d] /\ req'[d] = req[d] /\ holds'[d] = holds[d]
                                  /\ made'[d] = made[d]
      /\ \A d \in Clients, t \in Slots : Has(d, t)' <=> Has(d, t) \/ (d = c /\ t = s)
      /\ \A d \in Clients, t \in Slots : Returns(d, t)' <=> Returns(d, t)
  <2>1. UNCHANGED <<slots, table, saved, mounted, free, linked>>
    BY <1>0 DEF disk
  <2> QED BY <1>0, <1>1, <1>3, <1>6, <1>7, <2>1, Returned
<1>9. /\ UNCHANGED <<ident, Count, Dirty, Inode, Server, table, saved, free, linked, server, xp, cur, res>>
  BY <1>0 DEF slots, disk, serverVars
<1> HIDE DEF i
<1>10. \A d \in Clients, t \in Slots : FillsFor(d, t)' <=> FillsFor(d, t) /\ t # s
  BY <1>1, <1>5, <1>9 DEF FillsFor
<1>11. \A t \in Slots : Filling(t)' <=> Filling(t) /\ t # s
  BY <1>1, <1>5, <1>9 DEF Filling
<1>12. \A d \in Clients, t \in Slots : User(d, t)' <=> User(d, t)
  <2>1. \A d \in Clients : waiting[s] = <<d>> <=> d = c
    BY <1>2
  <2>2. \A d \in Clients, t \in Slots : waiting[t] = <<d>> <=> waiting'[t] = <<d>> \/ (t = s /\ d = c)
    BY <1>5, <2>1
  <2> QED BY <1>6, <1>8, <1>9, <2>2, GivenIs DEF IInv
<1>13. CountIsUsers'
  BY <1>9, <1>12, UsersSame DEF IInv
<1> USE DEF IInv
<1>14. server = "lock" => cur # c
  BY <1>0 DEF Serving
<1>15. server = "reply" => cur # c
  BY <1>0 DEF Serving
<1>16. Serving'
  <2>1. server = "reply" /\ res.kind = "async" => res.slot # s /\ res.slot \in Slots
    BY <1>2, <1>15 DEF Serving
  <2> QED BY <1>5, <1>8, <1>9, <1>14, <1>15, <2>1 DEF Serving, IsAsking
<1>17. ASSUME NEW d \in Clients PROVE Waiting(d)'
  <2>1. CASE d = c
    BY <1>8, <2>1 DEF Waiting
  <2>2. CASE d # c
    <3>1. \A t \in Slots : waiting[t] = <<d>> => waiting'[t] = <<d>>
      BY <1>2, <1>5, <2>2
    <3> QED BY <1>8, <1>9, <2>2, <3>1 DEF Waiting
  <2> QED BY <2>1, <2>2
<1>18. ASSUME NEW t \in Slots PROVE Loading(t)'
  <2>1. load'[t].stage = "off" <=> waiting'[t] = <<>>
    BY <1>5 DEF Loading, Idle
  <2>2. ASSUME NEW d \in Clients, waiting'[t] = <<d>>
        PROVE  /\ IsAsking(d)' /\ load'[t].op = req'[d].op /\ load'[t].mode = req'[d].mode
               /\ ident'[t] = req'[d].id
               /\ pc'[d] = "awaiting" \/ (server' = "reply" /\ cur' = d /\ res' = [kind |-> "async", slot |-> t])
    <3>1. t # s /\ waiting[t] = <<d>> /\ load'[t] = load[t]
      BY <1>5, <2>2
    <3>2. IsAsking(d) /\ ident[t] = req[d].id
      BY <3>1 DEF Loading
    <3>3. Count[t] > 0
      <4>1. FillsFor(d, t)
        BY <3>1 DEF FillsFor
      <4> HIDE DEF IInv
      <4> QED BY <4>1, FillerWaits, InUseHasUser DEF IInv
    <3>4. d # c
      BY <1>1, <1>3, <3>1, <3>2, <3>3
    <3> QED BY <1>8, <1>9, <3>1, <3>4 DEF Loading, IsAsking
  <2>3. \A d \in Clients : FillsFor(d, t)' => \A e \in Clients : User(e, t)' => e = d
    BY <1>10, <1>12 DEF Loading
  <2> QED BY <2>1, <2>2, <2>3 DEF Loading
<1>19. ASSUME NEW t \in Slots PROVE Ready(t)'
  BY <1>0, <1>1, <1>5, <1>9 DEF Ready, Idle
<1>20. Numbers'
  <2>1. \A j \in Ids : Creating(j)' => j \notin linked \cup free
    BY <1>8 DEF Numbers
  <2>2. \A t \in Slots : \A d \in Clients :
          Count[t] > 0 /\ req'[d].op = "new" /\ ident[t] = req'[d].id => FillsFor(d, t)'
    <3> SUFFICES ASSUME NEW t \in Slots, NEW d \in Clients, Count[t] > 0, req'[d].op = "new",
                        ident[t] = req'[d].id
                 PROVE  FillsFor(d, t)'
      OBVIOUS
    <3>1. d # c /\ req'[d] = req[d]
      BY <1>8 DEF IsAsking
    <3>2. FillsFor(d, t)
      BY <3>1 DEF Numbers
    <3>3. t # s
      BY <1>2, <1>1, <3>1, <3>2 DEF FillsFor
    <3> QED BY <1>10, <3>2, <3>3
  <2> QED BY <1>8, <1>9, <2>1, <2>2 DEF Numbers
<1>21. Links'
  <2>1. \A t \in Slots : Count[t] > 0 /\ load'[t].stage \in {"lock", "wake"} /\ load'[t].op = "new" =>
          table[ident[t]].links = 1
    BY <1>5 DEF Links, Idle
  <2>2. \A t \in Slots :
         Count[t] > 0 /\ ~Filling(t)' /\ ident[t] \notin linked /\ ~Creating(ident[t])' =>
         table[ident[t]].links = 0
    <3> SUFFICES ASSUME NEW t \in Slots, NEW j \in Ids, j = ident[t], Count[t] > 0, ~Filling(t)',
                        j \notin linked, ~Creating(j)'
                 PROVE  table[ident[t]].links = 0
      BY <1>9 DEF Ready
    <3>2. ~Creating(j)
      BY <1>8
    <3>3. t # s
      <4>1. req[c].op = "get" => i \in linked
        BY <1>3 DEF Numbers
      <4> QED BY <1>3, <1>8, <4>1 DEF i
    <3> QED BY <1>11, <3>2, <3>3 DEF Links
  <2> QED BY <1>8, <1>9, <2>1, <2>2 DEF Links
<1>22. Unsaved'
  <2> SUFFICES ASSUME NEW j \in Ids \ saved
               PROVE  \E t \in Slots :
                 /\ Count'[t] > 0 /\ ident'[t] = j
                 /\ ~(server' = "lock" /\ xp' = t) /\ load'[t].stage \notin {"load"}
                 /\ Dirty'[t] \/ (load'[t].stage \in {"lock", "wake"} /\ load'[t].op = "new") \/ Flushing(j)'
    BY <1>9 DEF Unsaved
  <2>1. PICK t \in Slots :
          /\ Count[t] > 0 /\ ident[t] = j
          /\ ~(server = "lock" /\ xp = t) /\ load[t].stage \notin {"load"}
          /\ Dirty[t] \/ (load[t].stage \in {"lock", "wake"} /\ load[t].op = "new") \/ Flushing(j)
    BY DEF Unsaved
  <2>2. load'[t].stage # "load"
    BY <1>5, <2>1 DEF Idle
  <2>3. load[t].stage \in {"lock", "wake"} /\ load[t].op = "new" =>
          (load'[t].stage \in {"lock", "wake"} /\ load'[t].op = "new") \/ Flushing(j)'
    BY <1>3, <1>5, <1>8, <2>1 DEF i
  <2> QED BY <1>8, <1>9, <2>1, <2>2, <2>3
<1> QED BY <1>6, <1>8, <1>13, <1>16, <1>17, <1>18, <1>19, <1>20, <1>21, <1>22

\* The response is received: what all kinds of responses have in common.
LEMMA Replied ==
  ASSUME IInv, NEW c \in Clients, Reply(c)
  PROVE  /\ c = cur /\ server = "reply" /\ pc[c] = "receiving"
         /\ server' \in {"closed", "loop"} /\ res' = NoResponse /\ xp' = nil /\ cur' = nil
         /\ UNCHANGED <<slots, waiting, table, saved, mounted, free, linked, load>>
         /\ \A d \in Clients : pc[d] = "receiving" => d = c
         /\ \A d \in Clients, t \in Slots : FillsFor(d, t)' <=> FillsFor(d, t)
         /\ \A t \in Slots : Filling(t)' <=> Filling(t)
         /\ \A t \in Slots : FillsFor(c, t) => res.kind = "async"
         /\ \A d \in Clients, t \in Slots : waiting[t] = <<d>> /\ d # c => pc[d] = "awaiting"
         /\ Serving'
         /\ lost' \subseteq Ids
         /\ \A t \in Slots : Ready(t)'
<1> USE DEF IInv, Reply
<1>1. c = cur /\ server = "reply" /\ pc[c] = "receiving"
  BY DEF Waiting
<1>2. /\ server' \in {"closed", "loop"} /\ res' = NoResponse /\ xp' = nil /\ cur' = nil
      /\ UNCHANGED <<slots, waiting, table, saved, mounted, free, linked, load>>
  OBVIOUS
<1>3. \A d \in Clients : pc[d] = "receiving" => d = c
  BY <1>1 DEF Waiting
<1>4. \A d \in Clients, t \in Slots : FillsFor(d, t)' <=> FillsFor(d, t)
  BY <1>1, <1>2 DEF FillsFor
<1>5. \A t \in Slots : Filling(t)' <=> Filling(t)
  BY <1>1, <1>2 DEF Filling
<1>6. \A d \in Clients, t \in Slots : waiting[t] = <<d>> =>
        pc[d] = "awaiting" \/ (cur = d /\ res.kind = "async")
  BY DEF Loading
<1>7. \A t \in Slots : FillsFor(c, t) => res.kind = "async"
  BY <1>1, <1>6 DEF FillsFor
<1>8. \A d \in Clients, t \in Slots : waiting[t] = <<d>> /\ d # c => pc[d] = "awaiting"
  BY <1>1, <1>6
<1>9. Serving'
  BY <1>2 DEF Serving, NoResponse
<1>10. lost' \subseteq Ids
  <2>1. req[c].op = "new" => req[c].id \in Ids
    BY RequestsAre DEF TypeOK
  <2> QED BY <2>1 DEF TypeOK
<1>11. ASSUME NEW t \in Slots PROVE Ready(t)'
  BY <1>1, <1>2 DEF Ready, slots
<1> HIDE DEF IInv, Reply
<1> QED BY <1>1, <1>2, <1>3, <1>4, <1>5, <1>7, <1>8, <1>9, <1>10, <1>11

LEMMA ReplyInode == ASSUME IInv, NEW c \in Clients, Reply(c), res.kind = "inode" PROVE IInv'
<1> DEFINE s == res.slot
<1>0. /\ c = cur /\ server = "reply" /\ pc[c] = "receiving"
      /\ server' \in {"closed", "loop"} /\ res' = NoResponse /\ xp' = nil /\ cur' = nil
      /\ UNCHANGED <<slots, waiting, table, saved, mounted, free, linked, load>>
      /\ \A d \in Clients : pc[d] = "receiving" => d = c
      /\ \A d \in Clients, t \in Slots : FillsFor(d, t)' <=> FillsFor(d, t)
      /\ \A t \in Slots : Filling(t)' <=> Filling(t)
      /\ \A t \in Slots : FillsFor(c, t) => res.kind = "async"
      /\ \A d \in Clients, t \in Slots : waiting[t] = <<d>> /\ d # c => pc[d] = "awaiting"
      /\ Serving'
      /\ lost' \subseteq Ids
      /\ \A t \in Slots : Ready(t)'
  BY Replied
<1>1. Return(c, s)
  BY DEF Reply
<1>2. s \in Slots /\ ident[s] = req[c].id /\ IsAsking(c) /\ req[c].op = "get" /\ req[c].id \in Ids
  <2>1. req[c].op = "get" => req[c].id \in Ids
    BY RequestsAre DEF IInv, TypeOK
  <2> QED BY <1>0, <2>1 DEF IInv, Serving
<1>3. User(c, s)
  BY <1>0 DEF User, Given
<1>4. Count[s] > 0
  BY <1>2, <1>3, InUseHasUser DEF IInv
<1> HIDE DEF s
<1>5. TypeOK'
  <2>1. holds' \in [Clients -> SUBSET [id : Ids, slot : Slots]]
    BY <1>1, <1>2 DEF Return, IInv, TypeOK, Hold
  <2>2. pc' \in [Clients -> {"idle", "sending", "receiving", "awaiting"}]
    BY <1>1 DEF Return, IInv, TypeOK
  <2>3. req' \in [Clients -> AllRequests \cup {NoRequest}]
    BY <1>1, <1>2 DEF Return, IInv, TypeOK
  <2>4. made' \in [Clients -> AnyId]
    BY <1>1, <1>2 DEF Return, IInv, TypeOK
  <2> QED BY <1>0, <2>1, <2>2, <2>3, <2>4 DEF IInv, TypeOK, slots, NoResponse, AnySlot
<1>6. /\ \A d \in Clients : Holding(d)'
      /\ OneSlot' /\ OneAsks'
      /\ linked \cap free = {} /\ \A t \in Slots : Count[t] > 0 => ident[t] \notin free
      /\ \A d \in Clients : req'[d].op = "get" => req'[d].id \in linked
      /\ \A j \in Ids : Creating(j)' <=> Creating(j)
      /\ \A j \in Ids : j \in linked \/ (\E d \in Clients : made'[d] = j) => table[j].links = 1
      /\ \A j \in Ids : Flushing(j) => Flushing(j)'
      /\ \A d \in Clients : pc'[d] = "idle" <=> req'[d].op = "none"
      /\ pc'[c] \notin {"receiving", "awaiting"} /\ ~IsAsking(c)'
      /\ \A d \in Clients \ {c} : pc'[d] = pc[d] /\ req'[d] = req[d] /\ holds'[d] = holds[d]
                                  /\ made'[d] = made[d]
      /\ \A d \in Clients, t \in Slots : Has(d, t)' <=> Has(d, t) \/ (d = c /\ t = s)
      /\ \A d \in Clients, t \in Slots : Returns(d, t)' <=> Returns(d, t)
  BY <1>0, <1>1, <1>2, <1>4, <1>5, Returned
<1>7. \A d \in Clients, t \in Slots : User(d, t)' <=> User(d, t)
  BY <1>0, <1>5, <1>6, GivenIs DEF IInv, s
<1>8. CountIsUsers'
  BY <1>0, <1>7, UsersSame DEF IInv, slots
<1> USE DEF IInv, slots
<1>9. ASSUME NEW d \in Clients PROVE Waiting(d)'
  BY <1>0, <1>6 DEF Waiting
<1>10. ASSUME NEW t \in Slots PROVE Loading(t)'
  <2>1. \A d \in Clients : waiting[t] = <<d>> => d # c /\ pc[d] = "awaiting"
    BY <1>0 DEF FillsFor
  <2> QED BY <1>0, <1>6, <1>7, <2>1 DEF Loading, IsAsking
<1>11. Numbers'
  <2>1. \A t \in Slots : \A d \in Clients :
          Count[t] > 0 /\ req'[d].op = "new" /\ ident[t] = req'[d].id => FillsFor(d, t)'
    BY <1>0, <1>6 DEF Numbers, IsAsking
  <2>2. \A j \in Ids : Creating(j)' => j \notin linked \cup free
    BY <1>6 DEF Numbers
  <2> QED BY <1>0, <1>6, <2>1, <2>2 DEF Numbers
<1>12. Links'
  <2>1. \A t \in Slots :
         Count[t] > 0 /\ ~Filling(t)' /\ ident[t] \notin linked /\ ~Creating(ident[t])' =>
         table[ident[t]].links = 0
    <3> SUFFICES ASSUME NEW t \in Slots, NEW j \in Ids, j = ident[t], Count[t] > 0, ~Filling(t)',
                        j \notin linked, ~Creating(j)'
                 PROVE  table[ident[t]].links = 0
      BY <1>0 DEF Ready
    <3> QED BY <1>0, <1>6 DEF Links
  <2> QED BY <1>0, <1>6, <2>1 DEF Links
<1>13. Unsaved'
  BY <1>0, <1>6 DEF Unsaved
<1> QED BY <1>0, <1>5, <1>6, <1>8, <1>9, <1>10, <1>11, <1>12, <1>13

\* Any other response changes the client's state only.
LEMMA ReplyOther == ASSUME IInv, NEW c \in Clients, Reply(c), res.kind # "inode" PROVE IInv'
<1>0. /\ c = cur /\ server = "reply" /\ pc[c] = "receiving"
      /\ server' \in {"closed", "loop"} /\ res' = NoResponse /\ xp' = nil /\ cur' = nil
      /\ UNCHANGED <<slots, waiting, table, saved, mounted, free, linked, load>>
      /\ \A d \in Clients : pc[d] = "receiving" => d = c
      /\ \A d \in Clients, t \in Slots : FillsFor(d, t)' <=> FillsFor(d, t)
      /\ \A t \in Slots : Filling(t)' <=> Filling(t)
      /\ \A t \in Slots : FillsFor(c, t) => res.kind = "async"
      /\ \A d \in Clients, t \in Slots : waiting[t] = <<d>> /\ d # c => pc[d] = "awaiting"
      /\ Serving'
      /\ lost' \subseteq Ids
      /\ \A t \in Slots : Ready(t)'
  BY Replied
<1>1. /\ UNCHANGED <<holds, made>>
      /\ \A d \in Clients \ {c} : pc'[d] = pc[d] /\ req'[d] = req[d]
      /\ \/ res.kind = "async" /\ pc' = [pc EXCEPT ![c] = "awaiting"] /\ req' = req
         \/ res.kind # "async" /\ pc' = [pc EXCEPT ![c] = "idle"] /\ req' = [req EXCEPT ![c] = NoRequest]
  BY DEF Reply, IInv, TypeOK
<1>2. TypeOK'
  <2>1. pc' \in [Clients -> {"idle", "sending", "receiving", "awaiting"}]
    BY <1>1 DEF IInv, TypeOK
  <2>2. req' \in [Clients -> AllRequests \cup {NoRequest}]
    BY <1>1 DEF IInv, TypeOK
  <2> QED BY <1>0, <1>1, <2>1, <2>2 DEF IInv, TypeOK, slots, NoResponse, AnySlot
<1>3. \A d \in Clients, t \in Slots : (Has(d, t)' <=> Has(d, t)) /\ (Returns(d, t)' <=> Returns(d, t))
  BY <1>0, <1>1 DEF Has, Returns, IInv, TypeOK
<1>4. \A d \in Clients, t \in Slots : User(d, t)' <=> User(d, t)
  BY <1>0, <1>2, <1>3, GivenIs DEF IInv
<1>5. CountIsUsers'
  BY <1>0, <1>4, UsersSame DEF IInv, slots
<1> USE DEF IInv, slots
<1>6. /\ IsAsking(c) <=> res.kind \in {"async", "ENFILE"}
      /\ res.kind = "async" => waiting[res.slot] = <<c>> /\ res.slot \in Slots
  BY <1>0 DEF Serving
<1>7. \/ pc'[c] = "awaiting" /\ req' = req /\ res.kind = "async"
      \/ pc'[c] = "idle" /\ req'[c].op = "none" /\ res.kind # "async"
  BY <1>1 DEF TypeOK, NoRequest, Request
<1>8. ASSUME NEW d \in Clients PROVE (Waiting(d) /\ Holding(d))'
  <2>1. Waiting(d)'
    BY <1>0, <1>1, <1>6, <1>7 DEF Waiting
  <2>2. Holding(d)'
    <3>1. CASE d = c
      BY <1>0, <1>1, <1>7, <3>1 DEF Holding, Has, IsAsking
    <3>2. CASE d # c
      BY <1>0, <1>1, <3>2 DEF Holding, Has, IsAsking
    <3> QED BY <3>1, <3>2
  <2> QED BY <2>1, <2>2
<1>9. ASSUME NEW t \in Slots PROVE Loading(t)'
  <2>1. \A d \in Clients : waiting[t] = <<d>> => pc'[d] = "awaiting" /\ req'[d] = req[d]
    BY <1>0, <1>1, <1>7 DEF FillsFor
  <2> QED BY <1>0, <1>4, <2>1 DEF Loading, IsAsking
<1>10. OneSlot'
  BY <1>0 DEF OneSlot
<1>11. \A d \in Clients : req'[d].op # "none" => req'[d] = req[d]
  BY <1>1, <1>7
<1>12. OneAsks'
  BY <1>1, <1>11 DEF OneAsks, IsAsking
<1>13. \A i \in Ids : Creating(i)' => Creating(i)
  BY <1>1, <1>11 DEF Creating
<1>14. Numbers'
  <2>1. \A t \in Slots : \A d \in Clients :
          Count[t] > 0 /\ req'[d].op = "new" /\ ident[t] = req'[d].id => FillsFor(d, t)'
    BY <1>0, <1>11 DEF Numbers
  <2>2. \A d \in Clients : req'[d].op = "get" => req'[d].id \in linked
    BY <1>11 DEF Numbers
  <2> QED BY <1>0, <1>13, <2>1, <2>2 DEF Numbers
<1>15. Links'
  <2>1. \A t \in Slots :
         Count[t] > 0 /\ ~Filling(t)' /\ ident[t] \notin linked /\ ~Creating(ident[t])' =>
         table[ident[t]].links = 0
    <3> SUFFICES ASSUME NEW t \in Slots, NEW j \in Ids, j = ident[t], Count[t] > 0, ~Filling(t)',
                        j \notin linked, ~Creating(j)'
                 PROVE  table[ident[t]].links = 0
      BY <1>0 DEF Ready
    <3>1. ~Creating(j)
      <4> SUFFICES ASSUME NEW d \in Clients, req[d].op = "new", req[d].id = j PROVE FALSE
        BY <1>1 DEF Creating
      <4>1. FillsFor(d, t)
        BY DEF Numbers
      <4>2. Filling(t)
        <5> HIDE DEF IInv
        <5> QED BY <4>1, FillerWaits
      <4> QED BY <1>0, <4>2
    <3> QED BY <1>0, <3>1 DEF Links
  <2> QED BY <1>0, <1>1, <2>1 DEF Links
<1>16. Unsaved'
  <2>1. \A i : Flushing(i)' <=> Flushing(i)
    BY <1>0, <1>1, <1>7 DEF Flushing
  <2> QED BY <1>0, <2>1 DEF Unsaved
<1> QED BY <1>0, <1>2, <1>5, <1>8, <1>9, <1>10, <1>12, <1>14, <1>15, <1>16

LEMMA ReplyStep == ASSUME IInv, NEW c \in Clients, Reply(c) PROVE IInv'
BY ReplyInode, ReplyOther
-----------------------------------------------------------------------------
(* What clients do. *)

\* Client c calls the cache: an inode that it returns is no longer held.
LEMMA CallStep == ASSUME NobodyAsks, IInv, NEW c \in Clients, NEW r \in Requests, Call(c, r) PROVE IInv'
<1>0. /\ pc[c] = "idle" /\ made[c] = NoId /\ req[c].op = "none" /\ MayCall(c, r)
      /\ pc' = [pc EXCEPT ![c] = "sending"] /\ req' = [req EXCEPT ![c] = r]
      /\ holds' = IF r.op = "put" THEN [holds EXCEPT ![c] = @ \ {Hold(r.id, r.slot)}] ELSE holds
      /\ free' = IF r.op = "new" THEN free \ {r.id} ELSE free
      /\ UNCHANGED <<slots, waiting, table, saved, mounted, linked, lost, serverVars, load, made>>
  BY DEF Call, IInv, Waiting
<1>1. r \in AllRequests \cup {NoRequest} /\ r \in AllRequests /\ r.op # "none"
  <2>1. r \in AllRequests
    BY DEF Requests
  <2> QED BY <2>1 DEF AllRequests, Request
<1>2. /\ r.op \in {"get", "new", "put", "flush"} => r.id \in Ids
      /\ r.op \in {"put", "flush"} => r.slot \in Slots /\ Hold(r.id, r.slot) \in holds[c]
      /\ r.op = "get" => r.id \in linked /\ \A h \in holds[c] : h.id # r.id
      /\ r.op = "new" => r.id \in free
  BY <1>0, <1>1, RequestsAre DEF MayCall
<1>3. /\ pc'[c] = "sending" /\ req'[c] = r
      /\ \A d \in Clients \ {c} : pc'[d] = pc[d] /\ req'[d] = req[d] /\ holds'[d] = holds[d]
      /\ holds'[c] = IF r.op = "put" THEN holds[c] \ {Hold(r.id, r.slot)} ELSE holds[c]
  BY <1>0 DEF IInv, TypeOK
<1>4. TypeOK'
  <2>1. pc' \in [Clients -> {"idle", "sending", "receiving", "awaiting"}]
    BY <1>0 DEF IInv, TypeOK
  <2>2. req' \in [Clients -> AllRequests \cup {NoRequest}]
    BY <1>0, <1>1 DEF IInv, TypeOK
  <2>3. holds' \in [Clients -> SUBSET [id : Ids, slot : Slots]]
    BY <1>0 DEF IInv, TypeOK
  <2> QED BY <1>0, <2>1, <2>2, <2>3 DEF IInv, TypeOK, slots, serverVars
<1>5. r.op = "put" => ident[r.slot] = r.id /\ \A h \in holds[c] : h.slot = r.slot => h = Hold(r.id, r.slot)
  <2> SUFFICES ASSUME r.op = "put"
               PROVE  ident[r.slot] = r.id /\ \A h \in holds[c] : h.slot = r.slot => h = Hold(r.id, r.slot)
    OBVIOUS
  <2>1. ident[r.slot] = r.id
    <3>1. Hold(r.id, r.slot).id = r.id /\ Hold(r.id, r.slot).slot = r.slot
      BY DEF Hold
    <3>2. \A h \in holds[c] : ident[h.slot] = h.id
      BY DEF IInv, Holding
    <3> QED BY <1>2, <3>1, <3>2
  <2>2. \A h \in holds[c] : h.slot = r.slot => h.id = r.id
    BY <2>1 DEF IInv, Holding
  <2>3. \A h \in holds[c] : h = Hold(h.id, h.slot)
    BY DEF IInv, TypeOK, Hold
  <2> QED BY <2>1, <2>2, <2>3
<1>6. \A d \in Clients, t \in Slots :
        Has(d, t)' \/ Returns(d, t)' <=> Has(d, t) \/ Returns(d, t)
  <2> SUFFICES ASSUME NEW t \in Slots
               PROVE  /\ Has(c, t)' \/ Returns(c, t)' <=> Has(c, t) \/ Returns(c, t)
                      /\ \A d \in Clients \ {c} : Has(d, t)' \/ Returns(d, t)' <=> Has(d, t) \/ Returns(d, t)
    OBVIOUS
  <2>1. \A d \in Clients \ {c} : Has(d, t)' \/ Returns(d, t)' <=> Has(d, t) \/ Returns(d, t)
    BY <1>3 DEF Has, Returns
  <2>2. CASE r.op = "put" /\ t = r.slot
    <3>1. Has(c, t)
      BY <1>2, <2>2 DEF Has, Hold
    <3>2. Returns(c, t)'
      BY <1>3, <2>2 DEF Returns
    <3> QED BY <2>1, <3>1, <3>2
  <2>3. CASE ~(r.op = "put" /\ t = r.slot)
    <3>1. Has(c, t)' <=> Has(c, t)
      BY <1>3, <2>3 DEF Has, Hold
    <3>2. ~Returns(c, t) /\ ~Returns(c, t)'
      BY <1>0, <1>3, <2>3 DEF Returns
    <3> QED BY <2>1, <3>1, <3>2
  <2> QED BY <2>2, <2>3
<1>7. \A d \in Clients, t \in Slots : User(d, t)' <=> User(d, t)
  BY <1>0, <1>4, <1>6, GivenIs DEF serverVars, IInv
<1>8. CountIsUsers'
  BY <1>0, <1>7, UsersSame DEF IInv, slots
<1> USE DEF IInv, slots, serverVars
<1>9. Serving'
  BY <1>0, <1>3 DEF Serving, IsAsking
<1>10. ASSUME NEW d \in Clients PROVE (Waiting(d) /\ Holding(d))'
  <2>1. Waiting(d)'
    BY <1>0, <1>1, <1>3 DEF Waiting
  <2>2. CASE d # c
    <3>1. Holding(d)'
      BY <1>0, <1>3, <2>2 DEF Holding, Has, IsAsking
    <3> QED BY <2>1, <3>1
  <2>3. CASE d = c
    <3>1. \A h \in holds'[c] : h \in holds[c]
      BY <1>3
    <3>2. r.op = "new" => \A h \in holds[c] : h.id # r.id
      <4> SUFFICES ASSUME r.op = "new", NEW h \in holds[c], h.id = r.id PROVE FALSE
        OBVIOUS
      <4>1. h \in [id : Ids, slot : Slots] /\ Has(c, h.slot) /\ ident[h.slot] = h.id
        <5> HIDE DEF IInv
        <5> QED BY HolderKnows
      <4>2. ident[h.slot] \notin free
        <5> HIDE DEF IInv
        <5> QED BY <4>1, Settled
      <4> QED BY <1>2, <4>1, <4>2
    <3>3. r.op = "put" => \A h \in holds'[c] : h.slot # r.slot
      BY <1>3, <1>5
    <3>4. Holding(c)'
      <4>1. \A h \in holds'[c] : ident'[h.slot] = h.id
        BY <1>0, <3>1 DEF Holding
      <4>2. r.op = "put" => ident'[r.slot] = r.id /\ ~Has(c, r.slot)'
        BY <1>0, <1>5, <3>3 DEF Has
      <4>3. r.op \in {"get", "new"} => \A h \in holds'[c] : h.id # r.id
        BY <1>2, <3>1, <3>2
      <4>4. r.op = "flush" => Hold(r.id, r.slot) \in holds'[c]
        BY <1>2, <1>3
      <4>5. made'[c] = NoId
        BY <1>0
      <4> QED BY <1>3, <4>1, <4>2, <4>3, <4>4, <4>5 DEF Holding, IsAsking, Has
    <3> QED BY <2>1, <2>3, <3>4
  <2> QED BY <2>2, <2>3
<1>11. \A d \in Clients, t \in Slots : FillsFor(d, t)' <=> FillsFor(d, t)
  BY <1>0 DEF FillsFor
<1>12. \A t \in Slots : Filling(t)' <=> Filling(t)
  BY <1>0 DEF Filling
<1>13. ASSUME NEW t \in Slots PROVE (Loading(t) /\ Ready(t))'
  <2>1. \A d \in Clients : waiting[t] = <<d>> => IsAsking(d) /\ d # c
    BY <1>0 DEF Loading, IsAsking
  <2>2. Loading(t)'
    BY <1>0, <1>3, <1>7, <1>11, <2>1 DEF Loading, IsAsking
  <2>3. Ready(t)'
    BY <1>0 DEF Ready
  <2> QED BY <2>2, <2>3
<1>14. OneSlot'
  BY <1>0 DEF OneSlot
<1>15. r.op \in {"get", "new"} => \A d \in Clients : IsAsking(d) => req[d].id # r.id
  <2>1. r.op = "new" => \A d \in Clients : IsAsking(d) => req[d].id # r.id
    BY <1>2 DEF Numbers, IsAsking, Creating
  <2>2. r.op = "get" /\ NobodyAsks => \A d \in Clients : IsAsking(d) => req[d].id # r.id
    BY <1>0 DEF MayCall, NobodyAsks, Asking, IsAsking
  <2> QED BY <2>1, <2>2
<1>16. OneAsks'
  <2>1. \A d \in Clients : made[d] # NoId => made[d] \notin free
    BY DEF Numbers, Creating, TypeOK, AnyId
  <2>2. \A d, e \in Clients : IsAsking(d)' /\ IsAsking(e)' /\ req'[d].id = req'[e].id => d = e
    BY <1>3, <1>15 DEF OneAsks, IsAsking
  <2>3. \A d, e \in Clients : req'[d].op = "new" => made'[e] # req'[d].id
    BY <1>0, <1>2, <1>3, <2>1, NoIdIsNone DEF OneAsks
  <2> QED BY <1>0, <2>2, <2>3 DEF OneAsks
<1>17. \A i \in Ids : Creating(i)' <=> Creating(i) \/ (r.op = "new" /\ r.id = i)
  BY <1>0, <1>3 DEF Creating
<1>18. Numbers'
  <2>1. linked \cap free' = {} /\ \A t \in Slots : Count[t] > 0 => ident[t] \notin free'
    BY <1>0 DEF Numbers
  <2>2. \A d \in Clients : req'[d].op = "get" => req'[d].id \in linked
    BY <1>2, <1>3 DEF Numbers
  <2>3. \A i \in Ids : Creating(i)' => i \notin linked \cup free'
    BY <1>0, <1>2, <1>17 DEF Numbers
  <2>4. \A t \in Slots : \A d \in Clients :
          Count[t] > 0 /\ req'[d].op = "new" /\ ident[t] = req'[d].id => FillsFor(d, t)'
    BY <1>2, <1>3, <1>11 DEF Numbers
  <2> QED BY <1>0, <2>1, <2>2, <2>3, <2>4 DEF Numbers
<1>19. Links'
  <2>1. \A t \in Slots :
         Count[t] > 0 /\ ~Filling(t)' /\ ident[t] \notin linked /\ ~Creating(ident[t])' =>
         table[ident[t]].links = 0
    <3> SUFFICES ASSUME NEW t \in Slots, NEW j \in Ids, j = ident[t], Count[t] > 0, ~Filling(t)',
                        j \notin linked, ~Creating(j)'
                 PROVE  table[ident[t]].links = 0
      BY <1>0 DEF Ready
    <3> QED BY <1>12, <1>17 DEF Links
  <2> QED BY <1>0, <2>1 DEF Links
<1>20. Unsaved'
  <2>1. \A i : Flushing(i) => Flushing(i)'
    BY <1>0, <1>3 DEF Flushing
  <2> QED BY <1>0, <2>1 DEF Unsaved
<1> QED BY <1>4, <1>8, <1>9, <1>10, <1>13, <1>14, <1>16, <1>18, <1>19, <1>20

\* A step of an idle client that leaves its calls and the slots' users alone.
LEMMA IdleFrame ==
  ASSUME IInv, NEW c \in Clients, pc[c] = "idle",
         UNCHANGED <<ident, Count, Inode, Server, waiting, free, serverVars, load, pc, req, holds>>,
         TypeOK', made' = made \/ made' = [made EXCEPT ![c] = NoId]
  PROVE  /\ CountIsUsers' /\ Serving' /\ OneSlot' /\ OneAsks'
         /\ \A d \in Clients : (Waiting(d) /\ Holding(d))'
         /\ \A t \in Slots : Loading(t)'
         /\ \A d \in Clients, t \in Slots : FillsFor(d, t)' <=> FillsFor(d, t)
         /\ \A t \in Slots : Filling(t)' <=> Filling(t)
         /\ \A i \in Ids : Flushing(i)' <=> Flushing(i)
         /\ \A i \in Ids : Creating(i)' => Creating(i)
         /\ \A i \in Ids : Creating(i) => Creating(i)' \/ (made[c] = i /\ made'[c] = NoId)
         /\ \A d \in Clients : made'[d] = made[d] \/ (d = c /\ made'[d] = NoId)
<1> USE DEF serverVars
<1>1. \A d \in Clients : made'[d] = made[d] \/ (d = c /\ made'[d] = NoId)
  BY DEF IInv, TypeOK
<1>2. \A d \in Clients, t \in Slots : FillsFor(d, t)' <=> FillsFor(d, t)
  BY DEF FillsFor
<1>3. \A t \in Slots : Filling(t)' <=> Filling(t)
  BY DEF Filling
<1>4. \A i \in Ids : Flushing(i)' <=> Flushing(i)
  <2>1. ASSUME NEW i \in Ids, Flushing(i) PROVE Flushing(i)'
    <3>1. PICK d \in Clients : pc[d] = "sending" /\ req[d].op = "flush" /\ made[d] = i
      BY <2>1 DEF Flushing
    <3> QED BY <1>1, <3>1 DEF Flushing
  <2>2. ASSUME NEW i \in Ids, Flushing(i)' PROVE Flushing(i)
    BY <1>1, <2>2, NoIdIsNone DEF Flushing
  <2> QED BY <2>1, <2>2
<1>5. \A i \in Ids : Creating(i)' => Creating(i)
  BY <1>1, NoIdIsNone DEF Creating
<1>6. \A i \in Ids : Creating(i) => Creating(i)' \/ (made[c] = i /\ made'[c] = NoId)
  <2> SUFFICES ASSUME NEW i \in Ids, NEW d \in Clients, (req[d].op = "new" /\ req[d].id = i) \/ made[d] = i
               PROVE  Creating(i)' \/ (made[c] = i /\ made'[c] = NoId)
    BY DEF Creating
  <2> QED BY <1>1 DEF Creating
<1>7. \A d \in Clients, t \in Slots : User(d, t)' <=> User(d, t)
  BY DEF User, Given, Has, Returns
<1>8. CountIsUsers'
  BY <1>7, UsersSame DEF IInv
<1> USE DEF IInv
<1>9. Serving' /\ OneSlot'
  BY DEF Serving, IsAsking, OneSlot
<1>10. OneAsks'
  <2>1. \A d, e \in Clients : made'[d] # NoId /\ made'[d] = made'[e] => d = e
    BY <1>1 DEF OneAsks
  <2>2. \A d, e \in Clients : req'[d].op = "new" => made'[e] # req'[d].id
    <3> SUFFICES ASSUME NEW d \in Clients, NEW e \in Clients, req[d].op = "new" PROVE made'[e] # req[d].id
      OBVIOUS
    <3>1. req[d].id \in Ids
      BY RequestsAre DEF TypeOK
    <3> QED BY <1>1, <3>1, NoIdIsNone DEF OneAsks
  <2> QED BY <2>1, <2>2 DEF OneAsks, IsAsking
<1>11. ASSUME NEW d \in Clients PROVE (Waiting(d) /\ Holding(d))'
  <2>1. Waiting(d)'
    BY DEF Waiting
  <2>2. Holding(d)'
    BY <1>1 DEF Holding, Has, IsAsking
  <2> QED BY <2>1, <2>2
<1>12. ASSUME NEW t \in Slots PROVE Loading(t)'
  BY <1>2, <1>7 DEF Loading, IsAsking
<1> HIDE DEF IInv, serverVars
<1> QED BY <1>1, <1>2, <1>3, <1>4, <1>5, <1>6, <1>8, <1>9, <1>10, <1>11, <1>12

\* Client c changes its inode, which is not saved any more.
LEMMA Changed ==
  ASSUME IInv, NEW c \in Clients, NEW h \in holds[c], Change(c, h), TypeOK',
         made' = made \/ made' = [made EXCEPT ![c] = NoId]
  PROVE  /\ h \in [id : Ids, slot : Slots] /\ Inode[h.slot] = h.id /\ ident[h.slot] = h.id
         /\ Count[h.slot] > 0 /\ ~Filling(h.slot) /\ load[h.slot].stage = "off"
         /\ \A t \in Slots : Count[t] > 0 /\ ident[t] = h.id => t = h.slot
         /\ CountIsUsers' /\ Serving' /\ OneSlot' /\ OneAsks' /\ Unsaved'
         /\ \A d \in Clients : (Waiting(d) /\ Holding(d))'
         /\ \A t \in Slots : Loading(t)'
         /\ \A d \in Clients, t \in Slots : FillsFor(d, t)' <=> FillsFor(d, t)
         /\ \A t \in Slots : Filling(t)' <=> Filling(t)
         /\ \A i \in Ids : Creating(i)' => Creating(i)
         /\ \A i \in Ids : Creating(i) => Creating(i)' \/ (made[c] = i /\ made'[c] = NoId)
         /\ \A d \in Clients : made'[d] = made[d] \/ (d = c /\ made'[d] = NoId)
<1>1. h \in [id : Ids, slot : Slots] /\ Has(c, h.slot) /\ ident[h.slot] = h.id
  BY HolderKnows
<1>2. h.slot \in Slots /\ h.id \in Ids
  BY <1>1
<1>3. /\ Count[h.slot] > 0 /\ ~Filling(h.slot) /\ load[h.slot].stage = "off"
      /\ Inode[h.slot] = h.id
      /\ \A t \in Slots : Count[t] > 0 /\ ident[t] = h.id => t = h.slot
  BY Held
<1>4. /\ pc[c] = "idle" /\ Dirty' = [Dirty EXCEPT ![h.slot] = TRUE] /\ saved' = saved \ {h.id}
      /\ UNCHANGED <<ident, Count, Inode, Server, waiting, mounted, free, lost, serverVars, load,
                     pc, req, holds>>
  BY <1>3 DEF Change
<1>5. /\ CountIsUsers' /\ Serving' /\ OneSlot' /\ OneAsks'
      /\ \A d \in Clients : (Waiting(d) /\ Holding(d))'
      /\ \A t \in Slots : Loading(t)'
      /\ \A d \in Clients, t \in Slots : FillsFor(d, t)' <=> FillsFor(d, t)
      /\ \A t \in Slots : Filling(t)' <=> Filling(t)
      /\ \A i \in Ids : Flushing(i)' <=> Flushing(i)
      /\ \A i \in Ids : Creating(i)' => Creating(i)
      /\ \A i \in Ids : Creating(i) => Creating(i)' \/ (made[c] = i /\ made'[c] = NoId)
      /\ \A d \in Clients : made'[d] = made[d] \/ (d = c /\ made'[d] = NoId)
  BY <1>4, IdleFrame
<1>6. Unsaved'
  <2>1. ~(server = "lock" /\ xp = h.slot)
    BY <1>3 DEF Filling
  <2>2. \A t \in Slots : Dirty'[t] = (Dirty[t] \/ t = h.slot)
    BY <1>4 DEF IInv, TypeOK
  <2> SUFFICES ASSUME NEW j \in Ids \ saved'
               PROVE  \E t \in Slots :
                 /\ Count'[t] > 0 /\ ident'[t] = j
                 /\ ~(server' = "lock" /\ xp' = t) /\ load'[t].stage \notin {"load"}
                 /\ Dirty'[t] \/ (load'[t].stage \in {"lock", "wake"} /\ load'[t].op = "new") \/ Flushing(j)'
    BY DEF Unsaved
  <2>3. CASE j = h.id
    BY <1>1, <1>2, <1>3, <1>4, <2>1, <2>2, <2>3 DEF serverVars
  <2>4. CASE j # h.id
    <3>1. PICK t \in Slots :
            /\ Count[t] > 0 /\ ident[t] = j
            /\ ~(server = "lock" /\ xp = t) /\ load[t].stage \notin {"load"}
            /\ Dirty[t] \/ (load[t].stage \in {"lock", "wake"} /\ load[t].op = "new") \/ Flushing(j)
      BY <1>4, <2>4 DEF Unsaved, IInv
    <3> QED BY <1>4, <1>5, <2>2, <3>1 DEF serverVars
  <2> QED BY <2>3, <2>4
<1> QED BY <1>1, <1>3, <1>5, <1>6

LEMMA WriteStep == ASSUME IInv, NEW c \in Clients, NEW h \in holds[c], Write(c, h) PROVE IInv'
<1>0. h \in [id : Ids, slot : Slots]
  BY HolderKnows
<1>1. TypeOK'
  BY <1>0 DEF Write, Change, IInv, TypeOK, serverVars
<1>2. /\ Change(c, h) /\ UNCHANGED <<table, linked, made>>
  BY DEF Write
<1>3. /\ CountIsUsers' /\ Serving' /\ OneSlot' /\ OneAsks' /\ Unsaved'
      /\ \A d \in Clients : (Waiting(d) /\ Holding(d))'
      /\ \A t \in Slots : Loading(t)'
      /\ \A d \in Clients, t \in Slots : FillsFor(d, t)' <=> FillsFor(d, t)
      /\ \A t \in Slots : Filling(t)' <=> Filling(t)
  BY <1>1, <1>2, Changed
<1>4. UNCHANGED <<ident, Count, Inode, Server, waiting, mounted, free, lost, serverVars, load, pc, req, holds>>
  BY <1>2 DEF Change
<1> USE DEF IInv, serverVars
<1>5. ASSUME NEW t \in Slots PROVE Ready(t)'
  BY <1>2, <1>4 DEF Ready
<1>6. Numbers'
  BY <1>2, <1>3, <1>4 DEF Numbers, Creating
<1>7. Links'
  BY <1>2, <1>3, <1>4 DEF Links, Creating
<1> QED BY <1>1, <1>3, <1>5, <1>6, <1>7

\* An inode that loses its entry, or does not get it, had one link.
LEMMA OneLinkLessStep ==
  ASSUME IInv, NEW c \in Clients, NEW h \in holds[c], Change(c, h), OneLinkLess(h),
         \/ /\ linked' = linked \ {h.id} /\ UNCHANGED made /\ h.id \in linked /\ made[c] = NoId
            /\ \A d \in Clients : ~(req[d].op = "get" /\ req[d].id = h.id)
         \/ linked' = linked /\ made' = [made EXCEPT ![c] = NoId] /\ made[c] = h.id
  PROVE  IInv'
<1>0. h \in [id : Ids, slot : Slots] /\ h.id \in Ids /\ Has(c, h.slot) /\ ident[h.slot] = h.id
  BY HolderKnows
<1>1. Inode[h.slot] = h.id
  BY Held
<1>2. table' = [table EXCEPT ![h.id].links = @ - 1]
  BY <1>1 DEF OneLinkLess
<1>3. table[h.id].links = 1
  BY <1>0 DEF IInv, Links
<1>4. /\ table'[h.id].links = 0 /\ table'[h.id].mode = table[h.id].mode /\ table'[h.id].mode \in Types
      /\ \A i \in Ids \ {h.id} : table'[i] = table[i]
  BY <1>0, <1>2, <1>3 DEF IInv, TypeOK
<1>5. TypeOK'
  <2>1. table' \in [Ids -> [mode : Types, links : 0 .. 1]]
    <3>1. table[h.id] \in [mode : Types, links : 0 .. 1]
      BY <1>0 DEF IInv, TypeOK
    <3>2. [table[h.id] EXCEPT !.links = @ - 1] \in [mode : Types, links : 0 .. 1]
      BY <1>3, <3>1
    <3> QED BY <1>2, <3>2 DEF IInv, TypeOK
  <2>2. made' \in [Clients -> AnyId]
    BY DEF IInv, TypeOK, AnyId
  <2>3. Dirty' \in [Slots -> BOOLEAN] /\ saved' \subseteq Ids /\ linked' \subseteq Ids
    BY DEF Change, IInv, TypeOK
  <2> QED BY <2>1, <2>2, <2>3 DEF Change, IInv, TypeOK, serverVars
<1>6. /\ h \in [id : Ids, slot : Slots] /\ Inode[h.slot] = h.id /\ ident[h.slot] = h.id
      /\ Count[h.slot] > 0 /\ ~Filling(h.slot) /\ load[h.slot].stage = "off"
      /\ \A t \in Slots : Count[t] > 0 /\ ident[t] = h.id => t = h.slot
      /\ CountIsUsers' /\ Serving' /\ OneSlot' /\ OneAsks' /\ Unsaved'
      /\ \A d \in Clients : (Waiting(d) /\ Holding(d))'
      /\ \A t \in Slots : Loading(t)'
      /\ \A d \in Clients, t \in Slots : FillsFor(d, t)' <=> FillsFor(d, t)
      /\ \A t \in Slots : Filling(t)' <=> Filling(t)
      /\ \A i \in Ids : Creating(i)' => Creating(i)
      /\ \A i \in Ids : Creating(i) => Creating(i)' \/ (made[c] = i /\ made'[c] = NoId)
      /\ \A d \in Clients : made'[d] = made[d] \/ (d = c /\ made'[d] = NoId)
  BY <1>5, Changed
<1>7. UNCHANGED <<ident, Count, Inode, Server, waiting, mounted, free, lost, serverVars, load, pc, req, holds>>
  BY DEF Change
<1> USE DEF IInv, serverVars
<1>8. \A i \in Ids : table'[i].mode = table[i].mode
  BY <1>4
<1>9. ASSUME NEW t \in Slots PROVE Ready(t)'
  BY <1>7, <1>8 DEF Ready
<1>10. Numbers'
  <2>1. \A d \in Clients : req'[d].op = "get" => req'[d].id \in linked'
    BY <1>7 DEF Numbers
  <2>2. linked' \cap free' = {} /\ \A i \in Ids : Creating(i)' => i \notin linked' \cup free'
    BY <1>6, <1>7 DEF Numbers
  <2> QED BY <1>6, <1>7, <2>1, <2>2 DEF Numbers
<1>11. h.id \notin linked' /\ \A d \in Clients : made'[d] # h.id
  <2>1. CASE h.id \in linked /\ linked' = linked \ {h.id} /\ UNCHANGED made
    BY <1>0, <2>1 DEF Numbers, Creating
  <2>2. CASE linked' = linked /\ made' = [made EXCEPT ![c] = NoId] /\ made[c] = h.id
    <3>1. h.id \notin linked
      BY <1>0, <2>2 DEF Numbers, Creating
    <3>2. \A d \in Clients \ {c} : made[d] # h.id
      BY <1>0, <2>2, NoIdIsNone DEF OneAsks
    <3> QED BY <1>0, <2>2, <3>1, <3>2, NoIdIsNone DEF TypeOK
  <2> QED BY <2>1, <2>2
<1>12. Links'
  <2>1. \A i \in Ids : i \in linked' \/ (\E d \in Clients : made'[d] = i) => table'[i].links = 1
    <3> SUFFICES ASSUME NEW i \in Ids, i \in linked' \/ (\E d \in Clients : made'[d] = i)
                 PROVE  table'[i].links = 1
      OBVIOUS
    <3>1. i # h.id
      BY <1>11
    <3>2. i \in linked \/ \E d \in Clients : made[d] = i
      BY <1>6, NoIdIsNone
    <3> QED BY <1>4, <3>1, <3>2 DEF Links
  <2>2. \A i \in linked' : table'[i].mode # I_NOT_ALLOC
    BY <1>8 DEF Links, TypeOK
  <2>3. \A t \in Slots : Count[t] > 0 /\ load[t].stage \in {"lock", "wake"} /\ load[t].op = "new" =>
          table'[ident[t]].links = 1
    <3> SUFFICES ASSUME NEW t \in Slots, Count[t] > 0, load[t].stage \in {"lock", "wake"}, load[t].op = "new"
                 PROVE  table'[ident[t]].links = 1
      OBVIOUS
    <3>1. ident[t] \in Ids \ {h.id}
      BY <1>6 DEF Ready
    <3> QED BY <1>4, <3>1 DEF Links
  <2>4. \A t \in Slots :
         Count[t] > 0 /\ ~Filling(t)' /\ ident[t] \notin linked' /\ ~Creating(ident[t])' =>
         table'[ident[t]].links = 0
    <3> SUFFICES ASSUME NEW t \in Slots, NEW j \in Ids, j = ident[t], Count[t] > 0, ~Filling(t)',
                        j \notin linked', ~Creating(j)', j # h.id
                 PROVE  table[ident[t]].links = 0
      BY <1>4, <1>7 DEF Ready
    <3>1. \/ linked' = linked \ {h.id} /\ UNCHANGED made /\ made[c] = NoId
          \/ linked' = linked /\ made[c] = h.id
      OBVIOUS
    <3>2. ~Creating(j)
      BY <1>6, <3>1, NoIdIsNone
    <3>3. j \notin linked
      BY <3>1
    <3>4. j \notin linked /\ ~Creating(j)
      BY <3>2, <3>3
    <3> QED BY <1>6, <3>4 DEF Links
  <2> QED BY <1>7, <2>1, <2>2, <2>3, <2>4 DEF Links
<1> QED BY <1>5, <1>6, <1>9, <1>10, <1>12

LEMMA UnlinkStep == ASSUME IInv, NEW c \in Clients, NEW h \in holds[c], Unlink(c, h) PROVE IInv'
BY OneLinkLessStep DEF Unlink

LEMMA LinkFailsStep == ASSUME IInv, NEW c \in Clients, NEW h \in holds[c], LinkFails(c, h) PROVE IInv'
BY OneLinkLessStep DEF LinkFails

LEMMA LinkStep == ASSUME IInv, NEW c \in Clients, Link(c) PROVE IInv'
<1>0. /\ pc[c] = "idle" /\ made[c] # NoId
      /\ linked' = linked \cup {made[c]} /\ made' = [made EXCEPT ![c] = NoId]
      /\ UNCHANGED <<slots, waiting, table, saved, mounted, free, lost, serverVars, load, pc, req, holds>>
  BY DEF Link
<1>1. PICK m \in Ids : m = made[c]
  BY <1>0 DEF IInv, TypeOK, AnyId
<1>2. TypeOK'
  BY <1>0, <1>1 DEF IInv, TypeOK, AnyId, slots, serverVars
<1>3. /\ CountIsUsers' /\ Serving' /\ OneSlot' /\ OneAsks'
      /\ \A d \in Clients : (Waiting(d) /\ Holding(d))'
      /\ \A t \in Slots : Loading(t)'
      /\ \A d \in Clients, t \in Slots : FillsFor(d, t)' <=> FillsFor(d, t)
      /\ \A t \in Slots : Filling(t)' <=> Filling(t)
      /\ \A i \in Ids : Flushing(i)' <=> Flushing(i)
      /\ \A i \in Ids : Creating(i)' => Creating(i)
      /\ \A i \in Ids : Creating(i) => Creating(i)' \/ (made[c] = i /\ made'[c] = NoId)
      /\ \A d \in Clients : made'[d] = made[d] \/ (d = c /\ made'[d] = NoId)
  BY <1>0, <1>2, IdleFrame DEF slots
<1> USE DEF IInv, slots, serverVars
<1>4. ASSUME NEW t \in Slots PROVE Ready(t)'
  BY <1>0 DEF Ready
<1>5. table[m].links = 1 /\ table[m].mode # I_NOT_ALLOC /\ m \notin free
  <2>1. PICK h \in holds[c] : h.id = m
    BY <1>0, <1>1 DEF Holding
  <2>2. table[h.id].mode # I_NOT_ALLOC
    <3> HIDE DEF IInv
    <3> QED BY Held
  <2> QED BY <1>1, <2>1, <2>2 DEF Links, Numbers, Creating
<1>6. ~Creating(m)'
  <2>1. \A d \in Clients \ {c} : made[d] # m
    BY <1>0, <1>1 DEF OneAsks
  <2>2. \A d \in Clients : req[d].op = "new" => req[d].id # m
    BY <1>1 DEF OneAsks
  <2>3. \A d \in Clients : made'[d] # m
    BY <1>0, <1>1, <2>1, NoIdIsNone DEF TypeOK
  <2> QED BY <1>0, <2>2, <2>3 DEF Creating
<1>7. linked' = linked \cup {m}
  BY <1>0, <1>1
<1>8. Numbers'
  <2>1. linked' \cap free' = {} /\ \A d \in Clients : req'[d].op = "get" => req'[d].id \in linked'
    BY <1>0, <1>5, <1>7 DEF Numbers
  <2>2. \A i \in Ids : Creating(i)' => i \notin linked' \cup free'
    <3> SUFFICES ASSUME NEW i \in Ids, Creating(i)' PROVE i \notin linked' \cup free'
      OBVIOUS
    <3>1. i # m
      BY <1>6
    <3> QED BY <1>0, <1>3, <1>7, <3>1 DEF Numbers
  <2>3. \A t \in Slots : Count'[t] > 0 => ident'[t] \notin free'
    BY <1>0 DEF Numbers
  <2>4. \A t \in Slots : \A d \in Clients :
          Count'[t] > 0 /\ req'[d].op = "new" /\ ident'[t] = req'[d].id => FillsFor(d, t)'
    BY <1>0, <1>3 DEF Numbers
  <2> QED BY <2>1, <2>2, <2>3, <2>4 DEF Numbers
<1>9. Links'
  <2>1. \A i \in Ids : i \in linked' \/ (\E d \in Clients : made'[d] = i) => table'[i].links = 1
    BY <1>0, <1>3, <1>5, <1>7, NoIdIsNone DEF Links
  <2>2. \A i \in linked' : table'[i].mode # I_NOT_ALLOC
    BY <1>0, <1>5, <1>7 DEF Links
  <2>3. \A t \in Slots :
         Count'[t] > 0 /\ ~Filling(t)' /\ ident'[t] \notin linked' /\ ~Creating(ident[t])' =>
         table'[ident'[t]].links = 0
    <3> SUFFICES ASSUME NEW t \in Slots, NEW j \in Ids, j = ident[t], Count[t] > 0, ~Filling(t)',
                        j \notin linked', ~Creating(j)'
                 PROVE  table[ident[t]].links = 0
      BY <1>0 DEF Ready
    <3>1. j \notin linked /\ ~Creating(j)
      BY <1>1, <1>3, <1>7
    <3> QED BY <1>3, <3>1 DEF Links
  <2> QED BY <1>0, <2>1, <2>2, <2>3 DEF Links
<1>10. Unsaved'
  BY <1>0, <1>3 DEF Unsaved
<1> QED BY <1>2, <1>3, <1>4, <1>8, <1>9, <1>10
-----------------------------------------------------------------------------
(* Looking for a slot. *)

LEMMA MaxExists ==
  ASSUME NEW S \in SUBSET Slots, S # {}
  PROVE  \E s \in S : \A r \in S : r <= s
<1> DEFINE R == OpToRel(<, Nat)
           T == {n \in Nat : \E s \in S : n = size - s}
<1>1. T \subseteq Nat /\ T # {}
  <2>1. PICK s \in S : TRUE
    OBVIOUS
  <2>2. size - s \in T
    BY <2>1 DEF Slots
  <2> QED BY <2>2
<1>2. IsWellFoundedOn(R, Nat)
  BY NatLessThanWellFounded
<1>3. PICK x \in T : \A y \in T : ~ (<<y, x>> \in R)
  <2> HIDE DEF R, T
  <2> QED BY <1>1, <1>2, WFMin
<1>4. PICK s \in S : x = size - s
  BY <1>3
<1>5. ASSUME NEW r \in S PROVE r <= s
  <2>1. size - r \in T
    BY DEF Slots
  <2>2. ~(<<size - r, x>> \in R)
    BY <1>3, <2>1
  <2>3. ~(size - r < x)
    BY <2>1, <2>2, <1>3 DEF OpToRel
  <2> QED BY <1>4, <2>3 DEF Slots
<1> QED BY <1>5

\* The slot for an inode is the one that it is in, or one that is not in use.
LEMMA SlotForIs ==
  ASSUME IInv, NEW i \in Ids, SlotFor(i) > 0
  PROVE  /\ SlotFor(i) \in Slots
         /\ Count[SlotFor(i)] > 0 => ident[SlotFor(i)] = i
         /\ Count[SlotFor(i)] <= 0 => \A t \in Slots : ~(Count[t] > 0 /\ ident[t] = i)
<1>1. CASE Found(i) # {}
  <2>1. PICK s \in Slots : Count[s] > 0 /\ ident[s] = i
    BY <1>1 DEF Found
  <2>2. Found(i) = {s}
    BY <2>1 DEF Found, IInv, OneSlot
  <2>3. SlotFor(i) = s
    BY <2>2 DEF SlotFor, Slots
  <2> QED BY <2>1, <2>3 DEF IInv, TypeOK
<1>2. CASE Found(i) = {}
  <2>1. Unused # {}
    BY <1>2 DEF SlotFor, NO_INODE
  <2>2. Unused \in SUBSET Slots
    BY DEF Unused
  <2>3. \E s \in Unused : \A r \in Unused : r <= s
    BY <2>1, <2>2, MaxExists
  <2>4. MaxOf(Unused) \in Unused
    BY <2>3 DEF MaxOf
  <2>5. SlotFor(i) \in Unused
    BY <1>2, <2>1, <2>4 DEF SlotFor
  <2> QED BY <1>2, <2>5 DEF Found, Unused, IInv, TypeOK
<1> QED BY <1>1, <1>2

LEMMA FindStep ==
  ASSUME IInv, NEW c \in Clients, NEW op \in {"get", "new"}, Find(c, op)
  PROVE  IInv'
<1>0. /\ server = "loop" /\ pc[c] = "sending" /\ req[c].op = op /\ IsAsking(c)
      /\ pc' = [pc EXCEPT ![c] = "receiving"] /\ cur' = c
      /\ UNCHANGED <<req, holds, made, Dirty, Inode, Server, waiting, disk, load>>
  BY DEF Find, Receive, IsAsking
<1>1. PICK i \in Ids : i = req[c].id
  BY <1>0, RequestsAre DEF IInv, TypeOK
<1>2. PICK s : s = SlotFor(i)
  OBVIOUS
<1>3. \/ /\ server' = "reply" /\ res' = [kind |-> "ENFILE", slot |-> nil] /\ UNCHANGED <<ident, Count, xp>>
      \/ /\ s \in Slots /\ Count[s] > 0 /\ ident[s] = i
         /\ Count' = [Count EXCEPT ![s] = @ + 1]
         /\ server' = "reply" /\ res' = [kind |-> "inode", slot |-> s] /\ UNCHANGED <<ident, xp>>
      \/ /\ s \in Slots /\ Count[s] = 0 /\ \A t \in Slots : ~(Count[t] > 0 /\ ident[t] = i)
         /\ ident' = [ident EXCEPT ![s] = i] /\ Count' = [Count EXCEPT ![s] = @ + 1]
         /\ xp' = s /\ server' = "lock" /\ UNCHANGED res
  <2>1. s > 0 => /\ s \in Slots /\ (Count[s] > 0 => ident[s] = i)
                 /\ Count[s] <= 0 => \A t \in Slots : ~(Count[t] > 0 /\ ident[t] = i)
    BY <1>2, SlotForIs
  <2>2. s > 0 => Count[s] \in Nat
    BY <2>1 DEF IInv, TypeOK
  <2> QED BY <1>1, <1>2, <2>1, <2>2 DEF Find, Respond, OneMore
<1>4. \A t \in Slots : ~FillsFor(c, t)
  BY <1>0 DEF FillsFor, IInv, Loading
<1>5. op = "new" => \A t \in Slots : ~(Count[t] > 0 /\ ident[t] = i)
  BY <1>0, <1>1, <1>4 DEF IInv, Numbers
<1>6. i \notin free
  BY <1>0, <1>1 DEF IInv, Numbers, Creating
<1>7. \A d \in Clients, t \in Slots : User(d, t) => Count[t] > 0
  BY InUseHasUser DEF IInv
<1>8. \A t \in Slots : Count[t] > 0 => ident'[t] = ident[t] /\ Count'[t] > 0
  <2>1. \A t \in Slots : Count[t] \in Nat /\ ident \in [Slots -> AnyId] /\ Count \in [Slots -> Nat]
    BY DEF IInv, TypeOK
  <2> QED BY <1>3, <2>1
<1>9. /\ ident' \in [Slots -> AnyId] /\ Count' \in [Slots -> Nat]
      /\ server' \in {"lock", "reply"} /\ xp' \in AnySlot
      /\ res' \in [kind : {"none", "empty", "busy", "notbusy", "EBUSY", "closed", "ENFILE", "inode", "async"},
                   slot : AnySlot]
  <2>1. ident \in [Slots -> AnyId] /\ Count \in [Slots -> Nat] /\ xp \in AnySlot /\ i \in AnyId
    BY DEF IInv, TypeOK, AnyId
  <2>2. ident' \in [Slots -> AnyId]
    BY <1>3, <2>1
  <2>3. Count' \in [Slots -> Nat]
    BY <1>3, <2>1
  <2>4. server' \in {"lock", "reply"} /\ xp' \in AnySlot
    BY <1>3, <2>1 DEF AnySlot
  <2>5. res' \in [kind : {"none", "empty", "busy", "notbusy", "EBUSY", "closed", "ENFILE", "inode", "async"},
                  slot : AnySlot]
    BY <1>3 DEF IInv, TypeOK, AnySlot
  <2> QED BY <2>2, <2>3, <2>4, <2>5
<1>10. waiting' = waiting /\ \A d \in Clients : pc'[d] = IF d = c THEN "receiving" ELSE pc[d]
  BY <1>0 DEF IInv, TypeOK
<1>11. \A d \in Clients, t \in Slots : (Has(d, t)' <=> Has(d, t)) /\ (Returns(d, t)' <=> Returns(d, t))
  BY <1>0, <1>10 DEF Has, Returns
<1>12. \A t \in Slots, d \in Clients :
         /\ User(d, t) <=> waiting[t] = <<d>> \/ Has(d, t) \/ Returns(d, t)
         /\ User(d, t)' <=> \/ waiting[t] = <<d>> \/ Has(d, t) \/ Returns(d, t)
                            \/ d = c /\ server' = "lock" /\ xp' = t
                            \/ d = c /\ server' = "reply" /\ res'.kind = "inode" /\ res'.slot = t
  <2> SUFFICES ASSUME NEW t \in Slots, NEW d \in Clients
               PROVE  /\ User(d, t) <=> waiting[t] = <<d>> \/ Has(d, t) \/ Returns(d, t)
                      /\ User(d, t)' <=> \/ waiting[t] = <<d>> \/ Has(d, t) \/ Returns(d, t)
                                         \/ d = c /\ server' = "lock" /\ xp' = t
                                         \/ d = c /\ server' = "reply" /\ res'.kind = "inode" /\ res'.slot = t
    OBVIOUS
  <2>1. (\E k \in DOMAIN waiting[t] : waiting[t][k] = d) <=> waiting[t] = <<d>>
    BY OneWaits DEF IInv, TypeOK
  <2> QED BY <1>0, <1>10, <1>11, <2>1 DEF User, Given
<1>13. \A t \in Slots : ~(waiting[t] = <<c>>) /\ ~Returns(c, t)
  BY <1>0, <1>4 DEF FillsFor, Returns
<1>14. CountIsUsers'
  <2>1. CASE res'.kind = "ENFILE" /\ server' = "reply" /\ UNCHANGED Count
    BY <1>12, <2>1, UsersSame DEF IInv
  <2>2. CASE /\ s \in Slots /\ Count' = [Count EXCEPT ![s] = @ + 1] /\ ~User(c, s)
             /\ (server' = "lock" /\ xp' = s) \/ (server' = "reply" /\ res' = [kind |-> "inode", slot |-> s])
    <3>1. \A d \in Clients, t \in Slots : User(d, t)' <=> User(d, t) \/ (d = c /\ t = s)
      BY <1>12, <2>2
    <3> QED BY <2>2, <3>1, UserMore DEF IInv
  <2>3. s \in Slots /\ Count[s] > 0 /\ ident[s] = i => ~User(c, s)
    BY <1>0, <1>1, <1>12, <1>13 DEF IInv, Holding, Has
  <2>4. s \in Slots /\ Count[s] = 0 => ~User(c, s)
    BY <1>7
  <2> QED BY <1>3, <2>1, <2>2, <2>3, <2>4
<1>15. TypeOK'
  <2>1. \A t \in Slots : Count'[t] \in 0 .. Cardinality(Clients) * (MaxHolds + 1)
    <3> SUFFICES ASSUME NEW t \in Slots
                 PROVE  Count'[t] \in 0 .. Cardinality(Clients) * (MaxHolds + 1)
      OBVIOUS
    <3>1. Cardinality(Clients) \in Nat
      BY FS_CardinalityType
    <3>2. Cardinality(Clients) <= Cardinality(Clients) * (MaxHolds + 1)
      BY <3>1
    <3>3. Count'[t] \in Nat /\ Count'[t] <= Cardinality(Clients)
      BY <1>9, <1>14, CountIsNext, UsersFinite
    <3>4. Cardinality(Clients) * (MaxHolds + 1) \in Nat
      BY <3>1
    <3> QED BY <3>1, <3>2, <3>3, <3>4
  <2>2. Count' \in [Slots -> 0 .. Cardinality(Clients) * (MaxHolds + 1)]
    BY <1>9, <2>1
  <2>3. pc' \in [Clients -> {"idle", "sending", "receiving", "awaiting"}]
    BY <1>0 DEF IInv, TypeOK
  <2> QED BY <1>0, <1>9, <2>2, <2>3 DEF IInv, TypeOK, disk
<1> USE DEF IInv
<1>16. Serving'
  <2>1. server' = "lock" => ident'[xp'] = req'[c].id /\ xp' \in Slots /\ waiting'[xp'] = <<>>
    <3> SUFFICES ASSUME server' = "lock" PROVE ident'[xp'] = req'[c].id /\ xp' \in Slots /\ waiting'[xp'] = <<>>
      OBVIOUS
    <3>1. s \in Slots /\ Count[s] = 0 /\ ident'[s] = i /\ xp' = s
      BY <1>3 DEF TypeOK
    <3>2. \A d \in Clients : waiting[s] # <<d>>
      BY <1>7, <1>12, <3>1
    <3>3. waiting[s] = <<>>
      BY <3>1, <3>2 DEF TypeOK
    <3> QED BY <1>0, <1>1, <3>1, <3>3
  <2>2. server' = "reply" =>
          /\ res'.kind \in {"inode", "ENFILE"}
          /\ res'.kind = "inode" => res'.slot \in Slots /\ ident'[res'.slot] = req'[c].id /\ op = "get"
    BY <1>0, <1>1, <1>3, <1>5
  <2>3. server' # "reply" => res'.kind = "none"
    BY <1>0, <1>3 DEF Serving
  <2> QED BY <1>0, <1>9, <1>10, <2>1, <2>2, <2>3 DEF Serving, IsAsking
<1>17. \A d \in Clients : pc[d] # "receiving"
  BY <1>0 DEF Waiting
<1>18. ASSUME NEW d \in Clients PROVE (Waiting(d) /\ Holding(d))'
  <2>1. Waiting(d)'
    <3>1. pc'[d] = "idle" <=> req'[d].op = "none"
      BY <1>0, <1>10 DEF Waiting
    <3>2. pc'[d] = "receiving" => d = cur' /\ server' \in {"lock", "reply", "gone"}
      BY <1>0, <1>9, <1>10, <1>17
    <3>3. pc'[d] = "awaiting" => \E t \in Slots : waiting'[t] = <<d>>
      BY <1>10 DEF Waiting
    <3> QED BY <3>1, <3>2, <3>3 DEF Waiting
  <2>2. \A h \in holds[d] : ident'[h.slot] = h.id
    <3> SUFFICES ASSUME NEW h \in holds[d] PROVE ident'[h.slot] = h.id
      OBVIOUS
    <3>1. h.slot \in Slots /\ Count[h.slot] > 0 /\ ident[h.slot] = h.id
      <4> HIDE DEF IInv
      <4> QED BY Held
    <3> QED BY <1>8, <3>1
  <2>3. pc'[d] = "sending" /\ req[d].op = "put" => ident'[req[d].slot] = req[d].id
    <3> SUFFICES ASSUME pc[d] = "sending", req[d].op = "put" PROVE ident'[req[d].slot] = req[d].id
      BY <1>10
    <3>1. req[d].slot \in Slots
      BY RequestsAre DEF TypeOK
    <3>2. PICK t \in Slots : t = req[d].slot
      BY <3>1
    <3>3. Returns(d, t)
      BY <3>2 DEF Returns
    <3>4. Count[t] > 0
      BY <1>7, <1>12, <3>3
    <3> QED BY <1>8, <3>2, <3>4 DEF Holding
  <2>4. Holding(d)'
    BY <1>0, <1>10, <2>2, <2>3 DEF Holding, Has, IsAsking
  <2> QED BY <2>1, <2>4
<1>19. \A d \in Clients, t \in Slots :
         FillsFor(d, t)' <=> FillsFor(d, t) \/ (d = c /\ server' = "lock" /\ xp' = t)
  BY <1>0, <1>10 DEF FillsFor
<1>20. ASSUME NEW t \in Slots PROVE Loading(t)'
  <2>1. ASSUME NEW d \in Clients, waiting[t] = <<d>>
        PROVE  /\ d # c /\ pc[d] = "awaiting" /\ Count[t] > 0 /\ ident[t] = req[d].id /\ IsAsking(d)
               /\ FillsFor(d, t)
    BY <1>0, <1>7, <1>12, <1>13, <2>1 DEF Loading, FillsFor
  <2>2. ASSUME NEW d \in Clients, FillsFor(d, t)', NEW e \in Clients, User(e, t)' PROVE e = d
    <3>1. CASE FillsFor(d, t)
      <4>1. waiting[t] = <<d>>
        BY <1>0, <3>1 DEF FillsFor
      <4>2. d # c /\ Count[t] > 0 /\ ident[t] = req[d].id /\ IsAsking(d)
        BY <2>1, <4>1
      <4>3. ident[t] # i
        BY <1>0, <1>1, <4>2 DEF OneAsks
      <4>4. ~(server' = "lock" /\ xp' = t) /\ ~(server' = "reply" /\ res'.kind = "inode" /\ res'.slot = t)
        BY <1>3, <4>2, <4>3
      <4>5. User(e, t)
        BY <1>12, <2>2, <4>4
      <4> QED BY <3>1, <4>5 DEF Loading
    <3>2. CASE d = c /\ server' = "lock" /\ xp' = t
      <4>1. Count[t] = 0
        BY <1>3, <3>2
      <4>2. ~User(e, t)
        BY <1>7, <4>1
      <4> QED BY <1>12, <2>2, <3>2, <4>2
    <3> QED BY <1>19, <2>2, <3>1, <3>2
  <2>3. load'[t].stage = "off" <=> waiting'[t] = <<>>
    BY <1>0 DEF Loading
  <2>4. \A d \in Clients : waiting'[t] = <<d>> =>
          /\ IsAsking(d)' /\ load'[t].op = req'[d].op /\ load'[t].mode = req'[d].mode
          /\ ident'[t] = req'[d].id /\ pc'[d] = "awaiting"
    BY <1>0, <1>8, <1>10, <2>1 DEF Loading, IsAsking
  <2> QED BY <2>2, <2>3, <2>4 DEF Loading
<1>21. ASSUME NEW t \in Slots PROVE Ready(t)'
  <2>1. CASE Count[t] > 0
    BY <1>0, <1>8, <2>1 DEF Ready, disk
  <2>2. CASE ~(Count[t] > 0)
    <3>1. Count'[t] > 0 => ident'[t] = i /\ server' = "lock" /\ xp' = t
      BY <1>3, <2>2 DEF TypeOK
    <3> QED BY <3>1 DEF Ready
  <2> QED BY <2>1, <2>2
<1>22. \A t \in Slots : Count'[t] > 0 =>
         Count[t] > 0 \/ (ident'[t] = i /\ server' = "lock" /\ xp' = t /\ t = s
                          /\ \A u \in Slots : ~(Count[u] > 0 /\ ident[u] = i))
  BY <1>3 DEF TypeOK
<1>23. OneSlot'
  BY <1>8, <1>22 DEF OneSlot
<1>24. OneAsks'
  BY <1>0 DEF OneAsks, IsAsking
<1>25. Numbers'
  <2>1. \A t \in Slots : Count'[t] > 0 => ident'[t] \notin free
    BY <1>6, <1>8, <1>22 DEF Numbers
  <2>2. \A t \in Slots : \A d \in Clients :
          Count'[t] > 0 /\ req[d].op = "new" /\ ident'[t] = req[d].id => FillsFor(d, t)'
    BY <1>0, <1>1, <1>8, <1>19, <1>22 DEF Numbers, OneAsks, IsAsking
  <2> QED BY <1>0, <2>1, <2>2 DEF Numbers, Creating, disk
<1>26. Links'
  <2>1. \A t \in Slots : Filling(t) => Filling(t)'
    BY <1>0 DEF Filling
  <2>2. \A t \in Slots : server' = "lock" /\ xp' = t => Filling(t)'
    BY DEF Filling
  <2>3. \A t \in Slots : Count'[t] > 0 /\ load[t].stage \in {"lock", "wake"} => Count[t] > 0
    <3>1. \A t \in Slots : load[t].stage # "off" => Count[t] > 0
      <4> HIDE DEF IInv
      <4> QED BY BeingLoaded
    <3> QED BY <3>1
  <2>4. \A t \in Slots : Count'[t] > 0 /\ load'[t].stage \in {"lock", "wake"} /\ load'[t].op = "new" =>
          table[ident'[t]].links = 1
    BY <1>0, <1>8, <2>3 DEF Links
  <2>5. \A t \in Slots :
         Count'[t] > 0 /\ ~Filling(t)' /\ ident'[t] \notin linked /\ ~Creating(ident[t])' =>
         table[ident'[t]].links = 0
    <3> SUFFICES ASSUME NEW t \in Slots, Count'[t] > 0, ~Filling(t)', ident'[t] \notin linked, ~Creating(ident[t])'
                 PROVE  table[ident'[t]].links = 0
      OBVIOUS
    <3>1. Count[t] > 0 /\ ident'[t] = ident[t] /\ ~Filling(t)
      BY <1>8, <1>22, <2>1, <2>2
    <3>2. ~Creating(ident[t])
      BY <1>0, <3>1 DEF Creating
    <3> QED BY <3>1, <3>2 DEF Links
  <2> QED BY <1>0, <2>4, <2>5 DEF Links, Creating, disk
<1>27. Unsaved'
  <2>1. \A i_1 : Flushing(i_1) => Flushing(i_1)'
    BY <1>0, <1>10 DEF Flushing, IsAsking
  <2> SUFFICES ASSUME NEW j \in Ids \ saved
               PROVE  \E t \in Slots :
                 /\ Count'[t] > 0 /\ ident'[t] = j
                 /\ ~(server' = "lock" /\ xp' = t) /\ load'[t].stage \notin {"load"}
                 /\ Dirty'[t] \/ (load'[t].stage \in {"lock", "wake"} /\ load'[t].op = "new") \/ Flushing(j)'
    BY <1>0 DEF Unsaved, disk
  <2>2. PICK t \in Slots :
          /\ Count[t] > 0 /\ ident[t] = j
          /\ ~(server = "lock" /\ xp = t) /\ load[t].stage \notin {"load"}
          /\ Dirty[t] \/ (load[t].stage \in {"lock", "wake"} /\ load[t].op = "new") \/ Flushing(j)
    BY DEF Unsaved
  <2>3. ~(server' = "lock" /\ xp' = t)
    BY <1>3, <2>2
  <2> QED BY <1>0, <1>8, <2>1, <2>2, <2>3
<1> QED BY <1>14, <1>15, <1>16, <1>18, <1>20, <1>21, <1>23, <1>24, <1>25, <1>26, <1>27
-----------------------------------------------------------------------------
(* Returning an inode. *)

\* What the put of an inode does, to a slot that has other users and to one that
\* has not.
LEMMA PutEffect ==
  ASSUME IInv, NEW c \in Clients, NEW s \in Slots, s = req[c].slot, PutInode(c)
  PROVE  /\ server = "loop" /\ pc[c] = "sending" /\ req[c].op = "put" /\ Returns(c, s)
         /\ pc' = [pc EXCEPT ![c] = "receiving"] /\ cur' = c
         /\ UNCHANGED <<req, holds, made, ident, Inode, waiting, mounted, linked, lost, xp, load>>
         /\ Count' = [Count EXCEPT ![s] = @ - 1]
         /\ server' = "reply" /\ res' = [kind |-> "empty", slot |-> nil]
         /\ \/ Count[s] > 1 /\ UNCHANGED <<Dirty, Server, table, saved, free>>
            \/ /\ Count[s] = 1
               /\ Server' = [Server EXCEPT ![s].open = FALSE]
               /\ Dirty' = [Dirty EXCEPT ![s] = FALSE]
               /\ saved' = IF table[ident[s]].links = 0 \/ Dirty[s] THEN saved \cup {ident[s]} ELSE saved
               /\ \/ /\ table[ident[s]].links = 0 /\ free' = free \cup {ident[s]}
                     /\ table' = [table EXCEPT ![ident[s]].mode = I_NOT_ALLOC]
                  \/ table[ident[s]].links # 0 /\ free' = free /\ table' = table
<1>1. /\ server = "loop" /\ pc[c] = "sending" /\ req[c].op = "put" /\ Returns(c, s)
      /\ pc' = [pc EXCEPT ![c] = "receiving"] /\ cur' = c
      /\ UNCHANGED <<req, holds, made, ident, Inode, waiting, mounted, linked, lost, xp, load>>
      /\ Count' = [Count EXCEPT ![s] = @ - 1]
      /\ IF StillUsed(s) THEN Answer /\ UNCHANGED <<Dirty, Server, table, saved, free>>
         ELSE IF Crashes(s)
         THEN server' = "panicked" /\ UNCHANGED <<Dirty, Server, table, saved, free, res>>
         ELSE Release(s) /\ Answer
  BY DEF PutInode, Receive, Returns
<1>2. /\ Count[s] > 0 /\ ident[s] \in Ids /\ Inode[s] = ident[s] /\ ident[s] \notin free
      /\ Server[s] = [kind |-> table[ident[s]].mode, id |-> ident[s], open |-> TRUE]
  BY <1>1, Settled
<1>3. Count[s] \in Nat
  BY DEF IInv, TypeOK
<1>4. ~Crashes(s)
  BY <1>2, NoIdIsNone DEF Crashes
<1>5. CASE StillUsed(s)
  BY <1>1, <1>2, <1>3, <1>5 DEF StillUsed, Answer, Respond
<1>6. CASE ~StillUsed(s)
  <2>1. Count[s] = 1 /\ Release(s) /\ Answer
    BY <1>1, <1>2, <1>3, <1>4, <1>6 DEF StillUsed
  <2>2. Serves(s)
    BY <1>2 DEF Serves
  <2>3. Server' = [Server EXCEPT ![s].open = FALSE] /\ Dirty' = [Dirty EXCEPT ![s] = FALSE]
    BY <2>1, <2>2 DEF Release
  <2>4. saved' = IF table[ident[s]].links = 0 \/ Dirty[s] THEN saved \cup {ident[s]} ELSE saved
    BY <2>1, <1>2 DEF Release, NeedsWriting, Unlinked
  <2>5. table \in [Ids -> [mode : Types, links : 0 .. 1]]
    BY DEF IInv, TypeOK
  <2>6. \A t : t \in [Ids -> [mode : Types, links : 0 .. 1]] => Written(t, s) = t
    BY <1>2 DEF Written
  <2>7. CASE table[ident[s]].links = 0
    <3>1. [table[ident[s]] EXCEPT !.mode = I_NOT_ALLOC] \in [mode : Types, links : 0 .. 1]
      BY <1>2, <2>5 DEF Types
    <3>2. [table EXCEPT ![ident[s]].mode = I_NOT_ALLOC] \in [Ids -> [mode : Types, links : 0 .. 1]]
      BY <2>5, <3>1
    <3>3. free' = free \cup {ident[s]}
      BY <2>1, <2>7, <1>2 DEF Release, Unlinked
    <3>4. table' = [table EXCEPT ![ident[s]].mode = I_NOT_ALLOC]
      BY <2>1, <2>6, <2>7, <1>2, <3>2 DEF Release, Unlinked, NeedsWriting
    <3> QED BY <1>1, <2>1, <2>3, <2>4, <2>7, <3>3, <3>4 DEF Answer, Respond
  <2>8. CASE table[ident[s]].links # 0
    <3>1. table' = table /\ free' = free
      BY <2>1, <2>5, <2>6, <2>8, <1>2 DEF Release, Unlinked, NeedsWriting
    <3> QED BY <1>1, <2>1, <2>3, <2>4, <2>8, <3>1 DEF Answer, Respond
  <2> QED BY <2>7, <2>8
<1> QED BY <1>5, <1>6

LEMMA PutInodeStep == ASSUME IInv, NEW c \in Clients, PutInode(c) PROVE IInv'
<1>1. req[c].slot \in Slots
  BY RequestsAre DEF PutInode, Receive, IInv, TypeOK
<1>2. PICK s \in Slots : s = req[c].slot
  BY <1>1
<1>3. /\ server = "loop" /\ pc[c] = "sending" /\ req[c].op = "put" /\ Returns(c, s)
      /\ pc' = [pc EXCEPT ![c] = "receiving"] /\ cur' = c
      /\ UNCHANGED <<req, holds, made, ident, Inode, waiting, mounted, linked, lost, xp, load>>
      /\ Count' = [Count EXCEPT ![s] = @ - 1]
      /\ server' = "reply" /\ res' = [kind |-> "empty", slot |-> nil]
      /\ \/ Count[s] > 1 /\ UNCHANGED <<Dirty, Server, table, saved, free>>
         \/ /\ Count[s] = 1
            /\ Server' = [Server EXCEPT ![s].open = FALSE]
            /\ Dirty' = [Dirty EXCEPT ![s] = FALSE]
            /\ saved' = IF table[ident[s]].links = 0 \/ Dirty[s] THEN saved \cup {ident[s]} ELSE saved
            /\ \/ /\ table[ident[s]].links = 0 /\ free' = free \cup {ident[s]}
                  /\ table' = [table EXCEPT ![ident[s]].mode = I_NOT_ALLOC]
               \/ table[ident[s]].links # 0 /\ free' = free /\ table' = table
  BY <1>2, PutEffect
<1>4. /\ Count[s] > 0 /\ User(c, s) /\ ~Filling(s) /\ load[s].stage = "off"
      /\ ident[s] \in Ids /\ Inode[s] = ident[s]
      /\ table[ident[s]].mode # I_NOT_ALLOC
      /\ Server[s] = [kind |-> table[ident[s]].mode, id |-> ident[s], open |-> TRUE]
      /\ ident[s] \notin free
      /\ \A t \in Slots : Count[t] > 0 /\ ident[t] = ident[s] => t = s
  BY <1>3, Settled
<1>5. PICK i \in Ids : i = ident[s]
  BY <1>4
<1>6. /\ Count[s] \in Nat /\ Count'[s] = Count[s] - 1 /\ \A t \in Slots \ {s} : Count'[t] = Count[t]
      /\ Count' \in [Slots -> 0 .. Cardinality(Clients) * (MaxHolds + 1)]
  <2>1. Count \in [Slots -> 0 .. Cardinality(Clients) * (MaxHolds + 1)]
    BY DEF IInv, TypeOK
  <2>2. Cardinality(Clients) * (MaxHolds + 1) \in Nat
    BY FS_CardinalityType
  <2>3. Count[s] \in 1 .. Cardinality(Clients) * (MaxHolds + 1)
    BY <1>4, <2>1, <2>2
  <2> QED BY <1>3, <2>1, <2>2, <2>3
<1>7. \A t \in Slots : Count'[t] > 0 => Count[t] > 0 /\ (Count[s] = 1 => t # s /\ ident[t] # i)
  BY <1>4, <1>5, <1>6
<1>8. \A d \in Clients : pc'[d] = IF d = c THEN "receiving" ELSE pc[d]
  BY <1>3 DEF IInv, TypeOK
<1>9. TypeOK'
  <2>1. Server' \in [Slots -> [kind : Modes \cup {"none"}, id : AnyId, open : BOOLEAN]]
    <3>1. Server \in [Slots -> [kind : Modes \cup {"none"}, id : AnyId, open : BOOLEAN]]
      BY DEF IInv, TypeOK
    <3>2. Server[s] \in [kind : Modes \cup {"none"}, id : AnyId, open : BOOLEAN]
      BY <3>1
    <3>3. [Server[s] EXCEPT !.open = FALSE] \in [kind : Modes \cup {"none"}, id : AnyId, open : BOOLEAN]
      BY <3>2
    <3>4. Server' = Server \/ Server' = [Server EXCEPT ![s] = [Server[s] EXCEPT !.open = FALSE]]
      BY <1>3, <3>1
    <3> QED BY <3>1, <3>3, <3>4
  <2>2. table' \in [Ids -> [mode : Types, links : 0 .. 1]]
    <3>1. table \in [Ids -> [mode : Types, links : 0 .. 1]]
      BY DEF IInv, TypeOK
    <3>2. [table[i] EXCEPT !.mode = I_NOT_ALLOC] \in [mode : Types, links : 0 .. 1]
      BY <3>1 DEF Types
    <3>3. table' = table \/ table' = [table EXCEPT ![i] = [table[i] EXCEPT !.mode = I_NOT_ALLOC]]
      BY <1>3, <1>5, <3>1
    <3> QED BY <3>1, <3>2, <3>3
  <2>3. Dirty' \in [Slots -> BOOLEAN] /\ saved' \subseteq Ids /\ free' \subseteq Ids
    BY <1>3, <1>4 DEF IInv, TypeOK
  <2>4. pc' \in [Clients -> {"idle", "sending", "receiving", "awaiting"}]
    BY <1>3 DEF IInv, TypeOK
  <2> QED BY <1>3, <1>6, <2>1, <2>2, <2>3, <2>4 DEF IInv, TypeOK, AnySlot
<1>10. ~Has(c, s)
  BY <1>2, <1>3 DEF IInv, Holding
<1>11. \A d \in Clients, t \in Slots : User(d, t)' <=> User(d, t) /\ ~(d = c /\ t = s)
  <2>1. \A d \in Clients, t \in Slots : Has(d, t)' <=> Has(d, t)
    BY <1>3 DEF Has
  <2>2. \A d \in Clients, t \in Slots : Returns(d, t)' <=> Returns(d, t) /\ ~(d = c /\ t = s)
    BY <1>2, <1>3, <1>8 DEF Returns
  <2>3. waiting[s] # <<c>>
    BY <1>4 DEF Filling
  <2>4. \A t \in Slots : Returns(c, t) => t = s
    BY <1>2 DEF Returns
  <2> QED BY <1>3, <1>9, <1>10, <2>1, <2>2, <2>3, <2>4, GivenIs DEF IInv
<1>12. CountIsUsers'
  BY <1>3, <1>4, <1>11, UserLess DEF IInv
<1>13. \A d \in Clients, t \in Slots : FillsFor(d, t)' <=> FillsFor(d, t)
  BY <1>3 DEF FillsFor
<1>14. \A t \in Slots : Filling(t)' <=> Filling(t)
  BY <1>3 DEF Filling
<1>15. Count[s] = 1 => \A d \in Clients : User(d, s) => d = c
  BY <1>4, InUseHasUser DEF IInv
<1> USE DEF IInv
<1>16. Count[s] = 1 => ~\E d \in Clients : made[d] = i
  <2> SUFFICES ASSUME Count[s] = 1, NEW d \in Clients, made[d] = i PROVE FALSE
    OBVIOUS
  <2>1. PICK h \in holds[d] : h.id = i
    BY NoIdIsNone DEF Holding
  <2>2. h \in [id : Ids, slot : Slots] /\ Has(d, h.slot) /\ ident[h.slot] = h.id /\ Count[h.slot] > 0
    <3> HIDE DEF IInv
    <3> QED BY Held
  <2>3. h.slot = s
    BY <1>4, <1>5, <2>1, <2>2
  <2>4. d = c
    BY <1>15, <2>2, <2>3 DEF User
  <2> QED BY <1>10, <2>2, <2>3, <2>4
<1>17. ~\E d \in Clients : req[d].op = "new" /\ req[d].id = i
  <2> SUFFICES ASSUME NEW d \in Clients, req[d].op = "new", req[d].id = i PROVE FALSE
    OBVIOUS
  <2>1. FillsFor(d, s)
    BY <1>4, <1>5 DEF Numbers
  <2>2. Filling(s)
    <3> HIDE DEF IInv
    <3> QED BY <2>1, FillerWaits
  <2> QED BY <1>4, <2>2
<1>18. i \in free' => i \notin linked
  <2>1. i \in linked => table[i].links = 1
    BY DEF Links
  <2> QED BY <1>3, <1>4, <1>5, <2>1
<1>19. /\ \A j \in Ids : table'[j].links = table[j].links
       /\ \A j \in Ids : j # i => table'[j] = table[j]
       /\ table'[i].mode # table[i].mode => table[i].links = 0 /\ i \notin linked
       /\ Count[s] # 1 => table' = table /\ Server' = Server
       /\ \A t \in Slots : t # s => Server'[t] = Server[t]
       /\ free' \subseteq free \cup {i} /\ free \subseteq free'
       /\ Count[s] # 1 => free' = free
       /\ \A j \in saved : j \in saved'
  <2>1. i \in linked => table[i].links = 1
    BY DEF Links
  <2>2. table[i] \in [mode : Types, links : 0 .. 1]
    BY DEF TypeOK
  <2>3. CASE /\ Count[s] = 1 /\ table[i].links = 0 /\ free' = free \cup {i}
             /\ table' = [table EXCEPT ![i].mode = I_NOT_ALLOC]
             /\ Server' = [Server EXCEPT ![s].open = FALSE]
    BY <1>3, <2>1, <2>2, <2>3 DEF TypeOK
  <2>4. CASE /\ Count[s] = 1 /\ free' = free /\ table' = table
             /\ Server' = [Server EXCEPT ![s].open = FALSE]
    BY <1>3, <2>4 DEF TypeOK
  <2>5. CASE Count[s] # 1 /\ UNCHANGED <<Dirty, Server, table, saved, free>>
    BY <2>5
  <2> QED BY <1>3, <1>5, <2>3, <2>4, <2>5
<1>20. Serving'
  BY <1>3, <1>8 DEF Serving, IsAsking
<1>21. ASSUME NEW d \in Clients PROVE (Waiting(d) /\ Holding(d))'
  <2>1. pc'[d] = "idle" <=> req'[d].op = "none"
    BY <1>3, <1>8 DEF Waiting
  <2>2. pc'[d] = "receiving" => d = cur' /\ server' \in {"lock", "reply", "gone"}
    BY <1>3, <1>8 DEF Waiting
  <2>3. pc'[d] = "awaiting" => \E t \in Slots : waiting'[t] = <<d>>
    <3>1. pc'[d] = "awaiting" => pc[d] = "awaiting"
      BY <1>8
    <3>2. waiting' = waiting
      BY <1>3
    <3>3. pc[d] = "awaiting" => \E t \in Slots : waiting[t] = <<d>>
      BY DEF Waiting
    <3> QED BY <3>1, <3>2, <3>3
  <2>4. Holding(d)'
    BY <1>3, <1>8 DEF Holding, Has, IsAsking
  <2> QED BY <2>1, <2>2, <2>3, <2>4 DEF Waiting
<1>22. ASSUME NEW t \in Slots PROVE Loading(t)'
  <2>1. \A d \in Clients : waiting[t] = <<d>> => pc[d] = "awaiting" /\ pc'[d] = "awaiting"
    BY <1>3, <1>8 DEF Loading
  <2> QED BY <1>3, <1>11, <1>13, <2>1 DEF Loading, IsAsking
<1>23. ASSUME NEW t \in Slots PROVE Ready(t)'
  <2>1. Count'[t] > 0 => table'[ident[t]] = table[ident[t]] /\ Server'[t] = Server[t]
    BY <1>7, <1>19 DEF Ready
  <2> QED BY <1>3, <1>7, <2>1 DEF Ready
<1>24. OneSlot'
  BY <1>3, <1>7 DEF OneSlot
<1>25. OneAsks'
  BY <1>3 DEF OneAsks, IsAsking
<1>26. Numbers'
  <2>1. linked \cap free' = {}
    BY <1>18, <1>19 DEF Numbers
  <2>2. \A t \in Slots : Count'[t] > 0 => ident[t] \notin free'
    BY <1>7, <1>19 DEF Numbers
  <2>3. \A j \in Ids : Creating(j) => j \notin linked \cup free'
    BY <1>16, <1>17, <1>19 DEF Numbers, Creating
  <2>4. \A t \in Slots : \A d \in Clients :
          Count'[t] > 0 /\ req[d].op = "new" /\ ident[t] = req[d].id => FillsFor(d, t)'
    BY <1>7, <1>13 DEF Numbers
  <2> QED BY <1>3, <2>1, <2>2, <2>3, <2>4 DEF Numbers, Creating
<1>27. Links'
  <2>1. \A j \in linked : table'[j].mode # I_NOT_ALLOC
    <3> SUFFICES ASSUME NEW j \in linked PROVE table'[j].mode # I_NOT_ALLOC
      OBVIOUS
    <3>1. j \in Ids /\ table[j].mode # I_NOT_ALLOC
      BY DEF Links, TypeOK
    <3>2. CASE j = i
      BY <1>19, <3>1, <3>2
    <3>3. CASE j # i
      BY <1>19, <3>1, <3>3
    <3> QED BY <3>2, <3>3
  <2>2. \A t \in Slots : Count'[t] > 0 => table'[ident[t]].links = table[ident[t]].links /\ Count[t] > 0
    BY <1>7, <1>19 DEF Ready
  <2>3. \A j \in Ids : j \in linked \/ (\E d \in Clients : made[d] = j) => table'[j].links = 1
    BY <1>19 DEF Links
  <2> QED BY <1>3, <1>14, <2>1, <2>2, <2>3 DEF Links, Creating
<1>28. Unsaved'
  <2>1. \A j : Flushing(j) => Flushing(j)'
    BY <1>3, <1>8 DEF Flushing
  <2> SUFFICES ASSUME NEW j \in Ids \ saved'
               PROVE  \E t \in Slots :
                 /\ Count'[t] > 0 /\ ident'[t] = j
                 /\ ~(server' = "lock" /\ xp' = t) /\ load'[t].stage \notin {"load"}
                 /\ Dirty'[t] \/ (load'[t].stage \in {"lock", "wake"} /\ load'[t].op = "new") \/ Flushing(j)'
    BY DEF Unsaved
  <2>2. PICK t \in Slots :
          /\ Count[t] > 0 /\ ident[t] = j
          /\ ~(server = "lock" /\ xp = t) /\ load[t].stage \notin {"load"}
          /\ Dirty[t] \/ (load[t].stage \in {"lock", "wake"} /\ load[t].op = "new") \/ Flushing(j)
    BY <1>19 DEF Unsaved
  <2>3. CASE Count[s] = 1
    <3>1. t # s
      <4> SUFFICES ASSUME t = s PROVE FALSE
        OBVIOUS
      <4>1. ~Flushing(j)
        BY <1>5, <1>16, <2>2, <2>3 DEF Flushing
      <4>2. Dirty[s]
        BY <1>4, <2>2, <4>1
      <4> QED BY <1>3, <2>2, <2>3, <4>2
    <3>2. Dirty'[t] = Dirty[t]
      BY <1>3, <3>1 DEF TypeOK
    <3> QED BY <1>3, <1>6, <2>1, <2>2, <3>1, <3>2
  <2>4. CASE Count[s] # 1
    <3>1. Count'[t] > 0 /\ Dirty' = Dirty
      BY <1>3, <1>6, <2>2, <2>4
    <3> QED BY <1>3, <2>1, <2>2, <3>1
  <2> QED BY <2>3, <2>4
<1> QED BY <1>9, <1>12, <1>20, <1>21, <1>22, <1>23, <1>24, <1>25, <1>26, <1>27, <1>28
-----------------------------------------------------------------------------
(* The theorems. *)

LEMMA InitIInv == Init => IInv
<1> SUFFICES ASSUME Init PROVE IInv
  OBVIOUS
<1> USE DEF Init, slots
<1>1. TypeOK
  <2>1. 0 \in 0 .. Cardinality(Clients) * (MaxHolds + 1)
    BY FS_CardinalityType
  <2>2. table \in [Ids -> [mode : Types, links : 0 .. 1]]
    BY DEF FreeInode, Types
  <2> QED BY <2>1, <2>2 DEF TypeOK, AnyId, AnySlot, NoServer, Idle, Types, NoResponse
<1>2. \A c \in Clients, s \in Slots : ~User(c, s)
  BY DEF User, Given, Has, Returns
<1>3. CountIsUsers
  <2>1. \A s \in Slots : Users(s) = {}
    BY <1>2 DEF Users
  <2> QED BY <2>1, CountIs, FS_EmptySet
<1>4. Serving
  BY DEF Serving, NoResponse
<1>5. ASSUME NEW c \in Clients PROVE Waiting(c) /\ Holding(c)
  BY DEF Waiting, Holding, NoRequest, Request, IsAsking
<1>6. ASSUME NEW s \in Slots PROVE Loading(s) /\ Ready(s)
  BY DEF Loading, Ready, FillsFor, Idle
<1>7. OneSlot /\ OneAsks
  BY DEF OneSlot, OneAsks, IsAsking, NoRequest, Request
<1>8. Numbers
  BY NoIdIsNone DEF Numbers, Creating, NoRequest, Request
<1>9. Links
  <2>1. \A i \in linked : table[i] # FreeInode /\ table[i] \in {FreeInode} \cup [mode : Modes, links : {1}]
    OBVIOUS
  <2>2. \A i \in linked : table[i].links = 1 /\ table[i].mode \in Modes
    BY <2>1
  <2>3. \A i \in linked : table[i].mode # I_NOT_ALLOC
    BY <2>2 DEF I_NOT_ALLOC
  <2> QED BY <2>2, <2>3, NoIdIsNone DEF Links, Idle
<1>10. Unsaved
  BY DEF Unsaved
<1> HIDE DEF Init
<1> QED BY <1>1, <1>3, <1>4, <1>5, <1>6, <1>7, <1>8, <1>9, <1>10 DEF IInv

LEMMA Stutters == ASSUME IInv, UNCHANGED vars PROVE IInv'
<1> USE DEF vars, slots, disk, serverVars, clientVars
<1>1. TypeOK'
  BY DEF IInv, TypeOK
<1>2. CountIsUsers'
  <2>1. \A d \in Clients, s \in Slots : User(d, s)' <=> User(d, s)
    BY DEF User, Given, Has, Returns
  <2> QED BY <2>1, UsersSame DEF IInv
<1>3. Serving' /\ OneSlot' /\ OneAsks'
  BY DEF IInv, Serving, OneSlot, OneAsks, IsAsking
<1>4. ASSUME NEW c \in Clients PROVE (Waiting(c) /\ Holding(c))'
  BY DEF IInv, Waiting, Holding, Has, IsAsking
<1>5. ASSUME NEW s \in Slots PROVE (Loading(s) /\ Ready(s))'
  <2>1. \A d \in Clients : (User(d, s)' <=> User(d, s)) /\ (FillsFor(d, s)' <=> FillsFor(d, s))
    BY DEF User, Given, Has, Returns, FillsFor
  <2> QED BY <2>1 DEF IInv, Loading, Ready, IsAsking
<1>6. Numbers' /\ Links' /\ Unsaved'
  BY DEF IInv, Numbers, Creating, FillsFor, Links, Filling, Unsaved, Flushing
<1> QED BY <1>1, <1>2, <1>3, <1>4, <1>5, <1>6 DEF IInv

LEMMA NextIInv == ASSUME NobodyAsks, IInv, [Next]_vars PROVE IInv'
<1>1. CASE KeepCallback
  BY <1>1, KeepCallbackStep
<1>2. ASSUME NEW s \in Slots, Goroutine(s) PROVE IInv'
  BY <1>2, LoadInodeStep, FillStep, TakeMutexStep, WakeStep DEF Goroutine
<1>3. ASSUME NEW c \in Clients, NEW r \in Requests, Call(c, r) PROVE IInv'
  BY <1>3, CallStep
<1>4. ASSUME NEW c \in Clients, Serve(c) PROVE IInv'
  <2>1. NewInode(c) \/ GetInode(c) => IInv'
    BY FindStep DEF NewInode, GetInode
  <2>2. PutInode(c) \/ PutNil(c) \/ FlushInode(c) => IInv'
    BY PutInodeStep, PutNilStep, FlushInodeStep
  <2>3. MountDevice(c) \/ IsDeviceBusy(c) \/ Close(c) => IInv'
    BY MountDeviceStep, IsDeviceBusyStep, CloseStep
  <2> QED BY <1>4, <2>1, <2>2, <2>3 DEF Serve
<1>5. ASSUME NEW c \in Clients, Reply(c) \/ Link(c) PROVE IInv'
  BY <1>5, ReplyStep, LinkStep
<1>6. ASSUME NEW c \in Clients, NEW h \in holds[c], Write(c, h) \/ Unlink(c, h) \/ LinkFails(c, h)
      PROVE  IInv'
  BY <1>6, WriteStep, UnlinkStep, LinkFailsStep
<1>7. CASE UNCHANGED vars
  BY <1>7, Stutters
<1> QED BY <1>1, <1>2, <1>3, <1>4, <1>5, <1>6, <1>7 DEF Next

\* The invariant holds as long as the program runs.
THEOREM Invariant == NobodyAsks => (Spec => []IInv)
<1> SUFFICES ASSUME NobodyAsks PROVE Spec => []IInv
  OBVIOUS
<1>1. IInv /\ [Next]_vars => IInv'
  BY NextIInv
<1> QED BY <1>1, InitIInv, PTL DEF Spec

\* Every variable keeps its shape, and the count of a slot does not grow beyond the
\* number of the clients.
THEOREM TypesKept == NobodyAsks => (Spec => []TypeOK)
<1>1. IInv => TypeOK
  BY DEF IInv
<1> QED BY <1>1, Invariant, PTL

\* getinode, newinode and putinode count the users of a slot: those that have its
\* inode, have not got it yet, or are about to return it.
THEOREM CountsUsers == NobodyAsks => (Spec => []CountIsUsers)
<1>1. IInv => CountIsUsers
  BY DEF IInv
<1> QED BY <1>1, Invariant, PTL

\* The inode that a client has got stays in its slot and in no other that is in use,
\* loaded, allocated and with the server of its type, until the client puts it,
\* whatever other clients and goroutines do in between.
THEOREM HandsOutReady == NobodyAsks => (Spec => []HeldInodeReady)
<1>1. IInv => HeldInodeReady
  BY Held DEF HeldInodeReady
<1> QED BY <1>1, Invariant, PTL

\* A changed inode is written to its block before its slot is given to another: the
\* last put and the flush of a new inode leave no change behind.
THEOREM LosesNoChange == NobodyAsks => (Spec => []ChangesAreSaved)
<1>1. IInv => ChangesAreSaved
  BY DEF IInv, Unsaved, ChangesAreSaved
<1> QED BY <1>1, Invariant, PTL
-----------------------------------------------------------------------------
(* The cache implements the life of inodes. *)

LEMMA RefsStutter ==
  ASSUME UNCHANGED <<free, linked>>, \A d \in Clients : Refs(d)' = Refs(d)
  PROVE  UNCHANGED A!vars
BY DEF A!vars

\* A client that was not counted and is not counted afterwards, or is afterwards and
\* was before, uses what it holds and what it asks for.
LEMMA SameRefs ==
  ASSUME UNCHANGED <<free, linked>>,
         \A d \in Clients : /\ holds'[d] = holds[d]
                            /\ Counted(d)' <=> Counted(d)
                            /\ Counted(d) => req'[d].id = req[d].id
  PROVE  UNCHANGED A!vars
<1>1. \A d \in Clients : Refs(d)' = Refs(d)
  BY DEF Refs
<1> QED BY <1>1, RefsStutter

\* What a client uses is in a slot that it is counted as a user of.
LEMMA RefHasSlot ==
  ASSUME IInv, NEW c \in Clients, NEW i \in Refs(c)
  PROVE  \E s \in Slots : User(c, s) /\ ident[s] = i /\ Count[s] > 0
<1>1. CASE i \in {h.id : h \in holds[c]}
  <2>1. PICK h \in holds[c] : h.id = i
    BY <1>1
  <2>2. h \in [id : Ids, slot : Slots] /\ Has(c, h.slot) /\ ident[h.slot] = h.id /\ Count[h.slot] > 0
    BY Held
  <2> QED BY <2>1, <2>2 DEF User
<1>2. CASE Counted(c) /\ i = req[c].id
  <2>1. CASE pc[c] = "sending" /\ req[c].op = "put"
    <3>1. req[c].slot \in Slots
      BY <2>1, RequestsAre DEF IInv, TypeOK
    <3>2. PICK s \in Slots : s = req[c].slot
      BY <3>1
    <3>3. Returns(c, s) /\ ident[s] = i
      BY <1>2, <2>1, <3>2 DEF Returns, IInv, Holding
    <3>4. Count[s] > 0 /\ User(c, s)
      BY <3>3, Settled
    <3> QED BY <3>3, <3>4
  <2>2. ASSUME NEW s \in Slots, FillsFor(c, s) PROVE User(c, s) /\ ident[s] = i /\ Count[s] > 0
    BY <1>2, <2>2, FillerWaits, InUseHasUser DEF IInv
  <2>3. CASE pc[c] = "awaiting"
    BY <2>2, <2>3 DEF FillsFor, IInv, Waiting
  <2>4. CASE pc[c] = "receiving" /\ (server = "lock" \/ res.kind \in {"inode", "async"})
    <3>1. c = cur /\ (server = "reply" => res.slot \in Slots /\ ident[res.slot] = req[c].id)
          /\ (server = "lock" => xp \in Slots) /\ server \in {"lock", "reply"}
      BY <2>4 DEF IInv, Waiting, Serving
    <3>2. CASE server = "lock"
      <4>1. FillsFor(c, xp) /\ xp \in Slots
        BY <3>1, <3>2 DEF FillsFor
      <4> QED BY <2>2, <4>1
    <3>3. CASE server = "reply"
      <4>1. PICK s \in Slots : s = res.slot
        BY <3>1, <3>3
      <4>2. CASE res.kind = "inode"
        <5>1. User(c, s)
          BY <3>1, <3>3, <4>1, <4>2 DEF User, Given
        <5> QED BY <1>2, <3>1, <3>3, <4>1, <5>1, InUseHasUser DEF IInv
      <4>3. CASE res.kind = "async"
        <5>1. FillsFor(c, s)
          BY <3>1, <3>3, <4>1, <4>3 DEF FillsFor, IInv, Serving
        <5> QED BY <2>2, <5>1
      <4> QED BY <2>4, <3>3, <4>2, <4>3
    <3> QED BY <3>1, <3>2, <3>3
  <2> QED BY <1>2, <2>1, <2>3, <2>4 DEF Counted
<1> QED BY <1>1, <1>2 DEF Refs

\* Who is counted as a user of a slot uses the inode in it.
LEMMA UserRefs ==
  ASSUME IInv, NEW c \in Clients, NEW s \in Slots, User(c, s)
  PROVE  ident[s] \in Refs(c)
<1>1. CASE Has(c, s)
  BY <1>1 DEF Has, IInv, Holding, Refs
<1>2. CASE Returns(c, s)
  BY <1>2 DEF Returns, IInv, Holding, Refs, Counted
<1>3. CASE Given(c, s)
  <2>1. CASE FillsFor(c, s)
    <3>1. ident[s] = req[c].id
      BY <2>1, FillerWaits
    <3>2. Counted(c)
      BY <2>1 DEF FillsFor, Counted, IInv, Serving, Loading
    <3> QED BY <3>1, <3>2 DEF Refs
  <2>2. CASE c = cur /\ server = "reply" /\ res.kind = "inode" /\ res.slot = s
    BY <2>2 DEF Counted, Refs, IInv, Serving
  <2>3. (\E k \in DOMAIN waiting[s] : waiting[s][k] = c) <=> waiting[s] = <<c>>
    BY OneWaits DEF IInv, TypeOK
  <2> QED BY <1>3, <2>1, <2>2, <2>3 DEF Given, FillsFor
<1> QED BY <1>1, <1>2, <1>3 DEF User

\* Only the client whose request is handled is waiting for its answer.
LEMMA OneReceives == ASSUME IInv, NEW c \in Clients, pc[c] = "receiving" PROVE c = cur
BY DEF IInv, Waiting

\* A request that counts nobody.
LEMMA OtherRefs ==
  ASSUME IInv, NEW c \in Clients, NEW op \in {"flush", "mount", "isbusy", "close", "putnil"},
         Receive(c, op), server' \in {"gone", "reply"}, res'.kind \notin {"inode", "async"},
         UNCHANGED <<free, linked>>
  PROVE  UNCHANGED A!vars
<1>1. /\ server = "loop" /\ pc[c] = "sending" /\ req[c].op # "put" /\ UNCHANGED <<req, holds>>
      /\ \A d \in Clients : pc'[d] = IF d = c THEN "receiving" ELSE pc[d]
  BY DEF Receive, IInv, TypeOK
<1>2. \A d \in Clients : pc[d] # "receiving"
  BY <1>1 DEF IInv, Waiting
<1>3. \A d \in Clients : Counted(d)' <=> Counted(d)
  BY <1>1, <1>2 DEF Counted
<1> QED BY <1>1, <1>3, SameRefs

\* A client that gets the inode which it was counted as a user of.
LEMMA ReturnRefs ==
  ASSUME IInv, NEW c \in Clients, NEW s \in Slots, Return(c, s), IsAsking(c), Counted(c),
         UNCHANGED <<free, linked>>,
         \A d \in Clients \ {c} : Counted(d)' <=> Counted(d)
  PROVE  UNCHANGED A!vars
<1>1. PICK i : i = req[c].id
  OBVIOUS
<1>2. holds' = [holds EXCEPT ![c] = @ \cup {Hold(i, s)}] /\ Hold(i, s).id = i
  BY <1>1 DEF Return, Hold
<1>3. \/ /\ pc' = [pc EXCEPT ![c] = "sending"]
         /\ req' = [req EXCEPT ![c] = Request("flush", i, s, I_NOT_ALLOC)]
      \/ pc' = [pc EXCEPT ![c] = "idle"] /\ req' = [req EXCEPT ![c] = NoRequest]
  BY <1>1 DEF Return
<1>4. ~Counted(c)' /\ \A d \in Clients \ {c} : req'[d] = req[d]
  BY <1>3 DEF Counted, Request, NoRequest, IInv, TypeOK
<1>5. \A d \in Clients : holds'[d] = IF d = c THEN holds[c] \cup {Hold(i, s)} ELSE holds[d]
  BY <1>2 DEF IInv, TypeOK
<1>6. ASSUME NEW d \in Clients PROVE Refs(d)' = Refs(d)
  <2>1. CASE d = c
    BY <1>1, <1>2, <1>4, <1>5, <2>1 DEF Refs
  <2>2. CASE d # c
    BY <1>4, <1>5, <2>2 DEF Refs
  <2> QED BY <2>1, <2>2
<1> QED BY <1>6, RefsStutter

LEMMA CallRefs ==
  ASSUME IInv, NEW c \in Clients, NEW r \in Requests, Call(c, r)
  PROVE  A!Next \/ UNCHANGED A!vars
<1>1. /\ pc[c] = "idle" /\ MayCall(c, r)
      /\ \A d \in Clients : pc'[d] = IF d = c THEN "sending" ELSE pc[d]
      /\ \A d \in Clients : req'[d] = IF d = c THEN r ELSE req[d]
      /\ \A d \in Clients : holds'[d] = IF d = c /\ r.op = "put"
                                        THEN holds[d] \ {Hold(r.id, r.slot)} ELSE holds[d]
      /\ free' = (IF r.op = "new" THEN free \ {r.id} ELSE free)
      /\ UNCHANGED <<linked, server, res>>
  BY DEF Call, IInv, TypeOK, serverVars
<1>2. Refs(c)' = Refs(c)
  <2>1. CASE r.op = "put"
    <3>1. Hold(r.id, r.slot) \in holds[c] /\ Hold(r.id, r.slot).id = r.id
      BY <1>1, <2>1 DEF MayCall, Hold
    <3>2. Counted(c)' /\ ~Counted(c)
      BY <1>1, <2>1 DEF Counted
    <3>3. PICK h \in holds[c] : h.id = r.id /\ holds'[c] = holds[c] \ {h}
      BY <1>1, <2>1, <3>1
    <3>4. Refs(c) = {g.id : g \in holds[c]} /\ Refs(c)' = {g.id : g \in holds[c] \ {h}} \cup {h.id}
      BY <1>1, <3>2, <3>3 DEF Refs
    <3> QED BY <3>4
  <2>2. CASE r.op # "put"
    BY <1>1, <2>2 DEF Refs, Counted
  <2> QED BY <2>1, <2>2
<1>3. \A d \in Clients : Refs(d)' = Refs(d)
  BY <1>1, <1>2 DEF Refs, Counted
<1>4. CASE r.op = "new"
  <2>1. r.id \in Ids /\ r.id \in free
    BY <1>1, <1>4, RequestsAre DEF Requests, MayCall
  <2>2. A!Alloc(r.id)
    BY <1>1, <1>3, <1>4, <2>1 DEF A!Alloc
  <2> QED BY <2>1, <2>2 DEF A!Next
<1>5. CASE r.op # "new"
  BY <1>1, <1>3, <1>5, RefsStutter
<1> QED BY <1>4, <1>5

LEMMA FindRefs ==
  ASSUME IInv, IInv', NEW c \in Clients, NEW op \in {"get", "new"}, Find(c, op)
  PROVE  A!Next \/ UNCHANGED A!vars
<1>1. /\ server = "loop" /\ pc[c] = "sending" /\ req[c].op = op /\ IsAsking(c) /\ cur' = c
      /\ \A d \in Clients : pc'[d] = IF d = c THEN "receiving" ELSE pc[d]
      /\ UNCHANGED <<req, holds, free, linked>>
      /\ server' \in {"lock", "reply"}
  BY DEF Find, Receive, IsAsking, disk, Respond, IInv, TypeOK
<1>2. PICK i \in Ids : i = req[c].id
  BY <1>1, RequestsAre DEF IInv, TypeOK
<1>3. \A d \in Clients : pc[d] # "receiving"
  BY <1>1 DEF IInv, Waiting
<1>4. ~Counted(c) /\ i \notin Refs(c)
  <2>1. ~Counted(c)
    BY <1>1 DEF Counted
  <2> QED BY <1>1, <1>2, <2>1 DEF Refs, IInv, Holding
<1>5. \A d \in Clients \ {c} : Refs(d)' = Refs(d)
  BY <1>1, <1>3 DEF Refs, Counted
<1>6. Refs(c)' = IF Counted(c)' THEN Refs(c) \cup {i} ELSE Refs(c)
  BY <1>1, <1>2, <1>4 DEF Refs
<1>7. CASE ~Counted(c)'
  <2>1. \A d \in Clients : Refs(d)' = Refs(d)
    BY <1>5, <1>6, <1>7
  <2> QED BY <1>1, <2>1, RefsStutter
<1>8. CASE Counted(c)'
  <2>1. A!Use(c, i)
    BY <1>5, <1>6, <1>8 DEF A!Use
  <2>2. CASE op = "get"
    <3>1. i \in linked
      BY <1>1, <1>2, <2>2 DEF IInv, Numbers
    <3>2. A!Open(c, i)
      BY <1>1, <1>4, <2>1, <3>1 DEF A!Open
    <3> QED BY <3>2 DEF A!Next
  <2>3. CASE op = "new"
    <3>1. i \notin free \cup linked
      BY <1>1, <1>2, <2>3 DEF IInv, Numbers, Creating
    <3>2. \A t \in Slots : ~FillsFor(c, t)
      BY <1>1 DEF FillsFor, IInv, Loading
    <3>3. \A t \in Slots : ~(Count[t] > 0 /\ ident[t] = i)
      BY <1>1, <1>2, <2>3, <3>2 DEF IInv, Numbers
    <3>4. ~A!Used(i)
      BY <3>3, RefHasSlot DEF A!Used
    <3>5. A!Create(c, i)
      BY <1>1, <2>1, <3>1, <3>4 DEF A!Create
    <3> QED BY <3>5 DEF A!Next
  <2> QED BY <2>2, <2>3
<1> QED BY <1>7, <1>8

LEMMA PutRefs ==
  ASSUME IInv, IInv', NEW c \in Clients, PutInode(c)
  PROVE  A!Next \/ UNCHANGED A!vars
<1>1. req[c].slot \in Slots
  BY RequestsAre DEF PutInode, Receive, IInv, TypeOK
<1>2. PICK s \in Slots : s = req[c].slot
  BY <1>1
<1>3. /\ server = "loop" /\ pc[c] = "sending" /\ req[c].op = "put" /\ Returns(c, s)
      /\ pc' = [pc EXCEPT ![c] = "receiving"]
      /\ UNCHANGED <<req, holds, made, ident, linked>>
      /\ res' = [kind |-> "empty", slot |-> nil] /\ server' = "reply"
      /\ \/ Count[s] > 1 /\ free' = free
         \/ /\ Count[s] = 1
            /\ \/ table[ident[s]].links = 0 /\ free' = free \cup {ident[s]}
               \/ table[ident[s]].links # 0 /\ free' = free
  BY <1>2, PutEffect
<1>4. /\ Count[s] > 0 /\ User(c, s) /\ ~Filling(s) /\ ident[s] \in Ids
      /\ \A t \in Slots : Count[t] > 0 /\ ident[t] = ident[s] => t = s
  BY <1>3, Settled
<1>5. PICK i \in Ids : i = ident[s]
  BY <1>4
<1>6. req[c].id = i /\ ~Has(c, s)
  BY <1>2, <1>3, <1>5 DEF IInv, Holding
<1>7. /\ \A d \in Clients : pc'[d] = IF d = c THEN "receiving" ELSE pc[d]
      /\ \A d \in Clients : pc[d] # "receiving"
  BY <1>3 DEF IInv, TypeOK, Waiting
<1>8. \A d \in Clients \ {c} : Refs(d)' = Refs(d)
  BY <1>3, <1>7 DEF Refs, Counted
<1>9. Counted(c) /\ ~Counted(c)'
  BY <1>3, <1>7 DEF Counted
<1>10. \A h \in holds[c] : h.id # i
  <2> SUFFICES ASSUME NEW h \in holds[c], h.id = i PROVE FALSE
    OBVIOUS
  <2>1. h \in [id : Ids, slot : Slots] /\ Has(c, h.slot) /\ ident[h.slot] = h.id /\ Count[h.slot] > 0
    BY Held
  <2>2. h.slot = s
    BY <1>4, <1>5, <2>1
  <2> QED BY <1>6, <2>1, <2>2
<1>11. i \in Refs(c) /\ Refs(c)' = Refs(c) \ {i}
  BY <1>3, <1>6, <1>9, <1>10 DEF Refs
<1>12. \A d \in Clients \ {c} : i \in Refs(d) <=> User(d, s)
  <2> SUFFICES ASSUME NEW d \in Clients PROVE i \in Refs(d) <=> User(d, s)
    OBVIOUS
  <2>1. User(d, s) => i \in Refs(d)
    BY <1>5, UserRefs
  <2>2. ASSUME i \in Refs(d) PROVE User(d, s)
    <3>1. PICK t \in Slots : User(d, t) /\ ident[t] = i /\ Count[t] > 0
      BY <2>2, RefHasSlot
    <3> QED BY <1>4, <1>5, <3>1
  <2> QED BY <2>1, <2>2
<1>13. A!Used(i)' <=> \E d \in Clients \ {c} : User(d, s)
  BY <1>8, <1>11, <1>12 DEF A!Used
<1>14. free' = {j \in free \cup {i} : j \in free \/ (i \notin linked /\ ~A!Used(i)')}
  <2>1. CASE Count[s] > 1
    <3>1. A!Used(i)'
      BY <1>13, <2>1, InUseHasUser DEF IInv
    <3> QED BY <1>3, <2>1, <3>1
  <2>2. CASE Count[s] = 1
    <3>1. \A d \in Clients : User(d, s) => d = c
      BY <1>4, <2>2, InUseHasUser DEF IInv
    <3>2. ~A!Used(i)'
      BY <1>13, <3>1
    <3>3. ~\E d \in Clients : made[d] = i
      <4> SUFFICES ASSUME NEW d \in Clients, made[d] = i PROVE FALSE
        OBVIOUS
      <4>1. PICK h \in holds[d] : h.id = i
        BY NoIdIsNone DEF IInv, Holding
      <4>2. i \in Refs(d)
        BY <4>1 DEF Refs
      <4>3. d # c
        BY <1>10, <4>1
      <4> QED BY <1>12, <3>1, <4>2, <4>3
    <3>4. ~\E d \in Clients : req[d].op = "new" /\ req[d].id = i
      <4> SUFFICES ASSUME NEW d \in Clients, req[d].op = "new", req[d].id = i PROVE FALSE
        OBVIOUS
      <4>1. FillsFor(d, s)
        BY <1>4, <1>5 DEF IInv, Numbers
      <4> QED BY <1>4, <4>1, FillerWaits
    <3>5. ~Creating(i)
      BY <3>3, <3>4 DEF Creating
    <3>6. i \in linked <=> table[i].links # 0
      <4>1. i \in linked => table[i].links = 1
        BY DEF IInv, Links
      <4>2. i \notin linked => table[i].links = 0
        BY <1>4, <1>5, <3>5 DEF IInv, Links
      <4> QED BY <4>1, <4>2
    <3> QED BY <1>3, <1>5, <2>2, <3>2, <3>6
  <2> QED BY <1>3, <2>1, <2>2
<1>15. A!Close(c, i)
  BY <1>3, <1>8, <1>11, <1>14 DEF A!Close
<1> QED BY <1>15 DEF A!Next

LEMMA ReplyRefs == ASSUME IInv, NEW c \in Clients, Reply(c) PROVE UNCHANGED A!vars
<1>1. /\ c = cur /\ server = "reply" /\ pc[c] = "receiving"
      /\ server' \in {"closed", "loop"} /\ res' = NoResponse
      /\ UNCHANGED <<free, linked>>
      /\ \A d \in Clients : pc[d] = "receiving" => d = c
  BY Replied
<1>2. CASE res.kind = "inode" /\ Return(c, res.slot)
  <2>1. PICK s \in Slots : s = res.slot
    BY <1>1, <1>2 DEF IInv, Serving
  <2>2. IsAsking(c) /\ Counted(c) /\ Return(c, s)
    BY <1>1, <1>2, <2>1 DEF IInv, Serving, Counted
  <2>3. \A d \in Clients \ {c} : pc'[d] = pc[d] /\ req'[d] = req[d]
    BY <1>2 DEF Return, IInv, TypeOK
  <2>4. \A d \in Clients \ {c} : Counted(d)' <=> Counted(d)
    BY <1>1, <2>3 DEF Counted
  <2> QED BY <1>1, <2>2, <2>4, ReturnRefs
<1>3. CASE res.kind = "async" /\ pc' = [pc EXCEPT ![c] = "awaiting"] /\ UNCHANGED <<req, holds>>
  <2>1. \A d \in Clients : pc'[d] = IF d = c THEN "awaiting" ELSE pc[d]
    BY <1>3 DEF IInv, TypeOK
  <2>2. \A d \in Clients : Counted(d)' <=> Counted(d)
    BY <1>1, <1>3, <2>1 DEF Counted
  <2> QED BY <1>1, <1>3, <2>2, SameRefs
<1>4. CASE /\ res.kind \notin {"inode", "async"} /\ UNCHANGED holds
           /\ pc' = [pc EXCEPT ![c] = "idle"] /\ req' = [req EXCEPT ![c] = NoRequest]
  <2>1. \A d \in Clients : /\ pc'[d] = IF d = c THEN "idle" ELSE pc[d]
                           /\ req'[d] = IF d = c THEN NoRequest ELSE req[d]
    BY <1>4 DEF IInv, TypeOK
  <2>2. ~Counted(c) /\ \A d \in Clients : Counted(d)' <=> Counted(d)
    BY <1>1, <1>4, <2>1 DEF Counted
  <2>3. \A d \in Clients : Counted(d) => req'[d].id = req[d].id
    BY <2>1, <2>2
  <2> QED BY <1>1, <1>4, <2>2, <2>3, SameRefs
<1> QED BY <1>2, <1>3, <1>4 DEF Reply

LEMMA GoroutineRefs ==
  ASSUME IInv, NEW s \in Slots, Goroutine(s) PROVE UNCHANGED A!vars
<1>1. CASE LoadInode(s) \/ Fill(s) \/ TakeMutex(s)
  <2>1. UNCHANGED <<free, linked, pc, req, holds, server, res>>
    BY <1>1 DEF LoadInode, Fill, TakeMutex, disk, serverVars, clientVars
  <2> QED BY <2>1, SameRefs DEF Counted
<1>2. ASSUME NEW c \in Clients, Wake(s, c) PROVE UNCHANGED A!vars
  <2>1. /\ load[s].stage = "wake" /\ pc[c] = "awaiting" /\ c = Head(waiting[s])
        /\ Return(c, s) /\ UNCHANGED <<free, linked, server, res>>
    BY <1>2 DEF Wake, disk, serverVars
  <2>2. PICK d \in Clients : waiting[s] = <<d>>
    BY <2>1, BeingLoaded
  <2>3. IsAsking(c) /\ Counted(c)
    BY <2>1, <2>2, BeingLoaded DEF Counted
  <2>4. \A e \in Clients \ {c} : pc'[e] = pc[e] /\ req'[e] = req[e]
    BY <2>1 DEF Return, IInv, TypeOK
  <2>5. \A e \in Clients \ {c} : Counted(e)' <=> Counted(e)
    BY <2>1, <2>4 DEF Counted
  <2> QED BY <2>1, <2>3, <2>5, ReturnRefs
<1> QED BY <1>1, <1>2 DEF Goroutine

LEMMA IdleRefs ==
  ASSUME IInv, NEW c \in Clients,
         \/ Link(c)
         \/ \E h \in holds[c] : Write(c, h) \/ Unlink(c, h) \/ LinkFails(c, h)
  PROVE  A!Next \/ UNCHANGED A!vars
<1>1. pc[c] = "idle" /\ UNCHANGED <<free, pc, req, holds, server, res>>
  BY DEF Link, Write, Unlink, LinkFails, Change, serverVars
<1>2. \A d \in Clients : Refs(d)' = Refs(d)
  BY <1>1 DEF Refs, Counted
<1>3. CASE linked' = linked
  BY <1>1, <1>2, <1>3, RefsStutter
<1>4. CASE Link(c)
  <2>1. made[c] # NoId /\ linked' = linked \cup {made[c]}
    BY <1>4 DEF Link
  <2>2. PICK i \in Ids : i = made[c]
    BY <2>1 DEF IInv, TypeOK, AnyId
  <2>3. i \in Refs(c)
    BY <2>1, <2>2 DEF IInv, Holding, Refs
  <2>4. i \notin linked
    BY <2>2 DEF IInv, Numbers, Creating
  <2>5. A!Link(c, i)
    BY <1>1, <1>2, <2>1, <2>2, <2>3, <2>4 DEF A!Link
  <2> QED BY <2>5 DEF A!Next
<1>5. ASSUME NEW h \in holds[c], Unlink(c, h) PROVE A!Next
  <2>1. h.id \in linked /\ linked' = linked \ {h.id}
    BY <1>5 DEF Unlink
  <2>2. PICK i \in Ids : i = h.id
    BY Held
  <2>3. i \in Refs(c)
    BY <2>2 DEF Refs
  <2>4. A!Unlink(c, i)
    BY <1>1, <1>2, <2>1, <2>2, <2>3 DEF A!Unlink
  <2> QED BY <2>4 DEF A!Next
<1>6. ASSUME NEW h \in holds[c], Write(c, h) \/ LinkFails(c, h) PROVE linked' = linked
  BY <1>6 DEF Write, LinkFails
<1> QED BY <1>3, <1>4, <1>5, <1>6

LEMMA NextRefs ==
  ASSUME IInv, IInv', [Next]_vars
  PROVE  [A!Next]_(A!vars)
<1>1. CASE KeepCallback
  <2>1. /\ server = "lock" /\ server' = "reply" /\ res'.kind = "async"
        /\ UNCHANGED <<free, linked, pc, req, holds>>
    BY <1>1 DEF KeepCallback, Respond, disk, clientVars
  <2> QED BY <2>1, SameRefs DEF Counted
<1>2. ASSUME NEW s \in Slots, Goroutine(s) PROVE [A!Next]_(A!vars)
  BY <1>2, GoroutineRefs
<1>3. ASSUME NEW c \in Clients, NEW r \in Requests, Call(c, r) PROVE [A!Next]_(A!vars)
  BY <1>3, CallRefs
<1>4. ASSUME NEW c \in Clients, Serve(c) PROVE [A!Next]_(A!vars)
  <2>1. CASE NewInode(c) \/ GetInode(c)
    BY <2>1, FindRefs DEF NewInode, GetInode
  <2>2. CASE PutInode(c)
    BY <2>2, PutRefs
  <2>3. CASE PutNil(c)
    <3>1. Receive(c, "putnil") /\ server' = "gone" /\ res' = res /\ UNCHANGED <<free, linked>>
      BY <2>3 DEF PutNil, disk
    <3>2. res.kind = "none"
      BY <3>1 DEF Receive, IInv, Serving
    <3> QED BY <3>1, <3>2, OtherRefs
  <2>4. CASE FlushInode(c)
    <3>1. Receive(c, "flush") /\ UNCHANGED <<free, linked>>
      BY <2>4 DEF FlushInode
    <3>2. server' = "reply" /\ res' = [kind |-> "empty", slot |-> nil]
      <4>1. server' # "panicked"
        BY DEF IInv, Serving
      <4> QED BY <2>4, <4>1 DEF FlushInode, Answer, Respond
    <3> QED BY <3>1, <3>2, OtherRefs
  <2>5. CASE MountDevice(c)
    BY <2>5, OtherRefs DEF MountDevice, Answer, Respond
  <2>6. CASE IsDeviceBusy(c)
    BY <2>6, OtherRefs DEF IsDeviceBusy, Respond, disk
  <2>7. CASE Close(c)
    BY <2>7, OtherRefs DEF Close, Respond, disk
  <2> QED BY <1>4, <2>1, <2>2, <2>3, <2>4, <2>5, <2>6, <2>7 DEF Serve
<1>5. ASSUME NEW c \in Clients, Reply(c) PROVE [A!Next]_(A!vars)
  BY <1>5, ReplyRefs
<1>6. ASSUME NEW c \in Clients,
             Link(c) \/ \E h \in holds[c] : Write(c, h) \/ Unlink(c, h) \/ LinkFails(c, h)
      PROVE  [A!Next]_(A!vars)
  BY <1>6, IdleRefs
<1>7. CASE UNCHANGED vars
  <2>1. UNCHANGED <<free, linked, pc, req, holds, server, res>>
    BY <1>7 DEF vars, disk, serverVars, clientVars
  <2> QED BY <2>1, SameRefs DEF Counted
<1> QED BY <1>1, <1>2, <1>3, <1>4, <1>5, <1>6, <1>7 DEF Next

LEMMA InitRefs == Init => A!Init
<1> SUFFICES ASSUME Init PROVE A!Init
  OBVIOUS
<1>1. \A c \in Clients : Refs(c) = {}
  BY DEF Init, Refs, Counted
<1> QED BY <1>1 DEF Init, A!Init

\* The cache implements the life of inodes: an inode exists as long as it has an
\* entry in a directory or a user, and putinode frees its number with the last one
\* of an unlinked inode and at no other time.
THEOREM Implementation == NobodyAsks => (Spec => ImplementsOpenInodes)
<1> SUFFICES ASSUME NobodyAsks PROVE Spec => ImplementsOpenInodes
  OBVIOUS
<1>1. Init => A!Init
  BY InitRefs
<1>2. IInv /\ IInv' /\ [Next]_vars => [A!Next]_(A!vars)
  BY NextRefs
<1>3. Spec => []IInv
  BY Invariant
<1> QED BY <1>1, <1>2, <1>3, PTL DEF Spec, A!Spec, ImplementsOpenInodes
=============================================================================
