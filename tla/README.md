# Verification of minixfs

TLA+ models of the Go implementation of the MINIX file system in `src/minixfs`, the TLC
configurations that check them and the TLAPS proofs about them. Paths below are relative to the
root of the repository (`src/minixfs/...`, `src/fsck`, `cmd`).

## The system

Every component that keeps state is a *server*: a goroutine with a loop that receives requests
on an unbuffered channel `in` and answers on an unbuffered channel `out`. All clients of a server
share the two channels. A client sends its request and then receives from `out`, and asserts the type of
what it gets. Slow requests (a block to be loaded, a read of a file) are handed to a goroutine, and the
answer is a *callback*, a channel on which the result will come later.

| Component | State it keeps | Operations | What makes it correct |
|---|---|---|---|
| Bitmap, `bitmap/bitmap.go` | the inode and zone maps (blocks of the cache), the hints `i_search`, `z_search` | AllocInode, AllocZone, FreeInode, FreeZone, Close | a marked bit is a number in use; nothing is handed out twice; failure only when full |
| Finode, `finode/finode.go` | size and zones of one open file (in the cached inode), `locked`, `waitGroup` | Read (a goroutine each), Write, Lock, Unlock, Close | reads and writes are atomic; every call returns |
| Zone map, `common/read.go`, `utils/write.go` | the zone numbers of an inode, the indirect blocks | ReadMap, WriteChunk, NewBlock, WriteMap, Truncate | every zone is free or in one place of one file; a file reads as it was written |
| Block cache, `bcache/cache_lru.go` | buffers, the LRU chain, the hash chains, callbacks, mounted devices | MountDevice, UnmountDevice, GetBlock (loads in a goroutine), PutBlock, Flush, Invalidate, Close | a held buffer stays; one buffer per block; LRU replacement; nothing written is lost |
| Inode cache, `inode/cache.go` | slots with reference counts, waiting callbacks, the finode or dinode server of each inode | MountDevice, NewInode, GetInode (load in a goroutine), PutInode, FlushInode, IsDeviceBusy, Close | one slot per inode; a count is the number of its holders; an inode without links is freed once |
| Dinode, `dinode/` | the entries of one open directory | Lookup, LookupGet (goroutines), Link, Unlink, IsEmpty, Lock, Unlock, Close | a search does not run beside a change; an inode that is looked up still has its entry |
| System calls, `fs/` | processes, descriptors, `filps`, locks | Open, Close, Read, Write, Seek, Mkdir, Rmdir, Unlink, Chdir, Spawn, Exit | every inode taken is given back; what is used is not freed; the tree stays a tree |
| Mounts, `fs/syscalls.go`, `fs/util.go` | devices, bitmaps, mount points | Mount, Unmount, Shutdown | a busy device stays mounted; mount points lead to their devices; an unmounted one leaves no trace |
| Devices, `device/` | the ram disk or a file | Read, Write, Close | writes wait for reads |
| fsck and `cmd/` | none that interacts | | |

How they interact: a system call looks a path up through dinodes and the inode cache (which starts
and stops the finode and dinode servers), and reads and writes through a finode. Finodes and dinodes use
the zone map code in their own goroutine; it calls the bitmap server for zones. Everybody gets
blocks from the block cache, the bitmap server its map blocks too; the cache reads the devices. The servers
share memory beside the channels: `CacheInode` (its `Count` is changed by the inode cache *and* by
`dupInode`), the buffers of the cache (changed in place by whoever holds one), and the hash chains
of the block cache (changed by its loading goroutines).

The hard parts are these: several clients on one pair of channels; goroutines that outlive the request that started
them; steps of two files between the allocation of a zone and its entry in the map; failures
half way (no zone for the indirect block); LRU and hash chains linked by hand; bit numbers computed three times with
different constants. Nothing survives a crash by design: flushing never writes (see below), so that recovery is no subject.

## Modules

| Module | Models | Lines |
|---|---|---|
| `Bitmap` | the bitmap server and its clients, every bit and both hints | `bitmap/bitmap.go`, `bitmap/messages.go` |
| `Allocator` | what a bitmap promises (abstract) | interface `Bitmap` |
| `Finode` | the server of an open file, the goroutines of its reads, its lock | `finode/finode.go`, `finode/messages.go` |
| `AtomicFile` | what an open file promises (abstract) | interface `Finode` |
| `BlockCache` | the block cache, its loading goroutines, its clients | `bcache/cache_lru.go`, `bcache/messages.go` |
| `LRUPool` | a pool of buffers with LRU replacement (abstract) | interface `BlockCache` |
| `ZoneMap` | the zones of files that share a zone bitmap | `common/read.go`, `utils/write.go` |
| `SparseFiles` | files as bytes, with zeroes where nothing was written (abstract) | interface `Finode` |
| `InodeCache` | the server of the inode cache, its loading goroutines, the system calls that use it | `inode/cache.go`, `inode/messages.go` |
| `OpenInodes` | inodes that live as long as they have a name or a user (abstract) | interface `InodeCache` |
| `Dinode` | the server of an open directory, the goroutines of its searches, `search_dir` | `dinode/*.go` |
| `AtomicDirectory` | what an open directory promises (abstract) | interface `Dinode` |
| `Syscalls` | the system calls on processes and files, over directories and an inode cache as promised | `fs/syscalls.go`, `fs/util.go`, `fs/fs.go`, `fs/types.go` |
| `Mounts` | Mount, Unmount, Shutdown, and the paths that cross mount points meanwhile | the same, `bcache`, `inode` at their interfaces |
| `MC*` | instances for TLC | |
| `BitmapProofs`, `FinodeProofs`, `DinodeProofs`, `ZoneMapProofs`, `BlockCacheProofs`, `InodeCacheProofs`, `SyscallsProofs`, `MountsProofs` | theorems and proofs about the module of that name | |

Conventions. A client is `"idle"`, `"sending"` on `in`, `"receiving"` on `out` or `"awaiting"` a
callback; a rendezvous on an unbuffered channel is one step of the receiver's action. What a
server does between two points where another goroutine can see or change something is one action, named for the
function of the code. A definition that a comment introduces in parentheses (`(KeptZone: it does not.)`) is a
faulty variant of the one after it. It is used nowhere; put in the place of that one, it is a mutant
that one of the properties must catch.

**Bitmap.** One request is one step: the server waits for blocks in between, but nobody else touches map
blocks. The two maps are sets of marked positions (block, bit of the block), and `alloc_bit` is the scan of
the code: start at the origin's block and word, visit `bcount` blocks, leave a block when a bit past the end is met.
Words have 2 bits and blocks 4 words, instead of 16 bits and 512 words. The clients free only what they
hold (the callers in `fs` and `utils` do, but see `MCZoneMapReuse`). `inuse` is a history variable.

**Finode.** `StartRead`, `ReadChunk`, `EndRead` are the goroutine of a read, one step per block, and
`StartWrite`, `WriteChunk`, `ChunkFails`, `EndWrite` are a write in the server. Lock hands out a private channel and puts it
into `d.in`, but `for req := range d.in` evaluates `d.in` once: the loop never listens on the private channel, a client that has
the lock waits for ever with its next request, and a lock excludes nobody. The file is its bytes (holes and zones are in `ZoneMap`). `Wild` switches on calls that break
the protocol: Unlock by a client that has no lock, reads past the end of the file.

**BlockCache.** The buffers with all their fields and links, the two ends of the LRU chain, and the hash
table are variables. `GetBlock` is the search and the choice of a buffer, `Hit`/`KeepCallback` the
branch with the block in the cache, `Unhash` the unlinking from the hash chain. `LoadBlock`, `Rehash`, `Read`,
`Wake` are the loading goroutine, which works on the hash chains with no lock, one read or write of a
chain's head per step. A client holds at most one block at a time. `Ops`, `Asks`, `MaxHits` choose what the clients
do: with `Asks = {}` they ask only for blocks that are not in the cache or wanted by somebody else. A client does not
ask for blocks of a device while somebody unmounts or invalidates it (the callers hold `fs.m.device`).
PREFETCH and NO_DEV are left out: nobody uses them.

**ZoneMap.** Every file is worked on by its own server; a step lasts from one call of the bitmap server to the next
or shorter. The bitmap is the abstract one (any free zone). `table[z]` is what zone `z` holds when it is read as an indirect
block (`Illegal` after data was stored in it: `RdIndir` panics), `data[z]` when it is read as data. Truncate frees
zone by zone, with steps of the other file in between. `Ops` has what else is done with files: remove them, truncate them
with O_TRUNC, put a new file in the inode of a removed one.

**InodeCache.** `Find` is the search of `newinode` and `getinode`, with its three outcomes (ENFILE, a slot in use, a
slot to be filled); `KeepCallback` is the rest of the request, under the mutex of the wait lists. `LoadInode`, `Fill`,
`TakeMutex`, `Wake` are the goroutine that loads a slot. `PutInode` is one step with `Release`: the last user closes
the server of the inode, frees it if it has no links and writes it if it was changed. The inode of a slot is a
pointer into a block of the block cache, which keeps all blocks here, so that several slots may point to one inode;
an inode is its type and its links. The bitmap is the set `free`, the directories are the set
`linked`. Clients do what the system calls do: they allocate a number before NewInode, flush the new inode and then
make an entry (`Link`) or fail to (`LinkFails`); the number of a creation that gets ENFILE is `lost`, since `newNode` does
not give it back. `Unlink` waits for lookups of the name, as the `waitGroup` of the dinode does. With `Asks = {}`
nobody asks for an inode that is being loaded. `dupInode`, which changes `Count` outside of the server, is in `Syscalls`.

**Dinode.** As `Finode`: `SearchRequest` counts the goroutine of a Lookup, LookupGet or IsEmpty in `waitGroup` before it answers;
`StartSearch`, `SearchBlock`, `SearchEnds`, `GetInode`, `EndSearch` are the goroutine, one step per block; `StartUpdate`, `DeleteBlock`,
`NotFound`, `EnterBlock`, `Extend` are Link and Unlink in the server, one step per block, after `waitGroup.Wait()`. `slots` is the
sequence of entries below the size of the directory; a slot is free when its inode number is 0. `Hits` and `Room` are the tests that
`search_dir` makes of the entries of a block. The directory starts in any state that Link and Unlink may have made. A name may be in it
twice, since Link does not look. The loop does not end after Close (`break` leaves the switch), which no client can see.

**Syscalls.** A step of a call is one request to a directory or to the inode cache that others can tell apart, together with the references
given back right after it. These two servers are taken at what `AtomicDirectory` and `OpenInodes` promise. `Walk`, `LookFirst`,
`MakeInode`, `Link`, `UnlinkPrep` are the helpers of `util.go` that several calls share; each call ends in an action of its own name. `count`
is `CacheInode.Count` and is compared with what processes, descriptors and calls refer to; `lost` counts the references that a failing
call drops (`CountIsReferences` holds with them, and says which those are; no call begins when `MaxLost` are lost). The paths of the requests are what
`filepath.Clean` leaves of a path (`IsClean`), and `Nlinks` is a number of 16 bits. `Wild` lifts rules that
well-behaved processes keep: `"race"` lets calls that change the tree overlap, `"space"` lets a zone become free while a Mkdir fails for
want of one (it can then enter `..` though it could not enter `.`), `"exitOpen"` lets a process exit with a file whose descriptor
and number in `fs.filps` differ, `"chdir"` lets a process change directory under a root directory of its own and exit with a
working directory that is not its root directory.

**Mounts.** The tables `fs.devices` and `fs.mountinfo`, the devices of the block cache (`devs`), which of them are open, the counts and the
`Mount` flags of inodes, the working directories. Mount and unmount are a step per change that others can see; the path of a Chdir or Mount
is followed a lookup at a time (`Lookup`, `Cross`), with no lock of the devices, as in the code. All devices have the same tree. Unless
`Wild` says `"race"`, no path is followed while a device is unmounted (`Quiet`, `Settled`), and unless it says `"reuse"`, a slot that had a device
is not used for another one.

## Runs

States are distinct ones, times are for 2 workers on a small machine; all bounds are in the configurations.

| Run | Question | Bounds | States |
|---|---|---|---|
| `bitmap` | Do the maps agree with what is in use? Are numbers refused only when all are taken, and does every call return? Does it implement `Allocator`? | 2 clients; 2 inodes, 2 zones; every initial map | 73 000, 3 min |
| `finode` | Do reads see a stable file, does every call outside a lock return? Does it implement `AtomicFile`? | 2 clients; 3 bytes in blocks of 2; spans inside a block, across blocks, past the end; stray calls | 90 000, 2 min |
| `bcache` | Eviction by three clients: is what is held kept, does a get fail only if all buffers are held, is the oldest one taken (`LRUPool`)? | 3 clients, 2 buffers, 3 blocks in chains of their own | 190 000, 76 s |
| `bcache_alone` | Hash chains with several blocks, devices that come and go: is every cached block found, does every call return? | 1 client, 2 buffers, 3 blocks in 2 chains, every operation | 61 000, 19 s |
| `bcache_fits` | All blocks fit: does each have what was last stored? | 2 clients, 2 buffers, 2 blocks, 2 values, hits | 955 000, 2 min |
| `zones` | Is every zone free or in one place of one file, do failures and removals lose none? Does it implement `SparseFiles`? | 2 files, 4 zones; 1 direct, 2 single indirect, 4 double indirect blocks; partial writes to one block of each kind and to both second-level blocks | 273 000, 4 min |
| `icache` | Are counts the numbers of users, do users find a loaded inode in its one slot and its server, is an inode freed once and after its last use, are changes written? Does it implement `OpenInodes`? | 2 clients with 2 inodes each; 3 inodes on 2 devices; 3 slots, of which 2 are ever used | 678 000, 3 min |
| `icache_live` | Does every call of the inode cache return? | 2 clients with 1 inode each; 2 inodes | 24 000, 37 s |
| `dinode` | Does LookupGet fetch an inode that still has its entry, does every call outside a lock return? Does it implement `AtomicDirectory`? | 2 clients; up to 4 slots in blocks of 2, in every state; 3 entries | 117 000, 67 s |
| `syscalls` | Are references given back or accounted for, is what is used not freed, does the tree stay a tree, does every call return? | 2 threads, 2 processes, 3 inodes in a tree of two levels, 1 descriptor, 2 entries in `filps`, `MaxLost` = 1 | 113 000, 2 min |
| `mounts` | Are references kept, is a mounted device the one that is read, do mount points lead to their devices, are devices in use mounted, does every call return? | 2 clients; 3 slots; the root device, 2 devices, 1 without a file system; 2 directories and a file to mount on | 176 000, 3 min |
| `mounts_reuse` | (violation) the slot of an unmounted device, or of a failed Mount, is used again | 2 clients | |

Why the bounds are enough. The interesting cases of the bitmap scan are the order of words (two per map), the
part of a word past the end of the map and the second half of a block, which `map_bits` never reaches; two
clients are enough for one to wait behind the other's request, reply and Close. A write of three bytes in blocks of
two has two chunks, so that it can fail at the second one and so that a read has a step on each side of it. Two buffers and
three clients give eviction with all, some and no buffers in use, and every order of the LRU chain; hash chains longer than
one come with one client only, because concurrent loads into one chain race (below). Four zones are
one less than the largest request needs with the zones of the other file in use, so that every allocation
of `WriteMap` fails in some state and succeeds in another. Three inodes for two usable slots make the inode table full, and
make a slot hold one inode after another; two clients with two inodes each share an inode, return it first and last, and
have one device idle while the other is busy. A directory of two blocks of two slots is searched with one, both or no blocks behind a
search, and an entry can move from the block ahead to the one behind. Two threads let every step of a call come between any
two of another one; with two levels and three inodes there is a directory to remove while a file in it is opened, and the inodes run out; one
descriptor and two entries in `filps` give both kinds of exhaustion. Three slots are one for the root device and two that are mounted
on the root device or on each other; the device without a file system makes Mount fail half way.

Deadlock checking is off (`CHECK_DEADLOCK FALSE`) where clients may close or end the server or everything ends in a
panic or in removed files; `bcache_fits` has it on. Symmetry is used in safety runs only: clients, files and zones are interchangeable,
and no definition chooses among them.

**Fairness.** The Go runtime runs every goroutine that can go on: weak fairness of the steps of a server's own work, of
loading and reading goroutines, and of a client that can take its reply. A channel wakes its blocked
senders in FIFO order, so a client that is sending is served if the loop comes back again and again, though another
client may be served first: strong fairness of `Serve(c)`. So does a
mutex: strong fairness of `KeepCallback` and `TakeMutex`. `Syscalls` and `Mounts` have no servers of their own:
a thread that can take its next step takes it (weak in `Mounts`), and since it may wait for a mutex that others take again and again, which
Go hands to those who wait, strong fairness of `Goes` in `Syscalls`.
Nothing is assumed about clients making calls.

## Where the code departs from what it says

One disagreement is a run of the project:

- `mounts_reuse`: Mount notes for the entries that it makes, that of the block cache among them, "(will need to be cleared if there is a
  problem)" (`src/minixfs/fs/syscalls.go:108`). Neither its error paths nor `unmount` clear that one. The next Mount in the slot gets
  EBUSY from the block cache, which nobody looks at, reads the device that is closed, and panics. A device cannot be
  mounted again after it was unmounted.

Others were met while modelling. They are kept as properties of the modules, most of them under "What the documentation says and
the code does not do", each with a configuration in which TLC finds it violated
(`tlc -config MCBitmapLarge.cfg MCBitmap`):

- `MCBitmapLarge`: `bitchunks_per_block` is half of the bits of a block and is used as the number of bits of a block. With
  more inodes or zones than that, numbers in use are handed out again. The theorems about `Bitmap`
  assume `SmallMaps` for this reason.
- `MCFinodeLock`: "Lock the inode, obtaining exclusive access via the returned interface" excludes nobody: the loop goes on receiving from
  the channel that it ranged over, and never from the one that Lock returned.
- `MCFinodePastEnd`: a read that starts past the end panics. So does Unlock without Lock.
- `MCFinodeGrow`: a write that fails at a later chunk leaves the grown inode unmarked.
- `MCBlockCacheTwice`: a buffer that is being loaded is in no hash chain; a second get for its block loads it into
  another buffer, and later changes go to one of the two.
- `MCBlockCacheJoin`: a get that finds its block being loaded is never told where to wait.
- `MCBlockCacheCollide`: loads into one hash chain race with the server and crash it.
- `MCBlockCacheCount`: a hit does not increment `count`, and its put links the buffer a second time.
- `MCZoneMapTruncate`: Truncate frees the zones and leaves their numbers and the size in the inode (`wipeInode` is
  empty), so that an open file goes on using zones that are given to other files.
- `MCZoneMapReuse`: a new file in a reused inode has the size and the zones of the old one; removing it panics.
- `MCZoneMapHoles`: a hole reads as block 0 of the device.
- `MCInodeCacheLoading`: there are wait lists for inodes that are being loaded, but only the client whose request started the
  load is ever put on one. A second client gets the slot at once, without an inode or with the one of an earlier use.
- `MCInodeCachePutNil`: `PutInode(nil)` (Mkdir when it fails before there is an inode, Mount) ends the loop of the inode cache;
  every later call waits for ever.
- `MCSyscallsRooted`: Spawn has one reference for the root and the working directory of a process, and Chdir gives it back. The root
  directory can be removed and its inode used for something else, though advance says "don't go beyond the current root
  directory, ever" (`src/minixfs/fs/util.go:206`).
- `MCSyscallsDirs`: Unlink takes directories, and `.` too: a process that unlinks `.` in its working directory leaves a directory without it,
  and Rmdir then takes the name of that directory but fails to remove the rest, so that links are left over.
- `MCMountsRace`: unmount tests that a device is not busy and goes on in later requests; a path that crosses the mount point meanwhile
  has a reference to an inode of a device that is gone.

For the passing runs these mean: `ImplementsLRUPool` holds for clients that do not hit the
cache, `LatestKept` for blocks that are never evicted, `ImplementsSparseFiles` if block 0 is all zeroes, if there is
no O_TRUNC and if inodes are not reused, everything about `InodeCache` if nobody asks for an inode while it is loaded, and `Syscalls` and `Mounts` under the rules above. The
configurations say so: `Asks`, `Ops`, `BootByte`, `Wild`.

Part of the modules, as the code has it:

- with `Wild` = `{"race"}` two creations of one name both succeed (`newNode` looks up and links in separate requests), a Mkdir that fails then
  removes the entry of the other one, and `UsedIsAllocated` and `TreeIsSound` fail;
- with `Wild` = `{"space"}` a Mkdir may enter `..` in the directory that it then removes; a process that has changed to that directory meanwhile
  walks along that `..` to an inode that may have been freed, and `UsedIsAllocated` fails;
- Flush writes nothing (`actuallywrite` is false); slot 0 of the inode cache is never used, so that the table is "completely full" with one slot left;
- Close leaves `proc.filp[fd]` set, so that descriptors run out; `fs.close`, which Exit calls, clears `fs.filps` at the descriptor
  instead of the entry's number; Open does not give the inode back when it fails after the lookup, `unlinkPrep` and Rmdir keep inodes on
  some error paths; `newNode` does not give a number back when it gets ENFILE;
- Unlink removes directories; `.` in the root directory, and Read and Write on a directory, panic;
- a process that changed directory cannot exit cleanly; Mount on a directory that is in use puts nil and ends the inode cache.

Read only: `dupInode` is a data race on `Count`; a ram disk that is written past its end answers ERR_SEEK and leaves its loop, so
that later calls block; its goroutines for reads share the variable of the loop.

## Proofs

| Theorem | Statement |
|---|---|
| `BitmapProofs!TypeCorrectness` | `Spec => []TypeOK` |
| `BitmapProofs!MapsExact` | `[](MapsMatchUse /\ AllocatedIsFresh)` |
| `BitmapProofs!ServerSound` | no panic, replies reach their callers, the hint is sound |
| `BitmapProofs!NoSpuriousFull` | `[]FailsOnlyWhenFull` |
| `BitmapProofs!Implementation` | `Spec => ImplementsAllocator` |
| `FinodeProofs!TypeCorrectness` | `Spec => []TypeOK` |
| `FinodeProofs!StableReads` | `[]ReadersSeeStableFile` |
| `FinodeProofs!ServerSound` | `[]RepliesReachCaller` |
| `FinodeProofs!Implementation` | `Spec => ImplementsAtomicFile` |
| `DinodeProofs!TypeCorrectness` | `Spec => []TypeOK` |
| `DinodeProofs!StableSearches` | `[]SearchSeesStableDirectory` |
| `DinodeProofs!InodesLinked` | `[]InodeGotIsLinked` |
| `DinodeProofs!Implementation` | `Spec => ImplementsAtomicDirectory` |
| `ZoneMapProofs!TypeCorrectness` | `Spec => []TypeOK` |
| `ZoneMapProofs!ZonesNotShared` | `[]NoZoneShared` |
| `ZoneMapProofs!ZonesNotLost` | `[]NoZoneLost` |
| `ZoneMapProofs!Safe` | `[]NeverPanics` |
| `ZoneMapProofs!Implementation` | `EmptyBoot => (Spec => ImplementsSparseFiles)` |
| `BlockCacheProofs!TypesKept` | `NobodyAsks => (Spec => []TypeOK)` |
| `BlockCacheProofs!KeepsHeldBlocks` | `NobodyAsks => (Spec => []HeldBlockKept)` |
| `BlockCacheProofs!FindsCached` | `Undisturbed => (Spec => []CachedIsFound)` |
| `BlockCacheProofs!StaysUp` | `Undisturbed => (Spec => []FailsOnlyIfAllInUse)` |
| `BlockCacheProofs!Implementation` | `Undisturbed => (Spec => ImplementsLRUPool)` |
| `BlockCacheProofs!KeepsLatest` | `Fits => (Spec => []LatestKept)` |
| `InodeCacheProofs!TypesKept` | `NobodyAsks => (Spec => []TypeOK)` |
| `InodeCacheProofs!CountsUsers` | `NobodyAsks => (Spec => []CountIsUsers)` |
| `InodeCacheProofs!HandsOutReady` | `NobodyAsks => (Spec => []HeldInodeReady)` |
| `InodeCacheProofs!LosesNoChange` | `NobodyAsks => (Spec => []ChangesAreSaved)` |
| `InodeCacheProofs!Implementation` | `NobodyAsks => (Spec => ImplementsOpenInodes)` |
| `SyscallsProofs!TypesKept` | `StaysIn => (Spec => []TypeOK)` |
| `SyscallsProofs!CountsReferences` | `StaysIn => (Spec => []CountIsReferences)` |
| `SyscallsProofs!UsedStaysAllocated` | `Orderly => (Spec => []UsedIsAllocated)` |
| `SyscallsProofs!TreeStaysSound` | `Orderly => (Spec => []TreeIsSound)` |
| `MountsProofs!CountsReferences` | `Tame => (Spec => []CountIsReferences)` |
| `MountsProofs!MountsAreRead` | `Tame => (Spec => []MountedIsRead)` |
| `MountsProofs!PointsLead` | `Tame => (Spec => []MountPointsLead)` |
| `MountsProofs!UsedStayMounted` | `Tame => (Spec => []UsedIsMounted)` |
| `MountsProofs!Panics` | `Tame => (Spec => []NeverPanics)` |

Assumptions. There is no bound on clients, buffers, slots, devices, files, inodes, zones, entries, block, file or directory sizes; the named
ASSUMEs of the modules say what the constants are:

- `Bitmap`, `Finode`, `Dinode`, `ZoneMap`: sizes are positive, the geometry fits, inode numbers are positive, chunks lie in one block.
- `BlockCache`, `InodeCache`, `Mounts`: there are finitely many clients (goroutines of one process), since counts are compared with
  cardinalities. The block cache has two buffers or more. The names of a directory are finitely many numbers other than those
  of `..` and of the root, and the paths of the requests are not empty.
- `Syscalls`: there are finitely many threads and processes, and a few inodes less than 16 bits can number (so that `newNode` never meets
  `math.MaxUint16` links, which is not modelled); the paths are clean.

Some theorems are about programs that keep a rule. The rule is a hypothesis that the configurations of the passing runs satisfy, and a
configuration in which TLC finds the property violated shows that it cannot be dropped:

| Rule | Of | What it says | What happens without it |
|---|---|---|---|
| `SmallMaps` | `Bitmap` | both maps have at most `bitchunks_per_block` bits | `MCBitmapLarge` |
| `OnlyRemoved` | `ZoneMap` | files are written and removed, not truncated while in use, and no inode is used again | `MCZoneMapTruncate`, `MCZoneMapReuse` |
| `EmptyBoot` | `ZoneMap` | block 0, which holes are read from, is all zeroes (for `Implementation` only) | `MCZoneMapHoles` |
| `NobodyAsks` | `BlockCache` | nobody asks for a block that is in the cache or used by another client (`Asks = {}`) | `MCBlockCacheJoin`, `MCBlockCacheTwice`, `MCBlockCacheCount` |
| `Undisturbed` | `BlockCache` | that, and either there is one client (`Alone`) or no two blocks share a hash chain with each other or with the unused buffers and nobody invalidates a device (`Apart`) | `MCBlockCacheCollide` |
| `Fits` | `BlockCache` | all blocks fit into the cache, in hash chains of their own (`Apart`), nobody puts one back as the next to be evicted (`ONE_SHOT`) or asks for one while another client gets it; clients may ask for cached blocks that others use | flushing writes nothing, so that a block that is evicted and read again is an old one: `MCBlockCacheFits` with a third number in `Numbers` |
| `NobodyAsks` | `InodeCache` | nobody asks for an inode while it is being loaded (`Asks = {}`) | `MCInodeCacheLoading` |
| `StaysIn` | `Syscalls` | no process exits with a working directory other than its root directory, or leaves a root directory of its own (`"chdir"` is not in `Wild`) | `MCSyscallsRooted` |
| `Orderly` | `Syscalls` | calls that change the tree do not overlap, no zone is freed while a Mkdir fails for want of one, nobody exits with a file whose two numbers differ or changes directory without care (`Wild = {}`), and programs unlink files only: no path of an unlink ends in `.`, `..`, `d` or a name that a Mkdir gives (`UnlinksFiles`) | `MCSyscallsDirs`; also any of `"race"` and `"space"` in `Wild` |
| `Tame` | `Mounts` | no path is followed while a device is unmounted, and no slot is used for another device (`Wild = {}`) | `MCMountsRace`, `MCMountsReuse` |

*Bitmap.* The scan comes first: `ScanStops` and `AllocBit` show that `alloc_bit` returns a usable clear
bit if there is one, wherever it starts, `ScanFailsOnFullMap` the converse. `MapsMatchUse` is not inductive, for two reasons: it says
nothing of the bits of the maps that must stay marked or unused, and it does not keep two clients from owning one number.
`IInv` adds `Accounts` (a bit is marked iff its number has exactly one claim: held, being freed or being
allocated), `Reserved` (bit 0), `Hint`, `Holdings` (what a client frees was held and is nobody else's) and the shape of
requests. `AllocAccounts`, `FreeAccounts` and `QuietAccounts` are the three ways in which a step can change claims; every action is
one of them. Freeing never panics because a claim means a marked bit. `NoSpuriousFull` uses that between
the scan and the reply nothing changes.

*Finode.* `ReadersSeeStableFile` needs that no write runs while a read has looked at the file. That follows from
`Counted` (a client that awaits its read is in `waitGroup`) and `NoReaderDuringWrite` (a server that
writes has passed an empty `waitGroup`, and takes no request meanwhile). The refinement maps a read to the step in which its goroutine copies its last block, and a write to the step in which
the server ends it: `before` (the bytes before the write) is what the abstract file is until then.

*Dinode.* The two invariants that matter are about a search between two of its steps: the blocks behind it have no entry that it looks
for and the directory has the size that it began with, and the inode that LookupGet is about to fetch has its entry. Neither is
inductive. An update would break both, so `IInv` adds that a server that updates has passed an empty `waitGroup`
(`NoSearchDuringUpdate`), that `waitGroup` has every client whose search is promised or running (`Counted`), and that the server
works on the request of the one client that is receiving (`OneCaller`, `ServesCaller`). The arithmetic is in `BlockOfSlot` and
`RoomInDirectory`: the last block has room unless the size is a multiple of the block size, and the directory is never longer than
`MaxSlots`, which is such a multiple. `FirstIsLeast` (a set of slots has a first one) is the library's well-foundedness of `<`.
The refinement maps a search to the step in which it finds a hit or passes the last block (LookupGet to the step in which it
has its inode), and an update to the step that changes a slot or fails. What the abstract directory has of an entry is the
number of its slots, so that the steps of an update are counted with the cardinality lemmas for adding and removing one element.

*ZoneMap.* `NoZoneShared` says nothing of a file that is being removed, though other files take the zones that it gives back while it goes
on reading its indirect blocks. `IInv` is about *claims*: a reference (an entry of an inode or of an indirect block, or the new zone of a
write) has a claim to its zone as long as its file lives, and during a removal until the call of FreeZone that frees it (`CallOf`). `Distinct`
and `AllClaimed` are the two properties for claims. Every step claims one free zone, releases one, moves one claim (WriteMap) or changes none
(`ZoneClaimed`, `ZoneReleased`, `ZoneMoved`, `NothingClaimed`). The order of the calls matters in `ParentOpen`: an indirect
block is freed after what is entered in it, so that what a removal still reads is claimed, and what is claimed is nobody else's to change
(`OtherFiles`). `EntryEntered` and `NumberEntered` say that one entry is one reference, which needs that a number is its quotient and
remainder. `WritesBlock` (the block that is written has no zone until WriteMap, and then `z`) makes
Store clear no indirect block; `Inside` (a block with a zone begins before the end of the file) makes Truncate find every zone, since it
stops at the size.

The refinement reads each file through its zones (`ByteAt`). What a file reads as beyond its end is not part of the abstract file, but
is as soon as a write extends it; so the invariant (`RInv`) adds `ZeroesBeyond`: there is nothing but zeroes beyond the end, in a hole or in the rest of a zone. `Puts` says of a step which file it makes how long and
which bytes it sets to what, and that no other byte of any file changes; each step is shown to put something or nothing. WriteMap puts nothing, though the file
has another zone afterwards: the zone was cleared and the hole read as zeroes, which is what `EmptyBoot` is for. Store puts its chunk: no other block of this or another file has the zone (`Distinct`). The other
steps change no block that a claim reaches (`BlocksKept`). A removal is the abstract one at its first step, and what it does afterwards is to a file that is gone.

*BlockCache.* `HeldBlockKept` says what a client has once it has it. `IInv` says how it comes to that: a client that asked for a block is the
one whose request the server is at, or the one on the list `waiting` of one buffer that is being loaded (`Serving`, `Calling`, `Awaited`); no two
clients want one block (`Wanted`); the buffer of a wanted block is the one that is loaded for the client, from the step that writes its
identity on (`Fresh`); and what is in a client's hands is not what the server has just taken (`Possession`). The server takes a buffer
from the front of the LRU chain, so `Chained` says what that chain is: there is a sequence of the buffers that are not in use, each once, and
`front`, `rear`, `next` and `prev` are its links (`Line`). Taking, removing and putting back a buffer at either end are each a lemma
about such a sequence. `CountsHolder` (a count is 1 while a client has the buffer or it is loaded, else 0) is why a put
gives back the buffer: `count` is 0 then.

`CachedIsFound` and `FailsOnlyIfAllInUse` need the hash chains too. `HInv` says that the chain of each bucket is a sequence of its buffers (`Table`) that
the loading goroutines have not taken into their hands, and that at most one load moves into a chain and none while the server takes
a buffer out (`Apiece`); two clients whose blocks share a chain would break just that. The search is modelled as the first node of
the walk along the links that has the block. Along a sequence without repetition the walk ends, so that the first such node
is the one buffer there is; that a set of numbers has a least one is the library's well-foundedness of `<`.

The refinement takes the sequence of `Line` for the abstract queue. It is unique (`OneOrder`), so that the queue that the module chooses is the one of the
proof (`OrderIs`). Taking the front buffer is `Take`, putting one at either end is `Give`, invalidating is `Forget`, and every other step,
those of the loading goroutine included, changes neither the queue nor what the pool says is in a buffer.

`LatestKept` is about clients that do ask for cached blocks, for which none of the above holds: a hit leaves the buffer in the chain of free ones
and counts no client, so that the put that follows links the buffer in twice and makes its count negative. The invariant (`LInv`) therefore says nothing of counts or of
the used part of that chain. It says that the unused buffers are the last ones in the order of `Init`, linked, with the first of them at the front (`UnusedFirst`), which putting a buffer at the rear cannot change; that
there is one while a block is in no buffer, since blocks are in one buffer each and fit (`SomeUnused`, by the cardinality of an injection); hence that a get takes an unused
buffer and evicts no block. A block then is read once (`ReadOnce`), and every later change is made in the buffer it is in (`HeldStored`). With one more block than buffers, with `ONE_SHOT`, or with two blocks in one hash chain
TLC finds `LatestKept` violated.

*InodeCache.* None of the four properties is inductive. A slot that is being filled already counts its client, before the client knows of it, so
`CountIsUsers` needs to know who that is (`Serving`, `Waiting`, `Loading`: the one client on the list of a slot is the one
that awaits it, and the only user of the slot). `HeldInodeReady` needs that a slot in use has its inode, and its server, after the steps
of the load that set them (`Ready`). That an inode has one slot (`OneSlot`) rests on `OneAsks`: two clients that ask at once ask for
different inodes. `Numbers` and `Links` relate slots to the bitmap and to the directories: a number that is being
created is neither free nor linked, and an inode has one link exactly if it has an entry or its creator is about to make one; this is why
the last user of an inode without links frees it once. `Unsaved` says where a change is until it is written: in a slot that is `Dirty`,
will be, or is about to be flushed. The refinement maps the slots in use to the inodes that live, and the users of a slot to those of
its inode (`RefHasSlot`, `UserRefs`).

*Syscalls.* `CountIsReferences` compares a count with a sum of four cardinalities and the references that are lost. A step of a call changes
what its own thread holds (`CallFrame`) or one process (`ProcessFrame`); these two lemmas say what such a step must do to the count and
to `lost`, and after them there is one lemma for each action. What the invariant needs besides is what makes the steps right:
a call has the inodes of its stage and no others (`Fits`), a process that is spawned does not exist and one that exits has one
directory (`Running`), nobody else works for it meanwhile (`Alone`), and an open file has its descriptor marked as taken, so that Open
overwrites no other file and drops no reference (`Descriptors`). `StaysIn` is needed for Exit, which gives back two
references when the directories of the process differ, of which it had one. These two theorems hold for programs that race, run out of space
and exit with files open.

`UsedIsAllocated` and `TreeIsSound` are about the tree, which is one only when no call is in the middle of changing it. The invariant
(`IInv`) says what it is meanwhile: `Tree(K, N, E, L, M, U)` is a tree with kinds `K`, links `N` and entries `E` but for the inodes in `L` (linked, no entry yet), `M`
(directories without `.` and `..` yet) and `U` (directories whose entry is gone but whose `.` and `..` are not), and `Linking`, `Making` and `Leaving`
say which these are at each stage of the one call that changes it (`OneChange`). Links equal entries (`Linked`), where the entries of a directory without links,
of which only `.` can be left (`Husks`), do not count; that Rmdir takes the right ones needs that a directory is entered in its `..` (`Reached`) under one name (`OneName`),
and that `.` and `..` lead where they should (`DotsLead`). `Knows` is what a call remembers
of the tree between its steps (its directory still has links, the name it looked up is still free or still leads to its inode): no step of another thread
changes that, and each lemma about an action starts from it. What is free has neither links nor users (`FreeIs`); with `CountIsReferences` this
is `UsedIsAllocated`, root directories being held by nobody but never freed (`Roots`). A step goes on with the change of its call (`ChangeGoes`), ends it (`ChangeEnds`) or
leaves the tree alone (`QuietStep`, `QuietEnd`, `ProcessKeepsTree`); there is one lemma for each action.

*Mounts.* `CountIsReferences` is inductive with the right bookkeeping: the references to an inode are a sum of cardinalities (working directories,
paths being followed, mount points), and a step moves one element between the parts (`PartMoved`, `OwnMoved`). `MountPointsLead` and
`UsedIsMounted` follow from `Placed` and `Flags`: everything in use is on a device *in its place*, and an inode has the `Mount` flag
exactly if such a device covers it. A mount makes its entries one at a time, and so does an unmount undo them, hence `Mounting` and `Undoing` for the slot that is
worked on, `Locking` (who mounts has the lock; who unmounts is alone, by `Tame`) and `Filled`: slots are filled from the last one on, which is why the free slot of a
Mount is not one of a device before. That a device that is not busy may go (`release`) is where the counts come in: any use of an
inode of the device other than the entry itself would be a second reference (`TwoRefs`, `NotBusy`).

*Only model-checked:* what calls do in the end (`EveryCallReturns`, under the fairness of the specifications), since liveness and `ENABLED` are out of the provers' reach. Every
invariant and every refinement that a passing run checks is a theorem.

## Not modelled, and the plan

Every server of the file system but the ram disk has a module, and so have the system calls. What is left:

- `Ramdisk`: its server with the goroutines of its reads, and the traversal of fsck against `ZoneMap`.

Left out for good: the file device (I/O), decoding of the superblock and disk formats (no state), the commands in `cmd/` (written
for an earlier version of the library), printing, `minixfs.csp` (a sketch of an earlier design; its questions, sequential
writes and freedom from deadlock, are asked of `Finode` and `BlockCache`). Crashes are no subject: nothing is kept over one, as flushing never writes.
