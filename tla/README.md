# HOMEDEPOT in TLA+

The repository holds five programs written in C, C++ and x86-64 assembly: a
multithreaded chat server with its two clients (`csf_assign05`), a sort that
forks a tree of processes (`csf_assign04`), a cache simulator (`csf_assign03`),
image transformations (`csf_assign02`) and 256-bit integers (`HW1`). They share
no code, so each has modules of its own here.

Paths below are relative to `src/`.

## 1. Inventory

### Chat server, `csf_assign05`

| part | state | operations | talks to |
|---|---|---|---|
| `Server` (`server.cpp`) | `m_rooms`, `m_lock` | accept loop, `find_or_create_room` | starts a detached `worker` thread per connection |
| `worker`, `chat_with_sender`, `chat_with_receiver` | `Client_thread`: connection, `User*`, `Room*` | login, join, leave, sendall, quit; deliver | its peer through `Connection`, rooms, its own queue |
| `Room` (`room.cpp`) | `members`, `lock` | add, remove, broadcast | calls `enqueue` of each member's queue with its lock held |
| `MessageQueue` (`message_queue.cpp`) | deque, `m_lock`, semaphore | enqueue, dequeue with a timeout of a second | the threads of senders and of one receiver |
| `Connection` (`connection.cpp`) | descriptor, `rio_t` buffer, last result | send, receive, close | sockets, through `csapp.c` |
| `sender.cpp`, `receiver.cpp` | the dialogue | login, command loop; join, print loop | the server |

Hard here: threads that share rooms and queues, a `User` deleted by one thread
while another one broadcasts to it, a timed wait that races a post, peers that
vanish between any two steps, messages cut by the network, replies that never
come, lock order. What makes it correct: no deleted `User` is used, the member
set does not change under a broadcast, a queue's semaphore agrees with its
length, a room name has one `Room`, a user is in one room, the receivers of a
room hear the same messages in the same order, what is queued is delivered, and
threads of vanished peers clean up.

### Parallel sort, `csf_assign04`

`parsort.c` maps a file and sorts it by a quicksort in which each recursive call
is a child process on the same mapping. State: the array, the tree of
processes, what each has been told by `fork` and `waitpid`. Hard: forks that
fail, children that are killed, `waitpid(0)`, unsigned indices. Correct means:
success is reported only for a sorted permutation of the file, two processes
never write to the same element, every child is waited for, the program ends.

### Cache simulator, `csf_assign03`

`cache_sim.cpp` keeps sets of blocks with a tag, valid and dirty bits and two
timestamps; `loading` and `storing` look a block up, replace one under LRU or
FIFO, and count hits, misses and cycles. Each of the policies has its own copy
of the search and replacement loops. Hard: long traces that could break the
order of ages, dirty blocks and their cost in each of the copies.

### Images, `csf_assign02`

| part | state | operations | talks to |
|---|---|---|---|
| `main` (`c_imgproc_main.c`) | the two images, the exit status | read, create the output, apply a transformation, write | everything below |
| `c_imgproc_fns.c` | the pixels of two images | grayscale, a four-fold picture, a fade, a kaleidoscope | |
| `asm_imgproc_fns.S` | registers, a stack frame, the pixels | the same four | its caller, through the calling convention |
| `image.c` | an image's pixel buffer | `img_init`, `img_read`, `img_write`, `img_cleanup` | `pnglite.c`, malloc |
| `pnglite.c` | `png_t`: a FILE, four buffers, a zlib stream | open, chunks, inflate, unfilter, write | zlib, stdio |

The repository builds the program twice, with the C and with the assembly
functions. Hard: index arithmetic on two image sizes, integer rounding, odd
widths; values that stay in registers across calls, a frame shared by pushes and
locals; an allocation or a file that fails after others have succeeded; rows
that are filtered by what is above them. What makes it correct: the pixels of
the file reach the transformation, which does what its comment says, in C as in
assembly; a caller gets its registers back; every block and FILE is released
once on every path; the exit status and the output file agree.

### 256-bit integers, `HW1`

`uint256.c`: eight 32-bit words, addition with carry, negation, subtraction,
multiplication by shifts, hexadecimal conversion. Hard: carries, the cut at
64 digits, shifts by whole words.

## 2. Modules

| module | models | kind |
|---|---|---|
| `ChatServer` | `server.cpp`, `room.cpp`, `message_queue.cpp` | one action per critical section and system call of a thread |
| `ChatRoom` | what a chat room promises | abstract specification |
| `ChatServerProofs` | theorems about `ChatServer`; that it implements `ChatRoom` | proofs |
| `Framing` | `connection.cpp` on `rio_*` of `csapp.c` | a stream with one sender and one receiver |
| `FramingProofs` | theorems about `Framing` | proofs |
| `ChatSession` | `sender.cpp`, `receiver.cpp` and the thread that serves them | the two ends of one dialogue |
| `ChatSessionProofs` | theorems about `ChatSession` | proofs |
| `Parsort` | the array of `parsort.c` | what the next two have in common |
| `Partition` | `partition` and `swap` of `parsort.c` | one action per turn of the loop |
| `ForkSort` | `quicksort`, `quicksort_subproc`, `quicksort_wait` | a tree of processes |
| `ParsortProofs` | theorems about the two | proofs |
| `Cache` | `cache_sim.cpp`, `main.cpp` | one action per access |
| `MemoryCache` | what a cache of memory blocks does | abstract specification |
| `CachePair` | two `Cache`s on one trace | extends `Cache`; comparison of command lines |
| `CacheProofs`, `CachePairProofs` | theorems about the two | proofs |
| `ImgProc` | `c_imgproc_fns.c` | one action per pixel |
| `AsmImgProc` | `asm_imgproc_fns.S` | one action per prologue, turn and epilogue; refines `ImgProc` |
| `Png` | the bytes of `image.c` and `pnglite.c` | operators: filters, byte order, rows |
| `ImgMain` | `c_imgproc_main.c`, `image.c`, the chunks of `pnglite.c` | the whole program; composes `ImgProc`, `AsmImgProc` and `Png` |
| `ImgMainProofs` | theorems about `ImgMain`, `ImgProc`, `AsmImgProc` and `Png` | proofs |
| `UInt256` | `uint256.c` | one action per call, and per bit of a multiplication |
| `UInt256Proofs` | theorems about `UInt256` | proofs |
| `MC...`, `Pictures` | instances for TLC, and their input | |

### How the models correspond to the code

**ChatServer.** `pc[c]` is where the worker thread of connection `c` is. A step
ends wherever another thread may run in between with an effect: at the
acquisition of a `Guard`, at the end of its scope, and on either side of the
semaphore. `find_or_create_room` is `FindLock`, then `Found`, or `NotFound` and
`CreateRoom`; a broadcast is `Broadcast`, then for each member `NextMember`,
`Enqueue`, `Push`, `Post`, and `EndBroadcast`; `dequeue` is `Dequeue` or `Wait`
and `Woken` or `TimedOut`, then `Front` and `Pop`. The iteration of
`std::set<User *>` is by address, which is arbitrary: `NextMember` takes any
member not yet served. A `User` is `"none"`, `"live"` or `"freed"`. A `Room`
object is named by its room name and the thread that created it, so that two
objects of one name are possible. `Disconnect` is the environment: the program
at the other end ends at any moment, and the thread finds out at its next
receive or send. That a reply or a delivery is longer than its request is kept
(`LongName`, the text `"long"`), because `Connection::send` refuses what does
not fit and the server does not look at its result.

**ChatRoom** has atomic operations only: join, leave, say and hear.
`ImplementsChatRoom` maps the threads to it: a message is said at the step that
takes the room's mutex for its broadcast, and a member the loop has not come to
yet is as good as told.

**Framing.** Characters are a newline, a colon, a NUL and one letter per message,
and the data of a message is any sequence of them, since `send` looks at its
length only (`MessagesOf`). `receive` reads a line and makes a `std::string` of
it as a C string (`CString`), so a message arrives up to its first NUL; a message
with a newline in its data arrives as several lines, the first of which is taken
for the message. `GarbageOf` has the lines in which `receive` finds no colon, or
none before a NUL. The network delivers any non-empty prefix of what is under way
(`Refill`), `write` accepts any non-empty part (`Write`), and `rio_readlineb` is a
step per character. `MaxLen` stands for 255 and `BufSize` for the 8192 of `rio_t`.
`Close` also stands for the death of the sending process in the middle of
`rio_writen`; a read then returns 0 or an error. There is one direction only: a
`rio_writen` that blocks for ever because the peer reads nothing is outside this
module, and outside `ChatServer`, where a send ends.

**ChatSession** keeps, of every message, its kind and whether it fits, and lets
the input of the user be any lines, and the room of the receiver any name.
`Unterminated` says that the input may end with a line that has no newline.
Deliveries of other senders arrive at any time, and one may be too long to be
delivered, which ends the receiver's thread.

**Partition** and **ForkSort** split `parsort.c` between them; `Parsort` holds
the array, and where the code is: numbers in `Partition`, which is one call, and
functions of processes in `ForkSort`. The names of a call's specification begin
with `Call`, so that one module can prove about both. In `ForkSort` a
call of `partition` that returns is its contract, which `PartitionsTheRegion` of
`Partition` states and the theorem `PartitionCorrect` proves. In the one case in
which `partition` does not return (`LeavesArray`: a region that starts at 0, with
its least element as the pivot, see 5) the action is `Strays`: the loop can only
end after more elements than any mapping has, so the process dies of SIGSEGV;
what it has exchanged by then may lie anywhere in the mapping, and `arr'` is any
array. `qsort` is one step. A process is its path in the tree. A fork may always
fail; a child may be killed at any moment, in the middle of its work with its
region in any state. Its children go on without it. `main` is there from its call
of `quicksort` on: a file that cannot be opened or mapped ends it earlier.

**Cache** follows the four copies of the loops (`loading_lru`, `loading_fifo`,
`storing_lru`, `storing_miss_fifo`) one by one; helpers are named for what a
loop does (`Touch`, `Oldest`, `ReplaceOldest`, `FirstIn`). Addresses are cut at
`Word` as `main.cpp` cuts them at 32 bits. **MemoryCache** has sequences of
memory blocks in the order of eviction and no timestamps. **CachePair** is
`Cache` with a second simulator beside it that reads the same lines; a pair of
equal command lines is one simulator.

**ImgProc** has one action per function and pixel. `Unit` is the constant
1000 of `gradient`. `Turn` is the body of each function's loops; the order of
the pixels does not matter, as no function reads what it has written.

**AsmImgProc** keeps the same image variables and adds `regs`, the registers a
function works in, `kept`, which says of every callee-saved register whose value
of the caller it holds (or `Lost`), and the stack: `rsp` and the slots of
`frame` that still hold what was pushed there. Helpers map registers to
registers, so what `gradient` or `make_pixel` leave in `rdx` is what the code
after the call finds. Writing a local removes the slots it overlaps
(`Overwritten`). `ImplementsC` maps the registers that count (`Turns`) to the
`i` of `ImgProc`. The labels `.Linner` and `.Louter` test at their end: an empty
image makes the code touch a pixel that does not exist, which is `"undefined"`.

**ImgMain** walks through `main`. Up to `"apply"` a step is a chunk or a row of
the input file or a call; then the steps of `ImgProc` or `AsmImgProc` are its
own (`apply`), on the same variables. `heap` says of each block and FILE whether
it is unset, null, live, freed, or misused (freed or closed when not live); a
step that fails takes its whole cleanup with it. The file is chosen as it is
read: its header (`png_read_ihdr`), the number, length and kind of its chunks,
whether zlib finds more of the picture in one or the last of it (`held`), the
filter of every row. The format's own side of the filters (`Filtered`, with the
predictor worded as the format does in `Nearest`) is external and written apart
from `unfiltered`, which translates `pnglite.c`. Results of `fwrite` are not
looked at by the code, nor is that of `compress` (`pnglite.c:494`): a file is
complete, or short, or `"undeflated"`, with an IDAT chunk that holds no picture
because `compress` had no memory. That zlib then leaves the length at 0 is what
it does since version 1.2.11. A write through a null pointer ends the program as
`"crashed"`; no property forbids that.

**UInt256** keeps the operations as operators of their C names, over `NWords`
words of `WordDigits` digits of `DigitBits` bits; in the code these are 8, 8
and 4. Strings are sequences of digits. The loop of `uint256_mul` is stepped
through so that its invariant can be stated. A bit operation is arithmetic with
a power of two (`Power`). The loops over words and digits (the carries of
`uint256_add`, `strtoul`, the words of `uint256_format_as_hex`) and the number an
array stands for (`Value`) are recursive functions.

## 3. Runs

Twelve configurations are in `PROJECT.json`; run one with
`tlc -config X.cfg M`.

| run | what it asks | bounds, and why they are enough |
|---|---|---|
| `ChatServerThreads` | locks, member sets, room map, semaphores; liveness | two senders and a receiver, one command each: two threads contend for each lock and a third waits on the queue |
| `ChatServerRooms` | use after free, membership, refinement of `ChatRoom` | two senders with one command each, two rooms, a receiver that may vanish: two broadcasts at once, which reach three queues in one order, a move between rooms and a delivery that fails |
| `Framing` | messages whole and in order | two messages of up to five characters, their data of two out of letter, colon, NUL and newline, or lines of garbage in their place, a buffer of three: a message over two refills, and the end of one and the beginning of the next in one buffer |
| `FramingFullLength` | a message of `MAX_LEN` characters (violated) | one message |
| `ChatSession` | requests and replies pair up; waiting ends, except for the two hopeless kinds of line | six lines of every kind, those too long for a request or for its answer among them; seven requests |
| `Partition` | the contract of `partition` | all arrays of five out of three values and all their regions: equal elements, a least and a greatest pivot |
| `PartitionUnderflow` | the loop stays in its region (violated) | the same |
| `ForkSort` | the tree of processes | four elements out of three values and a threshold of two: two levels of children below the first process, regions that are partitioned, sorted by `qsort` and left alone, and arrays whose pivot is their least element, so that a process leaves the array |
| `CachePair` | order of ages, refinement of `MemoryCache`, effect of policies and sizes | traces of five accesses to six addresses: fill a set of four blocks and replace one; 28 pairs of command lines, from direct mapped to fully associative |
| `ImgMain` | the four functions in C and assembly, the way from file to file, memory, exit status | nine sizes up to 5 by 5 and 1 by 6, even and odd, wide and tall, with distinct pixels and all white, a picture with the ties of the Paeth predictor, and three empty ones; every filter on every row; up to four chunks of two lengths: a buffer that is kept and one that is replaced |
| `AsmCalleeSaved` | what a caller's registers hold after a call (violated) | the nine sizes |
| `UInt256` | arithmetic modulo the size of the type, the loop of the multiplication, hexadecimal | all values of three words of four values: a carry from the first word to the last, and through a word of all ones; strings of up to eight digits where six fit |

`ChatServerRooms` permutes the senders (`SYMMETRY`), which its specification
treats alike; it has no liveness property. `ChatServerOrder.cfg` is a further
configuration, with two receivers, on which TLC confirms `SameStreamInRoom`,
the order of messages as two receivers see it; the refinement in
`ChatServerRooms` implies it. `AsmImgProc.cfg` is another one: it checks
`ImplementsC` and `StackIsBalanced` of the assembly functions alone, without the
program around them.

`TypeOK` of the other modules is no property of a run: in `ImgProc`, for one,
`GrayIsBetween` and `FadesFromTheMiddle` say more about a component than that it
fits a byte.

Some properties say less than their names might suggest, because the code does:

- `WholeMessagesInOrder`, `KeepsConnection` and `SentIsReceived` hold while no
  message has a newline in its data (`OneLineEach`). `send` does not test for one
  (`connection.cpp:77`); input read by `getline` has none, an argument of the
  command line may.
- `WaitEnds` leaves out the two kinds of line the client waits for in vain while
  the server runs (`ChatSessionLong` in 5).
- `WritersAreDisjoint` is about regions: a process that leaves the array (`Strays`)
  writes outside its own, in the step it dies of.
- `OnlyOrphansWorkOn`: children of a process that was killed go on writing after
  `parsort` has returned, with a failure. Nothing in the code waits for them.
- `FadesFromTheMiddle` compares pixels of the whole image, by rows and columns.
  `gradient` divides integers, so for an odd size the brightest row is not the
  middle one but the next: rows 0, 1 and 2 of three are dimmed to 0, 888444 and
  889111 millionths, and a picture of one pixel goes black. `Nearer` is defined
  that way; a pixel is kept unchanged only at the exact middle, which even sizes
  have.
- `WedgesMirrorA` is about all four lines for even widths, and about wedge A alone
  for odd ones (`ImgMainOdd` in 5).
- `ReadsThePicture` does not depend on where the file's chunks are cut because
  `ShownRow` gives rows and not bytes of a stream: that a stream may be cut
  anywhere is zlib's promise and not examined here.

Every bound is a constant: `MaxCommands`, `MaxSends`, `MaxData`, `MaxLines`,
`MaxRequests`, `MaxDeliveries`, `MaxAccesses`, `MaxDigits`,
`MaxChunks`, `N`. `CHECK_DEADLOCK FALSE` is
set where the program ends: a session, a call, a trace. The server never ends;
`Idle` is the state in which all threads wait for a peer, and any other state
without a successor would be reported.

### Fairness

- `ChatServer`: each thread that can take a step in its own code takes one
  (`WF` of `Run(c)`), which is what the kernel's scheduler gives. Peers are
  not fair: they need not send. A receive on a lost connection returns. POSIX
  mutexes promise no order among waiters; weak fairness suffices because
  commands are bounded, so a waiter cannot be overtaken for ever.
- `Framing`: `WF` of writing and of reading; nothing makes a sender send. A
  write that can never go on, because nobody reads, is outside (see 2).
- `ChatSession`: `WF` of the client process and of the server thread. A process
  that was killed takes no more steps.
- `ForkSort`: `WF` of every process. `Partition`: `WF` of its only process.

## 4. Proofs

Every component has theorems that TLAPS checks for every value of its
constants. Each rests on the assumptions its module names
(`ConstantsAssumption` and so on), which give the constants their types and
little more, and which TLC evaluates in every run of that module. Three theorems,
`ConnectionKept`, `AsmRefinesC` and `CacheImplementsMemoryCache`, have a
hypothesis besides. The sections
below say which invariant each proof needs.

### Chat server (`ChatServerProofs`)

| theorem | |
|---|---|
| `Invariance` | `IInv` is an inductive invariant |
| `TypeCorrect` | `TypeOK` |
| `IteratorSafe` | `IteratorStaysValid`: no member set changes during a broadcast to it |
| `MemorySafe` | `NoUseAfterFree`: no thread uses a deleted `User` |
| `SemaphoreCorrect` | `SemaphoreCountsMessages`: `dequeue` never takes from an empty deque |
| `RoomsUnique` | `OneRoomPerName` |
| `MembershipKnown` | `MemberOfOwnRoomOnly` |
| `FullInvariance` | `FullInv`, the invariant the refinement needs |
| `RefinesStep` | a step of `ChatServer` is a step of `ChatRoom` or a stutter |
| `Refinement` | `ImplementsChatRoom` |

None of the safety properties is inductive by itself. `IInv` adds what the code
relies on without saying so: which mutex a thread holds follows from where it
is, and the other way round (`ServerLockInv`, `RoomLockInv`); a thread past a
certain point has the pointers it is about to use (`ArgumentsInv`); a member's
`User` is alive, its thread knows the room, and is at a point from which it
passes `remove_member` before it deletes the `User` (`MembersInv`); a thread
about to create a room still finds none of that name (`RoomsInv`). Memory safety
is then short: a broadcast holds the room's mutex, so its target is still a
member, so its `User` is alive. Each conjunct has one theorem (`TypeStep`,
`ServerLockStep`, `RoomLockStep`, `ArgumentsStep`, `MembersStep`, `RoomsStep`,
`SemaphoreStep`), with a step for each action of the server.

The refinement adds `RefInv`: a thread is in the loop of the role its peer
logged in with (`RoleInv`), a sender at its commands is in the room it knows
(`SpeakerInv`), and a broadcast starts from nobody and tells a member once
(`CastInv`). Under the mapping a message is said when its broadcast takes the
room's mutex; what the loop has yet to put into a member's queue (`Owes`) is
already at the end of that member's abstract inbox. `Facts` collects what the
mapped variables have in common with the real ones before a step; the lemmas
then say of each action of `ChatServer` which abstract one it is (`InsertStep`,
`BroadcastStep`, `PopStep` and so on), or that the mapped variables stay
(`SilentSteps`, `LoopSteps`).

### Connection (`FramingProofs`)

| theorem | |
|---|---|
| `FramingInvariant` | `FullInv` is an inductive invariant |
| `FramingTyped` | `TypeOK`; no line outgrows the buffer of `receive` |
| `FramingInOrder` | `WholeMessagesInOrder` |
| `ConnectionKept` | `KeepsConnection`, if `Short` |

`FullInv` is the types, always, and `IInv` while no message has a newline in its
data (`OneLineEach`, which cannot become true again, and without which the two
properties promise nothing). `IInv` looks at one sequence, `Pipe`: the line
`rio_readlineb` is collecting, what is left of `rio_t`, the network, and what
`rio_writen` has not written yet. Moving a character from one to the next does
not change it, which settles `Refill`, `ReadChar` and `Write` at once. `Stream`
says what it is: the encodings of the messages sent and not yet received, one
behind the other (`Laid`), and then either nothing, where the last may be cut if
the sender is gone (`Whole`), or a line on which `receive` gives up (`Spoilt`,
`GivenUp`). There are two of the latter: garbage, which has no colon or a NUL
before it, and the newline a message of `MaxLen` characters leaves behind.
`CStringIs` and `BodyShape` say what of a line becomes the message: the colon
`receive` splits at is the one `send` has written, as no tag has one, and a NUL
in the data cuts what follows. `Stream` is stated with the ends of the messages
(`at`) and not with a concatenation of encodings, so that no induction along the
messages is needed.

`ConnectionKept` assumes `Short`, `MaxData + 3 < MaxLen`: every message is
shorter than `MAX_LEN`. Without it the property is false, which is what the run
`FramingFullLength` shows; the run `Framing` satisfies it.

### Dialogue (`ChatSessionProofs`)

`SessionInvariant` proves `IInv`, `SessionTyped` the types and `SessionInTurn`
the property `SpeakInTurn`: a sender has no two requests under way, and the
reply it reads is the one to its last request. The invariant says that a
sender's two channels are empty (`Silent`), or hold its last request (`Asked`)
or the reply to that (`Answered`), and which of these is possible where the
client is. It holds for every choice of programs, lines and deaths.

### Partition (`ParsortProofs`)

| theorem | |
|---|---|
| `PartitionInvariant` | `CallInv` is an inductive invariant |
| `PartitionCorrect` | `PartitionsTheRegion`, the contract that `ForkSort` takes for granted |
| `PartitionUnderflow` | `LeavesRegionOnlyAtZero` |

Of any array, region, values and word that can count the elements. The loop
invariant has two cases: `Between`, the usual one of a partition by two
indices, and `Wrapped`, in which `right_index` has gone from 0 to the greatest
word. In the second the region starts at 0 and nothing in it is less than the
pivot, so the wrapped index can only lead the loop out of the region and never
back to a wrong answer. That the region is permuted is stated by a bijection
(`Traces`), which a swap composes with.

### Processes of the sort (`ParsortProofs`)

| theorem | |
|---|---|
| `ForkSortInvariant` | `IInv` is an inductive invariant |
| `ForkSortSorts` | `SuccessMeansSorted` |
| `ForkSortWriters` | `WritersAreDisjoint` |
| `ForkSortReaps` | `OnlyOrphansWorkOn`: who works on below a process that has reported |
| `ForkSortFails` | `FailsForAReason`: failure exactly if a fork failed or a process died |

What a process relies on is what its children did, and theirs did. Stated of a
process and its children, each step would need an induction along the tree; so
the invariant speaks of a process and everything below it (`Above`): a process
works inside one part of each of its ancestors' regions (`BelowInv`), processes
that are not above one another have disjoint regions (`ApartInv`), and below a
process that is about to report success everything has succeeded and is gone
(`DoneInv`). `KidsInv` says what the two pids are worth: with a fork that
failed, its 0 makes `waitpid` take the other child, and the count of waits
still comes out right. `SortedInv` and `PartsInv` make the region of a
successful process sorted. Unchanged are the numbers of elements of each value
(`CountInv`), for as long as nobody has died.

A process that leaves the array (`Strays`) may write anywhere, so what the array
holds is known only while there is none (`Intact`). Success of the first process
excludes it: everything below has succeeded then. In the other direction a noted
failure stays in the tree as a process that was killed or a pid of 0
(`CauseInv`), and a pid of 0 rules out success (`ZeroInv`). `OrphanInv` follows a
process `q` below one that is about to report: if `q` is still there, one between
the two has died. A count of direct children would not do, since it is the
grandchildren that are left behind.

### Cache simulator (`CacheProofs`, `CachePairProofs`)

| theorem | |
|---|---|
| `CacheInvariant` | `IInv` is an inductive invariant |
| `CacheAges` | `AgesAreAPermutation` |
| `CacheHoldsOneCopy` | no set holds a memory block twice, under LRU and FIFO |
| `CacheEvictsOne` | an LRU miss refills exactly one block |
| `CacheImplementsMemoryCache` | `ImplementsMemoryCache`, as long as `load_ts` does not wrap |
| `InclusionInvariant` | the invariant of two LRU caches on one trace |
| `MoreBlocksHoldMore` | `MoreBlocksKeepMore` |
| `PoliciesAgree` | `PoliciesMoveNoBlock` |

For any trace and any sizes. The code ages the blocks younger than the one it
touches and sets that to 0, in four copies of the loop; `AgesInv` says that the
ages of a set stay a permutation of its places. The loop that replaces the
oldest block does not stop at the first one it finds, so `CacheEvictsOne` is
what keeps it from paying for two, and rests on the permutation. `TagsInv` adds
that a set's blocks differ (`OneCopy`) and that those never filled are the
oldest (`InvalidLast`).

The refinement maps a set to the queue of its memory blocks in the order of
eviction, which `EvictionOrder` finds by counting, for each block, those evicted
before it. Four facts lead from the timestamps to that queue:

- One more invariant, `OrderInv`: of two blocks of a set one is evicted before
  the other, blocks never filled before all others (`InOrder`), only filled
  blocks are dirty, and a FIFO set's load times are less than its blocks and the
  accesses together.
- A set that is in order has a list of its filled blocks by age (`ListExists`),
  and its queue is what that list holds (`ListIsQueue`): counting and listing
  give each block the same place.
- An access is one of three (`Effect`), whichever of the ten branches of the
  loops it takes: a hit moves its block behind the others, or under FIFO leaves
  the order alone (`HitEffect`); a miss refills the one block that is before all
  others and moves it behind them (`FetchEffect`); a store that does not
  allocate changes nothing. `StepIsEffect` shows that the steps of `Cache` are
  these, at the price `MemoryCache` has.
- Of a list, moving behind the others is taking out and appending
  (`QueueAfterTurn`, `HitQueue`, `FetchQueue`). A tag and a set are the number of
  one memory block only (`Numbers`, `BlockOfAddress`), so that no other set owes
  memory the block that is evicted (`DirtyAfter`).

The hypothesis is `LoadTimesFit`: a FIFO trace has no more accesses than
`load_ts`, an `unsigned int` that grows by one with each miss, can count. Where it
wraps, the newest block of a set is the one evicted next; `CachePair.cfg` has
values that satisfy it. LRU ages do not grow, and need no such bound. The other
hypothesis is `TagsFit`: sets times block size stay below 2^32. From there on
`mem_addr >> (index_len + off_len)` (`cache_sim.cpp:97`, `230`) shifts by 32 bits
or more, which C++ leaves undefined and the x86 takes modulo 32, as `TagOf` has
it; words of one block then have different tags, and the simulator counts misses
that the cache of the assignment does not have. All runs are below that bound.

`CachePairProofs` takes these theorems for both simulators (the second through
`SecondProofs`, an instance of `CacheProofs`) and relates the two. Inclusion is
not inductive: the larger cache could evict a block that the smaller one keeps.
It becomes so with the order of use of the blocks both hold (`SameOrder`), and
with the fact that a smaller set that is not full yet has everything the larger
one has, at the same ages (`SameWhileFilling`). `PoliciesAgree` needs two
invariants, one per claim: with one block per set the two caches are alike
(`Alike`), and caches that differ in the write policy are the same but for
dirty bits (`SameButDirty`) and hit equally often.

### Images (`ImgMainProofs`)

| theorem | |
|---|---|
| `MainInvariance` | `MainInv` is an inductive invariant of the program |
| `PictureInMain` | `ReadsThePicture`: the pixels of the file reach the transformation |
| `ReplicasInMain`, `GrayInMain`, `FadeInMain`, `WedgesInMain` | what each function does, with the C and the assembly functions |
| `StackInMain` | `StackIsBalanced` |
| `ReleasedInMain` | `ReleasedAtExit` |
| `TruthInMain` | `ExitTellsTruth` |
| `BuildsAgreeInMain` | `BuildsAgree`: called by `main`, a step in assembly is one in C |
| `AsmInvariance`, `AsmStackBalanced` | the same of one call in assembly, with any image |
| `AsmRefinesC` | such a call implements the C function, on images that are not empty |

For images of any size, any file and any failures. The proof is in layers. The
lowest is what the operators compute, without a state.

- A row is unfiltered byte by byte, each from the one to its left, which the
  code has just written: a recursive function. That `unfiltered` gives back the
  row which `Filtered` was made from (`UnfilteredIsShown`) is proved by the
  least byte that differs: it is made from bytes that do not. The Paeth
  predictor of the code is the one of the format (`PaethIsNearest`).
- The pixel `n` of the output is `OutputPixel(f, img, n)`, a function of the
  input alone, and is written in the turn `TurnOf(f, img, n)` of the loop of
  `f`; the four replicas of a pixel share one. So after `t` turns the pixels
  with an earlier turn are written (`IsWritten`), and when `t` is the number of
  pixels of the input that is the whole output (`AllWritten`). Each property of
  a function then follows from `OutputPixel`.
- What `fade` multiplies a component with grows towards the middle
  (`GradientNearer`), from 0 in the first row and column to 1 in the middle of an
  even size (`Gradient`); division rounds two ordered products in order
  (`FadedOrder`), so two pixels keep their order (`FadedPixels`).

The next one is a step of a function. `Enters`, `Draws` and `Returns` say what
an action of `ImgProc` does with `t` turns done; an action of `ImgProc` and one
of `AsmImgProc` are each shown to be one of these (`StepKeepsPixels` then holds
for both), and for the assembly this is the refinement. What it needs is what
the registers hold at the head of each loop (`RegistersOK`: which of them have
the sizes, which the row and the column, or the address of a pixel), that the
helpers leave these alone, and where the return address and the caller's `rbp`
are (`StackOK`). `Turns` is `regs.r12 * regs.r8 + regs.r13` in `imgproc_rgb`, a
row and a column, and a counter elsewhere.

On an empty image the assembly touches a pixel that does not exist, so the
step is not one of C; the hypothesis of `AsmRefinesC` and the one in
`BuildsAgree` exclude it. What is released and the exit status are proved for
empty images too.

The last layer is `main`. `MainInv` has a part per question: `RowsRead` and
`PictureRead` say that the rows unfiltered so far are the first rows of the
picture; `NotCalled` and `Called` that a function starts with its own output
image and registers as at a call; `Pixels` and `Machine` are the two
invariants above; `HeapOK` says of each block whether it is owned at each stage,
which is what makes every path that ends, of those that free some blocks and
those that free all, free each of them once; `Outcome` that `output_file` is
untouched until the end. `ReleasedAtExit` and `ExitTellsTruth` speak of the
last state only and are not inductive without these.

### 256-bit integers (`UInt256Proofs`)

| theorem | |
|---|---|
| `UInt256Invariance` | `IInv` is an inductive invariant |
| `ArithmeticWraps` | `WrapsAround`: sums, differences and shifts are those of the integers modulo the number of all values |
| `ProductIsPartial` | `PartialProduct`: what `uint256_mul` has multiplied after each turn |
| `HexReadsBack` | `HexRoundTrip` |

For any number of words, of digits in a word and of bits in a digit, so for the
8, 8 and 4 of the code too. Nearly every state is one call away from the
beginning: `IInv` adds only types and that a loop of `uint256_mul` starts from 0
(`TypesAreRight`), and the work is in what the operations compute. That needs
induction along words and digits. A set of naturals that has 0 and is closed
under successors has all of them (`Reaches`, from the least number outside of
it), and each argument below defines such a set. From it also follows that the
functions the model defines by recursion exist (`Recursion`).

- `Low(val)[k]` is the number of the `k` lowest words; `Value` is the last of
  them (`ValueIsLow`). A sum of two arrays is right for the `k` lowest words up
  to the carry into the next one (`SumSteps`), because the comparison in the
  code finds each carry (`CarryBit`). The last carry leaves at the top
  (`AddIsSum`). Negation is the complement and 1 (`Complement`), which settles
  `SubIsDifference`.
- A word shifted by less than a word is cut in two; what leaves it is what the
  next one takes in (`ShiftedWords`), so the low words of the result are those
  of the operand times a power of two (`ShiftSteps`, `ShiftIsProduct`).
- `uint256_is_bit_set` is the bit of the number (`BitIsBit`), so that a turn of
  the loop adds what one more bit multiplies (`ProductTurn`).
- Two numerals, one behind the other, write the first times a power of the base
  and the second (`StrtoulSum`, `StrtoulAppend`). `HexCuts` follows the three
  cases of `uint256_create_from_hex` to the digits that each word is read from;
  together they are the last `AllDigits` of the string, and what is before them
  counts for a multiple of the modulus (`HexIsRead`). Written words read as what
  they are (`PaddedWrites`, `UnpaddedWrites`, `WrittenSteps`), and different
  arrays are different numbers (`ValueIsUnique`), so a value is read back
  (`HexIsWritten`).

### Only model-checked

- All liveness, and everything with ENABLED: out of the prover's reach.
- `SameStreamInRoom`, the order of messages as two receivers see it, which the
  proved refinement implies.

## 5. Where the code and its words disagree

Three runs have a counterexample as their result.

- `FramingFullLength`: `message.h:8` allows an encoded message of `MAX_LEN`
  characters with its newline and `send` accepts it (`connection.cpp:65`);
  `receive` reads one character less (`connection.cpp:95`), takes the newline
  for a message of its own and gives up the connection.
- `PartitionUnderflow`: `right_index` is unsigned, and when a region starts at
  index 0 and no element is less than the pivot it wraps (`parsort.c:149`).
  This is the only case, as `LeavesRegionOnlyAtZero` says, which is checked in
  the run `Partition` and proved in `ParsortProofs`. `parsort` then fails
  (`FailsForAReason`) for a reason `parsort.c:168` does not know of: "the only reason
  that sorting should fail is if a child process can't be created or if there is any
  other system call failure". If it is the first process that leaves the array, the
  program itself dies.
- `AsmCalleeSaved`: `asm_imgproc_fns.S:222` and `396` announce a "prologue to
  create ABI-compliant stack frame". `imgproc_rgb` overwrites `rbx` without
  saving it. `imgproc_fade` saves five registers, overwrites their slots with
  its locals (`-4(%rbp)` to `-56(%rbp)`), and pops in the order of the pushes
  (`asm_imgproc_fns.S:511`). Only `rbp` and the return address are right
  (`StackIsBalanced`). The two functions without a prologue make no such claim
  and save nothing either.

Further configurations lead TLC to a counterexample of one property each. They
document behaviour that a caller should know of:

| configuration | property | the code says | the code does |
|---|---|---|---|
| `ChatServerOneMutex` | `AtMostOneMutex` | `README.txt:48`, "we always lock at most one mutex at a time" | `room.cpp:43` takes a queue's mutex with the room's held. There is no deadlock, since a queue's mutex is always the last |
| `ChatServerSenderQueue` | `OnlyReceiversAreQueuedFor` | `room.cpp:36`, "every (receiver) User in the room" | senders are members too and nobody empties their queues |
| `ChatServerAnswers` | `RequestsAreAnswered` | `sender.cpp:111`, "send and wait for ok/err" | a join to a name of 232 characters or more has no reply, as the reply does not fit |
| `ChatServerLongText` | `ConnectedReceiverIsServed` | `server.cpp:104`, "delivers queued messages to a receiver" | a delivery that does not fit drops the receiver (`server.cpp:114`) |
| `FramingMalformed` | `MalformedIsInvalid` | `connection.h:37`, the result tells a bad format from an I/O error | a line without a colon is `EOF_OR_ERROR` (`connection.cpp:112`) |
| `ForkSortFork` | `NoForkAfterFailedFork` | `parsort.c:208`, "fork failed" | `quicksort_subproc` returns 0 then and the test is for a negative number |
| `ChatSessionStale` | `SendsWhatIsTyped` | `sender.cpp:86`, "reading commands from user" | a last line without a newline is sent again and again (`sender.cpp:90`) |
| `ChatSessionClosed` | `ReturnsWhenServerCloses` | `receiver.cpp:69`, "return if server is closed" | `is_open` is true for ever and the loop spins |
| `ChatSessionLong` | `EveryWaitEnds` | `sender.cpp:110`, "send and wait for ok/err" | a line too long to send is not sent, and its reply waited for; `WaitEnds` of the passing run says that no other wait is without an end |
| `ImgMainOdd` | `FourSymmetries` | `c_imgproc_fns.c:256`, "symmetrical across all four lines" | an odd width is reflected as one pixel more |
| `ImgMainFullDisk` | `SuccessIsWritten` | `image.h:59`, "IMG_SUCCESS if successful" | `pnglite.c:500` does not look at what `fwrite` returns |
| `ImgMainPartial` | `SuccessIsRead` | `image.h:46`, the same of `img_read` | an IEND before all of the picture ends the reading without an error (`pnglite.c:587`) |

`ReleasedAtExit` lists the exceptions it had to make: after a failing `img_read`
the raw bytes of a three-byte picture (`image.c:67`), the FILE of a refused
header (`pnglite.c:303`) and a stream `inflateInit` refused (`pnglite.c:406`)
are not released; the process ends then. `BuildsAgree` leaves out empty images,
on which `imgproc_rgb` in assembly is undefined (see 2).

## 6. Not modelled

- Opening connections, name lookup and argument parsing (`server_main.cpp`, the
  first lines of the clients, `client_util.cpp`): no state that interacts.
- `Accept` and `Pthread_create` failing: the wrappers of `csapp.c` end the
  process.
- The rest of `csapp.c` and `tctest.c`: wrappers and third-party code. The test
  programs, scripts and generators.
- Of `pnglite.c`: palettes and 16-bit samples, which `img_read` refuses before
  it asks for data, the callbacks and the deflate helpers, which nothing calls,
  and printing. zlib and CRCs are choices: a chunk is good or bad.
- A picture whose number of pixels overflows an `int`.
- Characters of names and texts, except where a length or a colon matters.
- `print_effectiveness` of the cache simulator, which nothing calls.

## 7. Plan

In order, most important first. All of it is done.

1. The chat server's threads, the abstract room, and their safety proofs.
2. Its connections and its client programs.
3. The sort, the cache simulator, the C image functions.
4. `UInt256`.
5. `AsmImgProc`: registers, stack and loops of `asm_imgproc_fns.S`, shown to
   implement `ImgProc`.
6. `ImgMain`: reading, transforming and writing a picture, and who releases what.
7. Proofs: that `ChatServer` implements `ChatRoom`; order in `Framing` and in
   `ChatSession`; the loop of `Partition`; the tree of `ForkSort`; ages,
   inclusion and agreement of caches.
8. Proofs about images: unfiltering, the four functions in C and in assembly,
   that the assembly implements the C functions.
9. Proofs about `ImgMain`: what is read, released and written.
10. Proofs about `UInt256`: arithmetic, the loop of the product, numerals.
11. The proof that `Cache` implements `MemoryCache`.
