# Verification of the System Fundamentals II programs

The repository holds five C programs. This directory has TLA+ models of them,
TLC configurations that check the models on small instances, and proofs that
TLAPS checks for instances of every size. The models are translated from the
sources under `src/`; line numbers below are those of the sources.

## 1. Inventory

| Part | State | Operations | Status |
|---|---|---|---|
| request queue, `hw5/src/queue.c` | linked list `front`/`rear`, semaphore `items`, mutex `lock`, `invalid` | `create_queue`, `enqueue`, `dequeue`, `invalidate_queue` | modelled, proved |
| data store, `hw5/src/hashmap.c`, `utils.c` | array of slots, `size`, `num_readers`, `write_lock`, `fields_lock`, `invalid`, each thread's `errno` | `create_map`, `put`, `get`, `delete`, `clear_map`, `invalidate_map` | modelled, proved |
| server, `hw5/src/cream.c` (and the csapp wrappers it calls) | connections, queue, workers, the process | accept loop, `thread`, `request_handler`, `hashmap_handler`, `response_handler` | modelled, proved |
| heap allocator, `hw3/src/sfmm.c` | heap words, four free lists, `sf_errno`, `sbrk_counter` | `sf_malloc`, `sf_realloc`, `sf_free` | modelled, proved |
| shell, `hw4/src` | the tokens of a line, its flags and lists; group table `pgid`, `idxPgid`, `totalPgid`; descriptors 0 and 1; signal mask; children | the loop of `main`, `splitLineIntoArgs`, `removeRdrFromTokens`, `changePipeInTokens`, `executable`, `runPipeInput`, three handlers | modelled, without the directories `cd` keeps and the texts it prints; proved |
| UTF converter, `hw2/src` | an input and an output file, the glyph buffer | `check_bom`, `get_encoding_function`, six conversions, `transcribe`, `parse_args` | modelled, except that input and output are two files; proved |
| ciphers, `hw1/src` | arguments, the mode word, the table, the static variables of `hw1.c` | `validargs`, `activateCrypto` with the Polybius square and fractionated Morse, both ways | modelled, proved |
| `hw5/src/extracredit.c` | none | empty stubs | not modelled: no state |
| `hw3/src/main.c` | none | a sample client of the allocator | not modelled: its calls are those of `Sfmm`'s client |

How the parts interact. The hw5 programs are one system: `main` accepts a
connection and `enqueue`s its descriptor; each worker `dequeue`s one, reads a
request, calls the map, writes a response, closes and loops. The queue and the
map are shared by all threads and are the only synchronisation; `errno` is per
thread and outlives a request. The allocator is a library a client calls from one
thread; it calls `sf_sbrk` of `sfutil.o`. The shell talks to its children through
`waitpid`, signals and pipes, and its handlers share `atPid`, `pgid` and `totalPgid` with
the code they interrupt. The other programs stand alone.

What is hard:

* *queue*: the token (`sem_wait`) is taken before the lock; `invalidate_queue`
  counts tokens with one call and takes them with another.
* *map*: a readers-writer lock made of two mutexes and a count, where the last
  reader may unlock what another locked; reads after the unlock; tombstones;
  `errno` as a result.
* *server*: the value of a GET is read with no lock; a failed read or write of
  one client ends the process; silent clients hold workers.
* *allocator*: long sequences of legal calls, boundary tags that several
  functions write, lists that must follow every change of size, the last page.
* *shell*: signals between `fork` and `waitpid`, flags and tables not reset after
  an aborted line, an array of tokens edited in place by two functions that count
  differently; *converter* and *ciphers*: numeric edges, and what one character leaves
  in static variables or on the stack for the next.

`PROJECT.json` lists the most important hazards one by one, at their lines, with the properties
that would catch them.

What makes each part correct: the queue is a FIFO that loses and duplicates no
item, and wakes somebody for each; the map is a bounded collection of pairs, with
answers that were true at some moment of the call; the server answers every
connection once, before closing it; the allocator's blocks tile the heap, its
lists hold exactly the free ones, and what clients hold is disjoint, large enough
and inside the heap; the shell waits for every child once, wakes when the one it
waits for ends, signals that one on ^C and nobody else, and gives the terminal
back, and runs the words that are on the line; the converter's output is the text
of its input in the other format; what a cipher prints is decrypted to what was encrypted.

## 2. Modules

| Module | Role |
|---|---|
| `Fifo` | abstract queue: a sequence of items, what each consumer holds, what was destroyed |
| `Queue` | `queue.c` step by step; implements `Fifo` |
| `QueueProofs` | theorems about `Queue` |
| `MultiMap` | abstract store: a set of at most `Capacity` pairs, where a put may or may not take out the older pairs of its key |
| `HashTable` | the slot array: probing, insertion, tombstones |
| `HashMap` | `hashmap.c` step by step over `HashTable`; implements `MultiMap` |
| `HashMapProofs` | theorems about `HashMap` |
| `Cream` | `cream.c`: connections and workers over `Fifo` and `HashMap` |
| `CreamProofs` | theorems about `Cream` |
| `Sfmm` | `sfmm.c`: the allocator and a client |
| `SfmmProofs` | theorems about `Sfmm`: its arithmetic, its operations, the invariant of the heap |
| `UtfCodec` | the glyph encoders and decoders of `utf8.c`, `utf16be.c`, `utf16le.c`, `utf.c` as operators |
| `Utf` | the converter: BOM, choice of the conversion, the loops over two files |
| `UtfProofs` | theorems about the codecs and about `Utf` |
| `SfishLine` | what `main` of the shell does with the words of a line, as operators |
| `Sfish` | the shell, its children, the terminal |
| `SfishProofs` | theorems about `SfishLine` and `Sfish` |
| `Cipher` | the ciphers of `hw1` |
| `CipherProofs` | theorems about `Cipher` |
| `Recursion` | induction up to a bound, and functions defined by recursion: lemmas the other proofs cite |
| `MCHashMap`, `MCCream`, `MCSfmm`, `MCUtf`, `MCSfish`, `MCCipher` | instances for TLC: symmetry, keys, sizes |

A definition whose name is that of another followed by an underscore and a fault
(`DeqWait_try`, `Unlink_keepsPrev`) is a faulty variant of it: the mutants of
`PROJECT.json` put it in the place of the original and the named property must
then fail.

### Queue

Each blocking call is a step (`pc` of a thread): the lock, `sem_wait`, and the
critical section between. `EnqLink` and `EnqPost` are separate because
`sem_post` runs before the unlock; `DeqWait` takes a token with no lock held;
`InvCheck` is the `sem_getvalue` of the loop and `InvWait` its `sem_wait`.
`front`, `rear`, `next` and `item` are the pointers of the code, including the
first node that points at itself (line 61). A freed node forgets its fields.
`list`, a ghost, is the sequence from front to rear, which `Linked` ties to the
pointers; `RefinesFifo` maps it to the abstract queue.

### HashTable, HashMap

`nodes` is the array of slots (`Slot`: pair and tombstone), `HashOf` stands for the
Jenkins hash, a parameter. A call goes through `Start`, `WriteLock` or `GetEnter`
and `GetFirst`, its critical section, and the loads the code does after the
unlock (`LoadNode` for `delete`, `LoadBase` and `LoadLen` for the two halves of
`get`'s value). `put` answers `errno == 0` with the thread's `errno`, which `get`
and `delete` set and only `cream.c:191` clears. `absent[t]` is history: the key of
`t`'s call was missing at some moment since it began. A pair is put at most once
(its memory is the caller's until then). `invalidate_map` runs with no other
call in progress, as its callers do it.

### Cream

`Accept` is the main loop; `Take`, `Read`, `Serve`, `MapStep`, `Decide`, `WriteHeader`,
`WriteValue` and `Close` are the worker's path through `thread()`. The queue is
`Fifo` (what `Queue` is shown to implement), the map's calls are the very steps of
`HashMap` with the workers as threads. A client may send a whole request, part of
one, or nothing, and may hang up; requests are records, not bytes. `Exit` is the
csapp wrappers' `exit` when a read or a write fails.

### Sfmm

Addresses and block sizes are in rows of 16 bytes, requests in bytes. A memory is a
record: tags (`hdr`, `ftr`), links (`next`, `prev`), list heads, `sf_errno`,
`sbrk_counter` and the break; each C function is an operator from memory to memory
under its own name, and `Malloc`, `Free` and `Realloc` are the client's calls. `abort`, a
write through NULL or a wild pointer and an endless list walk end the
process (`run`). Two fields are history: `cut` (a list lost its last node and
still points at it) and `over` (a block was made of pages `sf_sbrk` did not give).
Words that no header, link or pointer leads to are forgotten after each call
(`Forget`): no call can read them, and without this the old contents of memory
would multiply the states. The bytes clients write are left out. `sf_sbrk` and
`sf_mem_init` are external: `sfutil.o` reserves four pages, grants them in
order, and answers -1 with ENOMEM afterwards; the word after the fourth page is
libc's and has its lowest bit set.

### UtfCodec, Utf

A glyph is the sequence of its bytes in memory, on a little-endian machine, and
every masked shift of the C code a quotient and a remainder. `Utf` is `main`:
`parse_args`, `check_bom`, `OpenFiles`, `StartConversion` (the mark the conversion writes)
or `transcribe`, and then one action per turn of a loop: `FromUtf8` for the two in `utf8.c`,
`Utf16Swap` for the two between the UTF-16 forms, `ToUtf8` for the other two. A command
line is the sequence of its words; `Getopt` is the loop over `getopt`, `Counted` the
test of `argc` before it, `Disk` what a name leads to. `-e` and its format may be two words or one
(`Joined`); other options are errors, and any word that is not an option is a name. A line that names one file twice, and files
whose names look like options, are left out. A second read that fails (`SecondReadFails`) leaves the offset behind the first
byte or unit of its glyph. `off` and
`wpos` are the descriptors' offsets, `buf` the glyph on the stack, whose bytes
survive a short read. The source text is given by `Standard`, the encodings the Unicode
standard prints, and not by the codecs under test, so that `TextInStep` compares the
code with something else than itself; `UtfAssumption` ties it to the layouts of RFC 3629 and
RFC 2781 (`Standard8`, `Standard16`). A text without a mark does not begin with one. A read or a write fails at most `MaxFaults` times.
`Routes` has the case labels of the switch, with `Code` 0 for a missing `-e`.

### SfishLine, Sfish

A line is the sequence of its words. `redirList` is the list of places
`splitLineIntoArgs` makes, `Done` the redirections that are carried out before the first
that fails, `removeRdrFromTokens` (`TakeOut` at one place after the other) the tokens that are left, and
`changePipeInTokens` cuts them into commands at the places of `pipeFuncList`. `TakeOut`
records whether the code went on reading where nothing was written (`walks`) or
lost its place (`lost`: past the end, or before the array after two redirectors in a row); the run of
the model then may, or must, end in `undefined`. Both are recursive functions, so that they can be proved about.
`Commands` is what the user meant, written without the places and their shifts,
for `WordsReachPrograms` to compare with; it says nothing of lines with both pipes and redirections, or
with a redirector where a file name should be (`Mixed`). A write past the end of `pgid` is lost, and the
table has at least three entries (`MAX_NUM_PGID`). `ReadLine`, `Setup` and `Final` are the loop of `main`; `Execute`,
`Fork`, `Group` and `Resume` are `executable`, cut where a signal matters; `ForkLeft`, `WaitLeft` and
`NextPair` are a turn of `runPipeInput`, which takes two commands at a time.
`EnterHandler` and `ReapAny` are `sigchld_handler`, cut at its blocking `waitpid`. A pending SIGCHLD
that is not blocked is delivered before the next step of `main`; it stays pending
from the fork to `sigsuspend`. A child is new (forked), running, stuck (it waits for
a pipe that will not move), stopped, failed (it ended without `execvp`), a zombie, or
a rogue: a child that got ^C before `execvp` runs the shell's handler and becomes
a second shell, which is followed no further. `CtrlC` is the terminal's signal
to the foreground group together with `sigint_handler`: it signals the table and
jumps to the prompt from wherever the shell was, leaving everything else as it
is, which is where most of this program's trouble comes from. A child that was
reaped is `Gone` in the table, as its number is not given out again soon. Use of
freed or never written data ends the run (`undefined`); so does a handler that
signals its own shell and enters itself for ever (`overrun`).

### Cipher

`Word` is one turn of the loop of `validargs`: a flag with its operand is `Rejected`,
accepted into the record `args`, or a crash (`atoi` of a NULL). `EndOfWords` checks the square and
packs the arguments into the 16-bit mode word (`usageCode`); `activateCrypto` enters the
loop over the input. The static variables of `hw1.c` are the record `m`, and each C
function an operator from one `m` to the next: `PolybiusEncrypt`, `PolybiusDecrypt`, `FMEncrypt` (with
`translateCode`, `giveCodeToPosit` and `doMorseEncryptAndPrint`), `FMDecrypt` (with `TakeCode` and
`doAntiTranslateMorse`), and the two things a newline does. `morse_table` holds each entry
as a number whose binary digits after the first are its signs. The table a key makes, the codes of an entry and the giving of
one code after the other are recursive functions (`initCipherTable`, `CodesOf`, `GiveAll`). `strtol` is called on
the address of a single character: `stale` says that the byte after it on the stack is
a digit. A read of `morse_table` past its end, or with an index no one wrote, is a choice
among what can be there. After an encryption a second run of the program may
decrypt its output with the same words (`decode`), which is what the properties look at. `Kept` and `Squeezed` say what is left of a text: without the
characters in no square, with one space for each gap.

## 3. Runs

| Run | Instance | Shows |
|---|---|---|
| `queue_safety` | 2 producers, 3 consumers, 1 invalidator, 3 items, 3 nodes | pointers form a list, tokens match nodes, no read through NULL, the queue is a FIFO, a linked item reaches a consumer |
| `queue_invalidate` | one thread of each kind | **violated**: `invalidate_queue` may sleep for ever |
| `map_safety` | 2 threads, 2 colliding keys, 3 pairs, 2 slots | size counts live slots, pairs are owned once, a miss was true, `put` answers true only when the pair is stored (a false one is `cream_safety`'s `PutIsAccepted`), the map implements `MultiMap` |
| `map_returns` | 3 threads, 1 key, 1 slot | lock discipline, a reader's slot is stable, every call returns |
| `map_torn_get` | 2 threads | **violated**: `get` returns its key's value |
| `cream_safety` | 2 workers, 3 connections, 1 slot | answers before closing, accepted PUTs, justified NOT_FOUND |
| `cream_closes` | 2 workers, 2 connections | every connection whose client acts is closed, unless the server was stopped |
| `sfmm_safety` | 4 pointers, 2 pages of 5 rows, 6 sizes | tiling, lists, ownership, justified NULL, no unjustified abort |
| `sfmm_overlap` | 3 pointers | **violated**: blocks held are disjoint |
| `utf_safety` | 19 command lines, texts of one of eleven code points and of two of eight, three formats, truncated and unmarked files, one fault | output in step with the text, a fault costs one piece, byte swapping, choice of the conversion, a file is written for exactly the lines that ask for it, termination |
| `sfish_session` | 13 kinds of line, 3 process ids, 2 interruptions | children waited for, descriptors back, group table, handler never stuck, first ^C survived and deadly for the program, the words reach the programs, lines return |
| `cipher_roundtrip` | command lines of up to 5 flags, inputs of up to 2 (Polybius) or 5 (Morse) of 7 characters, 5 keys, 4 numbers | the command line is honoured, letters in step with the codes, both ciphers undo themselves |

### Bounds and why they are enough

* *Queue*: three items make a list with a front, a middle and a rear; with one
  more consumer than producers consumers wait at the semaphore and at the lock
  together. The invalidator is one thread, as in `cream`, and the proofs are for any number. `Nodes` has as many as `Items`, so
  `calloc` never fails, as the code assumes.
* *Map*: two slots and two keys that hash to the same one make every probe that
  can wrap, meet a tombstone or find the table full; three pairs let a slot be
  reused while a reader is between its unlock and its loads. Three readers are
  the fewest where the first and the last are different and one is between.
* *Server*: with one slot a CLEAR, an EVICT and a PUT all concern the entry a GET
  is answering. Three connections let a worker come back with what an earlier
  one left (`errno`).
* *Allocator*: the header says its size constants may change, and `Sfmm` has
  them as parameters. Ten rows hold five blocks of the smallest size, which is
  what it takes to unlink a node from the middle of a list by merging. `Lengths`
  gives four list classes; `Bytes` has requests of zero bytes, of a whole number of rows and not,
  of more than a page and of more than the heap. The run stops
  where a list is cut or a page is missing (`CONSTRAINT Sound`): what
  happens then is the subject of `sfmm_overlap`, which has no such bound, and of section 4.
* *Converter*: the code points are the first and the last of each length class of
  UTF-8, of the pairs, and of what the strict comparisons leave out, with U+00DA and
  U+77E5, whose bytes exchanged look like a half of a pair or are ordinary. The command lines
  have each order of the words and each kind of word among them. Two code points
  in a text suffice for what one glyph leaves in the buffer for the next. A longer
  old output file and two contents of the stack stand for all.
* *Ciphers*: E, A and R have Morse codes of one, two and three signs, which with the `x`
  after a letter give every remainder modulo three; `~` lies past the end of
  `morse_table`, and a tab is in no alphabet. Five characters make two letters and a
  space on either side of a line's end; the Polybius square keeps nothing between two
  characters but the first digit of a pair. The keys change the order, hold a Z, repeat a
  character, or are only in the larger alphabet. The numbers are too small, the largest, one
  more, and one that is ten in 16 bits. Five flags are what a full command line has.
* *Shell*: three process ids are one more than a line has children at once, so
  that a leftover of an interrupted line meets the two of the next. Four
  commands are the fewest that take a third turn. The lines have redirections
  with tails of an even and of an odd number of words, and pipes before, after and beside them. The bound `MaxLoose` counts ^C
  during a line, ^Z and reads from the terminal; two are what it takes
  to act on a table that an earlier one left. ^C at the prompt is free.

### Fairness

Only weak fairness, of each thread's own steps, as any scheduler that does not
starve a runnable thread gives. Neither mutexes nor the semaphore are assumed to
serve waiters in order: a thread that waits for a lock others keep taking may
wait for ever. Hence `EnqueuedIsTaken` asks that an item reaches *some* consumer and
`AllReturn` that calls return once no new call is made. `EveryConnectionCloses` assumes in
its premise that every client sends something or hangs up; `cream.c` has no
timeout, and a silent client does hold its worker. `Terminates` needs the converter
to go on, nothing else. `CommandReturns` assumes that the shell goes on while it can run, that a
pending signal is delivered, and that while there are programs neither stopped nor
stuck in a pipe one of them sooner or later ends; users owe nothing. In these runs `CHECK_DEADLOCK
FALSE` appears where the system really stops: consumers asleep on an empty or
invalid queue, a server that has exited or has no client left, a shell whose
handler waits for a stopped child that only one more ^C, beyond the bound, would end,
a cipher that has printed its last character.

## 4. What the violated runs show

* `InvalidateReturns` (`queue.c:22-24`): `invalidate_queue` reads one token, a consumer
  takes it before `sem_wait`, and the invalidator sleeps with the mutex held.
  A cousin of it has no run: an item whose token a consumer has taken is not
  destroyed by the loop, and the consumer, finding the queue invalid, drops it.
  `dequeue` on an empty queue sleeps where `queue.h:60-61` has it return NULL.
* `GetReturnsItsKey` (`hashmap.c:108`): the value is loaded after the unlock. In the shortest trace a clear wipes
  the slot before it; a delete and a put, or a forced put, leave another key's value there. The same
  late load is in `delete` (line 133), and `cream.c:126` sends the bytes later still.
* `RegionsDisjoint` (`sfmm.c:118-125`): unlinking the last node of a longer list does
  not tell the node before it. The block, allocated or merged meanwhile, is
  found by a later walk.

Other disagreements with the documentation are in the models without a run of their own, since
the checked properties were written around them and say so:

* *map*: `put` takes the first vacant slot without looking for the key
  (`hashmap.c:51-57`), so a key may have two entries, where `hashmap.h:59` has the old
  value overwritten. `RefinesMultiMap` allows either, and a program that does overwrite has it too. `delete` copies the node after the unlock (line 133). A forced
  `put` and a `delete` never destroy the pair they drop.
* *allocator*: with one page left a request of two gets a block of two, the second
  of which `sf_sbrk` refused (`sfmm.c:217-232`). Freeing the block at the end of a heap
  that has pages left sets `sf_errno` (line 59, `>` for `>=`), and a `sf_realloc` that finds
  no memory aborts in the `sf_free` that follows (line 309) where `sfmm.h:139` has it return NULL.
* *converter*: `is_upper_surrogate_pair` leaves out D800 and DBFF (`utf.c:99`; theorem
  `EdgePairsSplit`). `lseek` has its arguments exchanged (`main.c:17`), so the mark
  its comment says is discarded is converted as text and the output has two; `TextInStep` and `SwapInStep`
  hold with it or without it. `-eUTF8 in out other` is accepted (`args.c:32`): the usage text has no such line, and the third name
  is dropped. `AskedOnly` describes the lines the program takes. A UTF-8 mark is written with a fourth byte,
  NUL (`utf16be.c:50`). `from_utf16le_to_utf16be` looks for a pair after reversing the
  unit (`utf16le.c:23-24`): a last character such as U+00DA is followed by two bytes that
  are not in the input. There is no O_TRUNC (`main.c:14`), and with the same file for
  input and output a growing conversion does not end.
* *shell*: after ^C the flags, the list of redirectors, the moved descriptors and the
  index of the table are those of the line that was cut (`main.c:106`). `clearPipe` frees
  lists that a failed line may free again (`sfish_Ext.c:156`). Four commands make
  `runPipeInput` read past its list and count a group too many (line 268). The left
  command is waited for before anybody reads its pipe (line 290), and in a
  pipeline of three the end of `ref` that the shell keeps open hides the end of the
  input. A child in its own group that reads the terminal is stopped, as the
  shell never calls `tcsetpgrp` (line 243). At the end of the input the loop asks again
  for ever (`main.c:133`). A failing `fork` is not noticed (line 231), and the list of
  redirectors is read before it is written (`main.c:85`); the last two and `siglongjmp` out of a library
  call are outside the model.
  `removeRdrFromTokens` takes a `|` out with the word after it and then does not
  count it (`sfish_Ext.c`), so `cat < f | wc` is `cat` alone and `p | p > f` reads past its tokens; `WordsReachPrograms`
  leaves such lines out (`Mixed`). An odd number of words after a redirection makes
  its loop step over the terminating NULL. A right-hand `exit` frees a pointer into
  the tokens. `cd` changes `oldPWD` before it knows that `chdir` succeeds; this, and the
  directory of the prompt that a pipeline leaves behind, is not in the model.
* *ciphers*: `morse_table` has 90 entries for an alphabet of 94 (`const.c`), so encrypting one
  of the last four reads past it. The usage text asks for one of `-e` and `-d` and for counts
  from 10 to 16; the code encrypts without either and takes 9 to 15 (`validateRowAndCol`).
  `-r` or `-c` as the last word crashes. `const.c:4-6` has characters outside the
  alphabet preserved; the square drops them (`PolybiusRoundTrip` has them all there or all missing) and fractionated Morse reads a pointer that was never written. A space that begins
  a line is decrypted to `# `, and with a key that holds a Z the last letter of a line may
  be lost, as the end of a line is decrypted as a Z wherever the key put it (`hw1.c:403-412`).
  The check of the second digit looks at the first again (`PolybiusDecrypt`).


## 5. Proofs

`QueueProofs` (for any sets of threads, items and nodes, the threads finite):

* `Invariance`, with the corollaries `PointersLinked` and `TokensMatchNodes`: `Spec => []IInv`. `IInv` is the type invariant, `Linked`, `TokenConservation`,
  `Mutex`, `StillValid` and `ArgOwned`. None of the first three is inductive alone: that the
  pointers stay a list needs the mutex (two threads inside would interleave) and
  that the item being linked is nobody else's (`ArgOwned`); that tokens match
  nodes needs to know that the thread between `EnqLink` and `EnqPost` is
  alone and that an invalidator still sees the queue valid (`StillValid`). The proof
  has a step per action and under it a step per conjunct the action can disturb.
* `NullSafety`: `Spec => []NoNullDeref`. A consumer at the lock accounts for a node, so
  the list cannot be empty when it arrives.
* `Refinement`: `Spec => RefinesFifo`. Each step maps to a step of `Fifo` or to a stutter,
  from the invariant.

`HashMapProofs` (for any finite set of threads, any keys and pairs, any capacity, any hash):

* `MapInvariant`: `Spec => []HInv`, where `HInv` is the type invariant, `LockDiscipline`, `SizeIsLive`,
  `LiveSlotsOwn`, `ReadStable` and `MissIsJustified` with what they need. `Calls` ties a
  thread's place to what it was called for, `Alone` keeps `invalidate_map` to itself,
  `PairsOwned` says that a pair about to be put is in no slot and in nobody else's
  hands (else an overwrite could make two slots own it), `KeyedSlots` that what a probe can match
  points somewhere, `Found` the same of a slot found, `Emptied` that an invalidated map is empty and has no
  readers. No part is inductive alone: that a reader's slot is stable needs the lock,
  that the lock excludes writers needs the count of readers (`ReadersCounted`), that
  the count of live slots is right needs the slot to be vacant at the put, and
  a miss is true because the probe, whose correctness is `ProbingFinds`, saw a table no writer was changing.
  Each table change is one of `Stores`, `Buries` or `Wipes`; each conjunct has a lemma that
  says which steps can disturb it and shows that they do not.
* `ReadersWriterLock`, `SizeCountsSlots`, `SlotsOwnTheirPairs`, `FoundUnderLock`, `MissesAreTrue` are its parts;
  `PutTellsTheTruth` is the action property `PutTruthful`, from the same invariant.
* `MapImplementsMultiMap`: `Spec => RefinesMultiMap`. `Offered` maps a put in progress to its pair;
  every step is a step of `MultiMap` or a stutter, and `EntriesCounted` (live slots hold different
  pairs) turns the slot count into the size of the set.

`CreamProofs` (for any finite set of workers, any connections, requests, keys, pairs, capacity, any hash):

* `ServerRunsTheMap`: `CreamSpec => Spec`, and `ServerRunsTheQueue`: `CreamSpec => Requested!FifoSpec`. Every step of
  the server is a step of the map or leaves it alone, and the same of the queue; all that
  `HashMapProofs` has thus holds of the server (`MapHolds` brings `HInv` over), and what `QueueProofs` shows
  of `queue.c`, that it implements `Fifo`, is what the server relies on.
* `CreamInvariant`: `CreamSpec => []CInv`. `Connected` and `OnePlace` say that a connection is in the queue or with
  one worker, never both, so that nobody else writes its response. `InStep` ties the
  worker's place to what the client has sent and to the call of the map it made.
  `ErrnoIsClean` says that errno is 0 from the close of one connection to the call for the next, and
  in a `put` until it answers: a forced `put` on an open map sets none. `LengthOrAbsent` says that a
  NULL length loaded after the unlock can only come from a slot a CLEAR has wiped, and then the key is missing;
  it is the half of `get`'s late loads that `MissIsJustified` does not have. `Answers`
  follows the response of a worker's connection from nothing to the header to the value, `Served` that of the others.
* `ResponsesAreWhole`, `PutsAreAccepted` and `NotFoundIsTrue` are `AnsweredBeforeClose`, `PutIsAccepted` and the action
  property `NotFoundIsJustified`.

`SfmmProofs` (for any page size that is a multiple of a row, any number of pages, any list bounds in order, any requests and pointers):

* `BlockHoldsRequest` and `ExtensionSuffices`: the rows a request is rounded to hold it, with less
  than a row to spare, and the page count `extendHeap` computes from the unrounded
  request holds the rounded one with its tags.
* `InvariantHolds`: `Spec => []IInv`. `IInv` says of a memory in which no list has been cut and
  no page was missing (`Sound`) that there are a set B of blocks and a set F of listed ones such that
  the blocks tile the heap (`Tiles`), agree in their two tags (`Agrees`), nothing was written
  above the break (`Fresh`, `Paged`), each list goes through the blocks of F of its sizes, both ways, and
  ends (`Listing`), and the blocks outside F are those the client's variables hold, one each, as large as asked (`Keeps`).
  The sets are what makes it inductive: the recursive walks of `HeapIsTiled` and `ListsHoldTheFree` are followed
  along them, and nothing is said in terms of a walk that a step would have to begin afresh. In the middle of a call a block
  may be in B, free and not yet in F; `Steady` rules that out between calls. An aborted process keeps the weaker `Stands`.
  `cut` and `over` are never reset, so a step into a sound memory comes from one.
* Each C function has a lemma of its own, from memory to memory (`HeapUnlist`, `HeapList`, `HeapSplit`, `HeapMerge`, `HeapGrow`,
  `HeapFree`, `HeapFits`, `HeapExtend`, `HeapMalloc`, `HeapShrink`, ...), and the calls put them together. `HeapForget`
  shows that forgetting the words no call can read changes none of this.
* `HeapTiled`, `FreeListed`, `HeldAllocated`, `NullJustified` and `FreeReturns` are the five invariants of `sfmm_safety`, `SoundTyped` that a
  sound memory has its types; in a memory that is not sound they are only model-checked. Nothing here
  is about `RegionsDisjoint`, which is violated once a list is cut.

`UtfProofs` (for every code point up to U+10FFFF; any texts, command lines, old files and contents of the stack, any number of failing calls):

* `Utf8RoundTrip`: the first byte of a UTF-8 glyph selects the decoder that undoes
  the encoder. One lemma per length class, from the arithmetic of 6-bit digits.
* `Utf16RoundTrip` and `EdgePairsSplit`: a unit or a pair is read back as the code point it was
  made for, except exactly where its first half is D800 or DBFF, where it never is.
* `StaysInStep` (`TextInStep`) and `UnitsSwapped` (`SwapInStep`): the whole run of a conversion. The loop invariant says how many
  code points have been read and written; that the next turn finds a code point at its offset (`NextIsRead`) comes from
  the standard's layout of what is left, that it writes the same one in the other format from the round trips (`TurnFrom8`, `TurnTo8`). A failed call
  loses one piece, and after it the invariant goes on with a gap of that piece; a second read that fails leaves the offset inside
  a code point and the loop is over. The mark that is read counts as code point 1 of the text, and the code writes it
  again; the properties leave open whether it should. Texts from UTF-16 with one of the 2048 code points of `EdgePairsSplit` are left out. For the swaps the last unit must be no first half of a pair, as the
  code would read past the end of the file (`LastIsSingle`).
* `TypesKept`: offsets stay inside their files. `Lines` is what the command line and the first bytes have
  settled: nothing is read or written before the loop (`Untouched`), the formats are those of the words and of the mark (`FromLine`, `MarkSeen`: a mark
  is recognised only where there is one), a loop runs only for its formats (`Routed`), a copy is complete (`Copied`).
* `CopiesOrConverts` and `NullOnlyWithoutTarget`: equal formats copy the file; a null conversion is called only without `-e`, from the case labels, whose differences have a case each.
* `OnlyAsked`: whatever the words, a run that ends well was given a line of four words that asks for its format and names its
  files, and the converse for a file with its mark. What `getopt` has after any number of words is followed along the line (`Scanned`):
  that every word so far fits (`Fit`), the last format asked for (`LastFormat`) and the names in order, of which the first two count (`FirstNames`).

`SfishProofs` (for any lines of any length, any process ids, any number of interruptions, any table of at least three entries):

* `RemovalLeavesMeant`: `removeRdrFromTokens`, which shifts the places of the redirectors by what it has taken out, leaves exactly the words that
  belong to a command. By induction along the line, with what the array and the shift are at each place; with it `WordsReachTheirPrograms`.
* `ShellInvariant`: `Spec => []Inv`. `Descriptors` ties the two flags to what was moved, which `StdioIsRestored` needs. `Mask` says where SIGCHLD is
  blocked, hence that the handler comes inside only while `sigsuspend` waits. `Index` bounds what interrupted lines leave in
  the index: two each. `Debts` counts the children nobody waits for, at most one per interruption, which needs that the
  child that is waited for is not among them and that a stopped one has cost an interruption already. `Quiet` and `Counted` are about
  a session without interruptions: no SIGCHLD is pending while the child lives, and the index and the total count from the beginning
  of each line. `Survives` carries the safe table up to the first interruption.
* `PromptIsAlwaysClean`, `StdioIsRestored`, `TableIsSound`, `HandlerDoesNotBlock`, `FirstInterruptIsSurvived`: the invariants of
  `sfish_session`; `InterruptAlwaysKills` and `WordsReachTheirPrograms`: its action properties. The first
  speaks of programs: a child that gets ^C before `execvp` may live on as a second shell (`rogue`), and the theorem does not exclude it.

`CipherProofs` (for any keys, any counts, any characters, inputs of any length):

* `AlwaysBegun`: `Spec => []Begun`: before a cipher starts the local variables are those of the words accepted so far (`Honest`), then
  the mode and the table are made of them (`Prepared`), and while it runs the table holds each character of
  its alphabet once and the square has a place for each (`Keyed`). `CommandIsHonoured` follows, from the arithmetic of the packed mode word.
* `SquareRoundTrip`: `PolybiusRoundTrip`. While the text is encrypted a decoder is run alongside (`Runs`): what is printed so far would take it to the
  text so far, with no digit waiting. Each character adds the two digits of its place, which lead back to it; when the second run
  begins, the decoder that was imagined is the one that runs, and what is left of the pipe takes it to the end. The proof shows that the characters
  without a place are missing (`Square`); the property allows that they are there.
* `LettersKeepStep`: `LettersInStep`. `InLine` has `Slots` (which of the three slots are written, by the kind of the last character: nothing, a
  letter, a space) and that printed triples and waiting codes are the stream. The stream grows by a `Piece` for each character, and
  so do the codes that are given (`FullCodes`, `GivenCodes`).
* `WordsComeBack`: `MorseRoundTrip`. A decoder is imagined here too, and one step further: `Reaches` says where it would be after the
  letters printed so far and the codes that still wait in the slots (`Ahead`), so that a code given to the slots is a code taken by the decoder, at once
  (`GivenTook`). The number that the codes of a letter make in the decoder is its entry (`CodesWorth`), and no two entries are the
  same (`MorseOnce`), so the letter comes back (`LetterBack`). `Tidy` says that this decoder has printed the words of the text and is between two letters.
  The end of a line is the hard step, as waiting codes are dropped and a Z is decrypted in their place: by how many wait and what
  the last character was, what that prints or loses is at most a space (`EndAtOne`, `EndAtTwo`, `EndFlushed`, `TidyNewline`). At
  the end of the input without a newline the codes that wait are never printed; what the decoder prints without them is
  a beginning (`AheadGrows`, `FollowsBack`).
The inductions that these proofs need (along a line, a text, the codes of a letter) go over the numbers up to a bound and are stated for sets
(`UpTo` in `Recursion`), which the provers can instantiate; `StepByStep` gives the functions
the recursive definitions choose.

The assumptions are those named in the modules: `QueueAssumption` (NULL is no node,
item or thread; threads are finite), `HashTableAssumption` and `HashMapAssumption` (a table of at
least one slot, hashes that are numbers, finitely many threads; NULL is no key, pair or thread),
`CreamAssumption` (requests are records; NULL is no connection and not the marker of freed bytes),
`SizesAssumption` (pages of whole rows, list bounds in order), `UtfAssumption` (files and stacks of bytes, texts
in the layouts of the RFCs), `SfishAssumption` (lines of words, process ids above 0, a table of at least three entries) and
`CipherAssumption` (characters and counts are numbers, an input holds neither '\0' nor EOF). The inductive invariants were run
through TLC on the instances of section 3 before they were proved; type
invariants that are part of a proof have no run of their own.

Only model-checked: every liveness property (fairness is out of TLAPS's reach
here: `EnqueuedIsTaken`, `AllReturn`, `EveryConnectionCloses`, `Terminates`, `CommandReturns`) and the
types of an allocator that is no longer sound.


## 6. What is left

Not modelled, and why:

* `hw5/src/extracredit.c` is a file of stubs; `hw3/src/main.c` is a client whose calls `Sfmm`'s own client makes.
* The shell's `cd`, with its two directories, would multiply the shell's states by the
  number of directories squared and touches nothing else; `help`, `pwd` and the prompt only print.
* Some hazards of `PROJECT.json` have no property, as they do go wrong and the properties that hold are written
  around them: `put` makes a second entry for a key (`hashmap.c:51`); `sf_sbrk` may refuse one of several pages (`sfmm.c:226`);
  a reset connection ends the server (`csapp.c:794`), a silent client holds a worker (`cream.c:76`); pairs with D800 or DBFF
  are split (`utf.c:99`) and a cut glyph is decoded with old bytes (`utf8.c:26`); a second ^C signals stale
  entries (`sfish_signal.c:20`). Section 4 or the notes there tell each.
* One file as input and output of the converter: a growing conversion then reads its
  own output without end.

Worth proving next: that an allocator whose memory is sound implements an
abstract one that knows only the regions handed out, and that `sf_realloc` keeps to it when it moves a block.
