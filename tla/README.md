# dach in TLA+

`dach` is a small C compressor: an order-0 adaptive arithmetic coder driven by
the commands `encode` and `decode`, a library of block streams and pipes of
operations that is meant to make it parallel, a substring search for a
dictionary coder, and `fdb`, a program of its own that walks a directory tree and
fills an SQLite table with the sizes and hashes of the files it finds. These
modules model the parts that have logic of their own, check them with TLC on
small instances and prove most of their safety properties with TLAPS for all
instances.
Paths below are relative to the repository (`src/dach/...`, `src/fdb/...`,
`inc/dach/...`).

## 1. Inventory

| Component | Source | State | Operations | Model |
|---|---|---|---|---|
| Order-0 model | `src/dach/dach_ppm0.c` | `freq`, `cumfreq`, `sym_to_chr`, `chr_to_sym`, `scale` | new, find_sym, update (with the recursive `dach_sym_swap` and the `inc_cumfreq` loop), scale | `Ppm0`, `Ppm0Proofs` |
| Arithmetic coder | `src/dach/dach_ar64.c` | `low`, `high`, `underflow`, `esym`, `io_buffer`, `total_syms`, `eof_in`, `stop` | new (header), encode, decode, bitout, bitin, write_stream, start_decoder, stop_encoder, eof | `FileCodec`, `FileCodecProofs` |
| `encode`, `decode` commands | `src/dach/dach.c` | input mapping, 4096-byte output buffer | `encode()`, `decode()` | `FileCodec`, `FileCodecProofs`, `FileTransfer` |
| Block | `src/dach/dach_block.c` | `data`, `pos`, `size`, `length`, `bytes_written`, `id` | new, read, get_c, write, seek, tofile, length | `Block` |
| Stream, operation, pipe | `src/dach/dach_stream.c`, `dach_copy.c` | block arrays, `blocks_returned`, the array of operations | stream_new, stream_free, new_block, write_block, free_block, blocks, copy; pipe new, add, start, tofile | `Pipe`, `PipeProofs` |
| fdb | `src/fdb/*.c` | thread pool, database, `file_count`, `file_insert_count`, the path buffers | `main` with its error exits, `walk_recur`, `do_work`, `sql_file_exists`, `sql_insert_file` | `Fdb`, `FdbProofs`, `FileTable` |
| Substring search | `src/dach/dach_string.c` | local cursors | `dach_find_prev_substr` | `Substr`, `SubstrProofs` |
| Block header | `src/dach/dach_header.c` | 16-byte header | new, pack, unpack | `Header`, `InfoProofs` |
| `info` command | `dach.c:434-554` | file position, running totals | the walk over a file's headers | `Info`, `InfoProofs` |
| Option parser | `dach_cmdline.c` | `gengetopt_args_info` | the loop over getopt_long, `update_arg` | `Command`, `CommandProofs` |
| Configuration, dispatch | `dach_main.c`, `dach_command.h` | `dach_default_config` | options over defaults, table of commands, usage | `Command`, `CommandProofs` |
| `estream`, `dstream` | `dach.c` | - | - | `Command` (`RunStream`): both use a stream pointer that has been set to NULL before a thread starts, so what follows in the code never runs |
| Lock | `dach_lock.c` | - | - | not modelled: a stub that locks nothing and that nobody calls |
| Files, memory, classes, errors | `dach_io.c`, `dach_mem.c`, `dach_class.c`, `dach_error.c` | - | wrappers of system calls | not modelled |
| Perfect hash, `sqlite3.h` | generated and not called, vendored | - | - | not modelled |

How the parts meet:

- `encode()` maps the input file and calls `dach_encode` once per byte; each call
  asks the model for the byte's symbol and share, narrows the interval, writes the
  bits that are decided and ends with a call of `dach_ppm0_update`. `decode()`
  does the same backwards with a model of its own. The two never communicate except
  through the file, so they must perform exactly the same table updates and
  interval operations in the same order.
- A pipe owns a reading stream, which owns an array of input blocks (windows on the
  mapped file) and an array of output blocks. The user may take blocks himself, one
  by one; `dach_pipe_start` hands each of those that are left
  to the callback of an operation, which reads and writes through the
  stream. Everything runs on the caller's thread.
- `main` lets the option parser fill `gengetopt_args_info`, makes the configuration
  of it and calls the command that the first word names. `info` reads what a stream
  of blocks is meant to look like on disk, each block behind a packed header.
- In `fdb` one thread walks; the threads of an APR pool run `do_work` on what the
  walker pushes. They share the SQLite handle, two counters, and - through a
  pointer in the work item - the walker's stack. The database file outlives the
  process, and the next fdb starts from it.

What is hard here, and what correctness means (`PROJECT.json` lists the hazards
with their lines):

- *Order-0 model.* An update raises one frequency, bubbles a chr up several ranks
  while it moves cumulative frequencies, then adds one to every rank from where it
  **started**. The table is inconsistent in between. Correct: afterwards the two
  rank tables are inverse, the table is sorted, and every cumulative frequency
  is the exact suffix sum.
- *Coder.* Fixed-width registers, an interval that straddles the middle, bits that
  are undecided, a last word that is padded, and a decoder that may read one word
  past the end. Nobody checks that the files are written in full. Correct: what the decoder delivers is the input; with enough
  precision neither program gives up; from code that ends early, nothing but bytes
  of the file comes out until the end is met.
- *Pipes.* A last block that is shorter, or empty; blocks that outgrow their size;
  blocks taken before the pipe starts. Correct: the blocks partition the file and each
  is read once, in order, by one reader or one callback.
- *fdb.* Two workers between a test and an insert, lost updates of counters, a pool
  that is cancelled while it works, a path that changes while it is read, a process
  that dies between a query and an insert. Correct: rows are only added, one per
  name, over any number of runs; no use of a closed database; exit.
- *Header and info.* Numbers that go out in memory order and come back by shifts;
  headers that are found only by adding up the sizes of those before. Correct: what
  is listed is a beginning of what was written, and reads are at headers only.
- *Command line.* Counters kept twice, numbers cut to an int and then widened to a
  size, defaults given by position. Correct: exactly the good lines get past the parser,
  what an option asks for reaches the command, and without it the documented default.
- *Search.* Three cursors, two nested loops, windows that end at the slab's ends.
  Correct: the longest match, and the earliest of those.

## 2. Modules

`A <- B` means A extends B:

    Ppm0  <-  FileCodec  (INSTANCE FileTransfer: refinement)
    Block <-  Pipe
    Fdb   (INSTANCE FileTable: refinement)
    Header <- Info          Command          Substr

    Ppm0, InductionLemmas      <- Ppm0Proofs <- MCPpm0
    FileCodec, Ppm0Proofs      <- FileCodecProofs
    Pipe, InductionLemmas      <- PipeProofs
    Info, InductionLemmas      <- InfoProofs
    Fdb <- FdbProofs    Command <- CommandProofs    Substr <- SubstrProofs
    Fdb <- MCFdb        Command <- MCCommand

**Ppm0.** One action per iteration: `UpdateBegin` is the call of
`dach_ppm0_update` with its `dach_inc_freq`, `SwapUp`/`SwapDone` an invocation of
the recursive `dach_sym_swap` that swaps / that returns, `IncCum` an iteration of
the loop over the cumulative frequencies, `UpdateEnd` the assignment to `scale`.
`phase`, `sym` and `at` are the program counter and the two locals. `freq` and
`cumfreq` are indexed by chr, as in the code. `FindSym` is the linear scan of
`dach_ppm0_find_sym`, as the first position at which it stops. `SymCount` is
`DACH_SYM_COUNT` (258); all that matters about a byte is its rank.

**FileCodec** extends Ppm0, so the coder's model *is* that module: an encoder step
is a coder action, or an `UpdateStep`, while `stage` says which call or iteration
is next. Registers have `WordBits` bits; the masks of the code are arithmetic on
`Quarter`. `io` is the bit buffer (`io_buffer` with `bit_out`/`bit_in`), `code`
the words written, `header` the four bytes in front. `BitOut` puts several bits
out at once: a word is written whenever a bit comes that no longer fits, so the words
are the bits cut at multiples of `WordBits`, with at least one bit left over.
`FillWindow` is an iteration of the loop of `dach_start_decoder`. An `assert` of the code is
a guard, and its negation an action that ends in the stage `"abort"`; `exit(1)` is
`"failed"`. A few asserts are left out because they cannot fail in the model: that a cumulative
frequency is at most the scale (`dach_ar64.c:301`) and that the scale is that of rank 1
(`dach_ppm0.c:376`) follow from `CumulativeExact`, and rank 0 keeps its sum of 0
(`dach_ppm0.c:375`) because swaps and sums stop at rank 1 (`Bijective`, `Cursors`). Decoding starts with `PpmReset` and fresh registers. `outbuf` is
the 4096-byte buffer of `decode()`, `MaxBuf` its size. `LoseCode` is the encoder
that is killed, or whose writes fail from some word on: the code ends there, or the
whole file is empty, and the decoder is started on what there is. `Flush` is an
`fwrite` of the decoder, which may fall short unnoticed; from then on nothing more
arrives. `lost` is a history variable and says which file was cut.

**FileTransfer** is what the user of `encode` and `decode` is promised, with no
coding in it: the decoded file is at any time a prefix of the original one; the pair
completes with the whole file or gives up. Once a file has been cut (`"damaged"`) all it
promises is that what has been written stays. `FileCodec` is shown to implement it
(`ImplementsTransfer`, safety and liveness), with `delivered <- outfile` and the
stages mapped to outcomes.

**Block, Pipe.** A block is a record and each function of `dach_block.c` an
operator on it; unwritten memory holds a value of its own. `Pipe` starts with
`OpenStream` (`priv_file_reader_new` with its mapping and `lazy_create_blocks`) or
`OpenFails`. In the stage `"user"` the user takes a block (`TakeBlock`) and
reads it byte by byte with `get_c`, as the test's reader does, or copies it with
`dach_copy` (`ReadByte`, `BlockRead`), calls `free_block`, frees the stream, or makes
a pipe. `free_block` asserts `bid == 0` and then looks at `written_to_stream` in
memory from `malloc`, so what it does is a choice: nothing, or the end of the
program. The pipe has an action per call or loop iteration: `NextOperation` (with
`blocks()`), `NextBlock` (`new_block` and `write_block`), `CallbackReads`,
`CallbackReturns`, `OperationDone`, `ToFile`. Callbacks are user code: the
test's `copy`, and three that stand for those that keep, grow or shrink their data
(`OddOnes` for the last).
`handlers` and `got` are history variables.

**Fdb.** `Begin`, `OpenDb`, `CreateTable`, `ResultCodes`, `Allocator` and
`StartWorkers` are `main` up to the walk, each with its failure: an assertion,
`exit(-1)`, or the jump to `quick_exit`. Then comes the walker (`ReadEntry`,
`WritePath`, `PushFile`, `Descend`, `Return`, `SkipEntry`; a failing push is
`exit(-1)`) and the shutdown (`Cancel`, `Cancelled`, `DestroyPool`, `CloseDb`,
`ReturnFromMain`). `Work(w)` is `do_work` on thread w, split where another thread can
come in between: around each load and store of a counter, between
`sql_file_exists`, `io_md5` and the `sqlite3_step` of the insert. Its assertions
(`ExistsFails`, `Md5Aborts`) end the process with all threads. A work item points at
`buf[depth]`, the array `full_path` of the `walk_recur` call at that depth, which
sibling directories share. `ProcessEnds` is the one way out: everything but the
database is forgotten. `Kill` does it at any moment, and `Begin` starts fdb again on
the table that is there. `CloseHandle` is `sqlite3_close`, which refuses a handle
that still has a statement; a second close of a closed handle is recorded. The APR
pool, SQLite and the file system are external and modelled from their use.
`started` (the items that workers have taken, which the counters must not pass) and
`runs` are history variables. The tree may be any in which no directory is inside
itself (`TreeAssumption`), since `walk_recur` does not follow links.

**FileTable** is what fdb promises of its database: a running fdb adds rows, one at a
time, each under a name that is not there; no row changes or goes; an fdb that is
started ends. `Fdb` is shown to implement it (`ImplementsTable`, safety and liveness),
with `rows <- table` and `running <- stage # "ended"`; `TableSafety` is the part of
its specification without the leads-to.

**Header, Info.** `Header` has the two constructors, `Pack` (`write_bytes` copies
memory, lowest byte first on a little-endian machine) and `Unpack` (shifts; `model`
is not restored), for bytes of `Radix` values. `Info` has an action per step of the
loop of `info()`: the read of a header, its end when nothing or too little is left,
the listing of a block with the seek behind it, and the exit on something that is no
header. The files are sequences of headers and blocks, whole, cut or with a damaged
header, and the bytes of a block are themselves headers, so that a walk that
loses its place does not notice. Nothing reachable in the program writes such files
yet (`write_to_stream` would); to `info` a file is whatever it is given.

**Command.** One action per word that `getopt_long` returns or passes over
(`PlainWord`, `TakeOption`, `RejectOption`, `PrintHelp`), the end of the parser,
`Configure` and `Dispatch` of `main`. The command is `argv[1]` of the line as given,
because getopt permutes a copy. Words are classes of words; `encode` stands for
`decode` and `info` and `estream` for `dstream`; `help` for `--version` too. A word
that is no command ends in `dach_usage`, which exits with 129 before `main` can
return its 1. `RunStream` is the use of the NULL stream.

**Substr.** `Extend` is an iteration of the inner loop, `Slide` the end of one of
the outer loop. `Returned` only stutters.

Operators marked "Mutant of ..." are plausible slips of the definition that follows
them. The specifications do not use them; putting one in place of the definition
makes the property named in `PROJECT.json` fail, which shows that the property
depends on that piece of the code.

## 3. Runs

| Run | Bounds | Shows |
|---|---|---|
| `ppm0` | 6 symbols (4 bytes), scale up to 13: 8 updates | The table's invariants, exact lookup, termination of updates |
| `codec` | files up to 6 bytes over 3 values, 6-bit registers, either file cut anywhere | The round trip, the interval invariants, true output up to the end of the code, the refinement of FileTransfer |
| `codec_overlong` | 3-bit registers, header below 5, files up to 6 bytes, code cut anywhere | Too little precision or header: programs may give up, they end, what they put out is the file's beginning |
| `codec_collapse` (violated) | 4-bit registers | Finding 1 |
| `fdb` | 2 files in a directory below the start, 2 workers, 2 runs on one database, every call failing or not, kills anywhere | Clean shutdown, one row per name, counters, exit, the refinement of FileTable |
| `fdb_rows` (violated) | 3 files, 2 directories, 2 workers, no failures | Finding 2 |
| `fdb_close` (violated) | 1 file, 1 directory, a failing "create table" or a failing cancel | Finding 3 |
| `pipe` | files of 0-6 bytes, blocks of 0-7, blocks by hand and then up to 2 operations, 4 callbacks, failures | Partition, the file read once and in order, output, end |
| `substr` | all binary slabs up to 6 bytes | The search is correct |
| `info` | files of up to 2 blocks of 0, 1, 16 or 73 bytes, cut by 0 to 18 bytes, bytes of 3 bits | The walk of `info` |
| `command` | lines of up to 4 words, 4-bit ints, 6-bit sizes | Good lines and no others get past the parser, options reach the command, the program ends |
| `command_defaults` (violated) | lines of up to 2 words | Finding 4 |

Why the bounds are enough:

- `ppm0`: 8 updates over 4 byte values reach every pattern of ties: a chr passes
  0, 1, 2 or 3 others in one update, the first rank is taken over and lost, and one
  chr stays at the last rank below EOF. The theorems remove the bound.
- `codec`: with 6-bit registers a quarter is 16 and scale stays at or below 9,
  where `PrecisionSuffices` holds up to the last byte, as it does in the code up to
  about 512 MiB. Files of 6 bytes give words that end exactly at a file's end
  and in its middle, runs of straddling, and reads past the end. `MaxBuf = 2` makes
  the output buffer fill, and files of even and odd length leave it empty or not.
  One loss per pair of programs: a second one only shortens what is left.
- `codec_overlong`: the interval collapses to a point, and shares become
  empty, within 6 bytes; with a header below 5, a file of 5 bytes is stored as
  one of 0 and one of 6 as one of 1.
- `fdb`: two files in one directory share a path buffer, and the call that owns it
  returns while they are worked on. A third file, in the start directory, gives
  names that are cut as well (`fdb_rows` has it). Two workers are what every race
  here needs, two runs are what a database left behind by a dead process needs.
  `Failures` names the calls that may fail, and in this run all of them may, any
  number of them.
- `pipe`: block sizes divide the file, do not, equal it and exceed it; a callback's
  read of 2 bytes ends before, at and past the end of a block. Any number of blocks
  may be taken by hand before the pipe, and the last one may be missing or empty.
- `info`: 73 needs two digits, 3210 has its fourth digit in the upper half, where a
  signed shift would show; 16 is one header, so a walk that loses its place meets
  another one; 18 bytes cut off end inside a block, between blocks, inside a header,
  and leave nothing. A walk is a sequence of equal steps: a second block is what a
  wrong seek after the first needs.
- `command`: every option can be given twice with a word to spare; the numbers are
  negative, zero, below and above the defaults, and too large for an int.
- `substr`: `dist` goes to one past the largest slab, `pos` to its end.

Only `ppm0` has deadlock checking off: with the bound on `scale` reached, the model
alone has nothing to do. Everywhere else the final states stutter explicitly,
and any other stop is an error.

**Fairness.** Sequential code that has been called goes on until it returns: weak
fairness of the steps of an update, of both programs, of `Run` (what the user
decides is not fair: `PipeEnds` promises that he gets his turn again, not that he
goes on), of the search, of the walk of
`info` and of `main` with its parser. A loss of output, a failure and a kill are
never fair, nor is the next start of fdb. In `Fdb`
the walker is fair, and so is every worker that *has* an item, because the operating
system schedules runnable threads; that a queued item is ever started is not
assumed, since `main` cancels the queue as soon as the walk is over. That every
fdb exits (`ImplementsTable`) holds without it. The liveness of the two abstract specifications is stated as a leads-to
(`running ~> ~running`), which needs no fairness of theirs: the detailed ones have it.

**Faults.** The encoder and fdb may be killed between any two steps. Writes of the two
coder programs may fall short; reads may not, other than at the end of the file.
Every call that `main` of fdb tests may fail, and so may the push, SQLite inside
a worker, `stat`, `opendir` and the hash. SQLite itself is trusted: an insert is in the
file or not, and is not lost when the process dies. In `Pipe`, opening and
`fwrite` may fail. Memory never runs out: where the code tests `malloc` it exits
at once.

## 4. Findings

1. `codec_collapse`: `dach_decode` asserts `high > low` on every iteration
   (`dach_ar64.c:304`); nothing keeps `scale` below the precision
   (`dach_rescale` is commented out), so the assertion fails on files of more
   than about 512 MiB (with the smaller registers: of a few bytes).
2. `fdb_rows`: work items point at the walker's stack, so a row can combine one
   file's name or hash with another's size.
3. `fdb_close`: when the table cannot be created `main` closes the handle
   (`fdb.c:83`) and jumps to `quick_exit`, which closes it again (`fdb.c:117`);
   the handle must be one "not previously closed" (`sqlite3.h:309`).
   `ClosedAsDocumented` has a second part: statements are to be finalized "prior to
   attempting to close the object" (`sqlite3.h:292-295`). With a failing cancel alone
   (`Failures = {"cancel"}`) the trace is about that one: when
   `apr_thread_pool_tasks_cancel` fails `main` closes the database with the pool alive
   (`fdb.c:109`), while a worker is between preparing and finalising its insert, and the
   workers go on until `main` returns. `NoUseAfterClose` is about the pool that has been
   destroyed.
4. `command_defaults`: `--help` promises the defaults 16 for `--threads` and 1000000 for
   `--block_size` (`dach_cmdline.c:40-41`), and threads is to be "> 0"
   (`dach_stream.h:43`). `main` ignores the parser's defaults, and its own
   are initialised by position for another order of members (`dach_main.c:10-15`): a
   command gets 0 threads and a block size of 4. What is right of the configuration is
   `OptionsReachTheCommand`.

The models also show, in definitions rather than in runs of their own:

- "Original File size is stored in first 4 bytes." (`dach_ar64.c:172`) holds
  modulo 2^32 only (`OpenInput`, `HdrLimit`): the decoder stops early or, for exact
  multiples, aborts.
- A block size of 0, "if no blocking is to take place" (`inc/dach/dach_stream.h:32`),
  is a division by zero in `get_block_count` (`OpenFails`). Only a user of the library
  can ask for it: in `main` an option raises the default or leaves it.
- "length == bytes used in the block" (`dach_block.c:41`) is not so for output blocks: an
  operation that writes less than its block leaves bytes of fresh memory, which
  `dach_pipe_tofile` writes to the file. `OutputIsFirstOperation` says where they are
  (`Expected`).
- The test behind the insert is `if(SQLITE_DONE)`, a constant (`fdb_impl.c:213`): the
  error branch below it with its `assert(NULL)` cannot be reached, and a failed insert
  is counted like one that succeeded (`Insert`, `StoreInserted`).
- `free_block`, which "writes it if possible" (`dach_stream.c:515`), cannot: it looks at
  memory nobody has set, and the stream it would write to is NULL (`FreeBlock`).
- "size == bytes allocated" (`dach_block.c:40`) is not so after a write that grows a
  block: `AfterWrite` leaves `size` alone, as `block_write` does.
- An empty or missing input leaves an empty `.dch` file in place of the one that was
  there, because `encode` opens its output first (`dach.c:354`, `OpenInput`). Nothing in
  the repository says what a failed `encode` leaves behind, so no property does.
- The usage message lists `dach copy` (`dach_command.h:9`), which the table of
  commands lacks: `Dispatch` ends in the usage message for it. `main` means to
  return 1 then (`dach_main.c:103`), but `dach_usage` has already exited with 129.

## 5. Proofs

**Ppm0Proofs**, for every `SymCount >= 3` and every `MaxScale`, from the two
assumptions in `Ppm0` alone. `CumulativeExact` and `RankOrder` say nothing about
the middle of an update, so they are not inductive. The inductive invariant `IInv`
says what is true there:

- while an update runs, exactly one rank is *owed* a unit: the suffix sum of the
  rank the update started from is one short of what its frequency asks for, until
  the loop gets there. `Short(s)` is 1 for the rank `Owed` and 0 for the others, and
  `Suffix` is `Cum(s) = FreqAt(s) + Cum(s + 1) - Short(s)`. A swap leaves the unit
  where it is - this is what the `--cfreq1` is for -, every iteration of the loop
  moves it one rank up, and past rank 1 it becomes the unit that `scale` grows by
  (`ScaleIsTotal`);
- `Sorted`: neighbours are in order, except that while swapping the chr at the
  cursor may be ahead of the rank above it, by one, and is strictly ahead of the
  rank below;
- `Cursors`: the swaps stay at or above the rank they started from, and the loop
  over the cumulative frequencies at or below it in number, so the owed unit is
  always at a rank that the loop has still to visit;
- `Positive`, `Bijective`, `EofPinned` and the types.

`InitIInv` and `StepIInv` (one lemma per action) give `Invariance`, and from it
`TypeCorrect`, `RanksAreABijection`, `TableIsSorted`,
`CumulativeFrequenciesAreExact` and, with `ScaleIsTotal`, the action property
`ScaleCountsUpdates`. `StepIInv` is stated for any step, because the coder embeds
the model.

**SubstrProofs**, for slabs, positions and distances of any size. `LInv` has the
two facts the loops keep: `Scanned` (the cursors are n bytes into the candidate and
those n bytes match) and `BestSoFar` (the match kept is the longest, and the
earliest of those, of all candidates passed). `Maximal` says that when the inner
loop ends n is exactly how far the candidate matches. From `LInv` follow
`SearchStaysInSlab` and `SearchIsCorrect`.

**InductionLemmas.** What needs an induction is proved with the least counterexample:
a set of numbers that is not empty has a least element (`Least`), and the step below
it leads to a contradiction. In this way the module shows what `FlattenSeq` of
the community modules makes of sequences, whose definition goes through a recursive
function (`ConcatsExist`, `ConcatsUnique`, `FlattenIs`), that one more sequence is
appended to the end (`FlattenMore`), where each of them is in the whole
(`FlattenParts`), and that the first of them and a part of the next are a prefix of it
(`BetweenParts`). The same argument gives the rank that `FindSym` returns:
`FindSymFits` takes the least rank at which the scan may stop, and `FindSymIsExact`
follows with `CumulativeExact`.

**FileCodecProofs**, for every file, register width of at least 3, alphabet, header
limit, buffer size and every loss of written bytes. `CodecInv` extends `IInv` of the
model by

- `Learning`: between symbols no update is going on, inside one it is that of the symbol
  `cur`, and `scale` counts the symbols learnt. This is what ties the loop of the
  coder to that of the model, and what bounds `scale` by the position in the file;
- `Interval`: `low <= high` inside the registers, the interval is `Wide` wherever a
  symbol is about to be coded, and while decoding it contains `esym`. `Wide` is not
  kept by the narrowing, only restored when normalisation ends (`Tests` says what the
  tests of the loop mean for the two registers, `ShiftKeepsOrder` that an iteration
  keeps order, range and window), and the window stays inside because the symbol
  looked up is the one whose share contains it (`TargetFits`, from `FindSymFits` and
  the bounds of two divisions);
- `Place`, `Bits`, `Output`: positions and buffers. `nread` stays inside the code.

From it follow `CodecTypesHold`, `WindowStaysInside`, `IntervalIsWide` and
`EncoderNeverGivesUp`: as long as `PrecisionSuffices`, neither the narrowing nor
`dach_stop_encoder` fails an assertion or exits (`ShareIsWide`), whatever becomes of
the words that are written.

`CodecInv` relates nothing of the decoder to the encoder, which has ended before the
decoder starts: `RoundTrip` is about a state that no variable holds any more. What
holds it is the code, and the second half of the module says in which way.

- *The code is an endless stream of bits* (`Stream`). `Reading(C, p)[k]` is the number
  that k bits of C make from position p on, and `Window(C, n, u)` the register of a
  coder that has shifted out n bits and put off u more: bit n, then what follows the
  u bits behind it, which must be its complement (`Held`). `WindowAfterBit` and
  `WindowAfterHolding` slide it; `Carries(C, w)` says that C begins with the bits that
  a writer w has written or buffered, and `BitOutCarries`, `BitOutCounts` and
  `WriteStreamCarries` that the buffering by words neither loses nor invents any.
- *A coder is a value* (`Coder`: table, position, interval, bits shifted out and put
  off), and `After` the function that takes it one loop iteration on. `NarrowIs`,
  `ShiftIs`, `LearnIs` and `UpdateIs` show that the actions of both programs follow it.
- *Where the code leads* (`EncoderTraced`): the encoder has come along a set H of coders
  from `First` to where it is (`Path`), and every stream that carries what it has
  written and whose window lies in the interval now had its window in the interval of
  each coder of H (`Traced`). The argument is `ShiftBack`: a window in the interval
  after an iteration comes from a window in the interval before it, and a share lies
  inside the interval it was taken of.
- *The end of the code*: the bits of `dach_stop_encoder` select the middle, which every
  wide interval contains (`MiddleIsHalf`), and there are enough of them (`CodeEnds`). If
  words are lost, some stream begins with those that are left and leads as far
  (`CutCarries`, `StreamInto`). This is `Coded(C, H, e)`.
- *The decoder follows* (`DecoderFollows`): its registers are a coder of H, its window
  is that of the stream (`Synced`), and io_buffer holds the bits that come next
  (`Taken`, `TakeBit`). The next coder of H narrowed by the symbol that was coded, and its
  interval contains the window; shares are disjoint (`SharesApart`), so this is the
  symbol that is found (`FoundIs`, `FindsNext`, `SyncedFound`). `ShiftOn` shows that
  the toggled bit of `esym` keeps the window in step. The one exception is a code that
  was cut off, once a read behind its end has come back short.
- *What is counted* (`Sized`): the header is the length of the file if it fits and was
  not lost, `stop` is set exactly when it is reached, and with enough precision a share
  has more than one point.
- *What is put out* (`Restored`): the bytes in the file and in buf are the beginning of
  the file, as many as have been counted, and the byte under way is the next one.

Together they are the inductive invariant `Faithful` (`CodecIsFaithful`). Hence
`OutputIsTrue` (`TrueUntilEof`), `DecodedIsTheFile` (`RoundTrip`) and `CodecGoesOn`
(`NeverGivesUp`): the decoder finds each symbol that the encoder had room for, and
never needs a second read behind the end (`CodeSuffices`, from `CodeEnds`).
`ImplementsTransferSafety` maps every step of the pair to one of `FileTransfer` or a
stutter, for a file whose size fits the header: a full buffer is `Deliver`
(`StoreDelivers`), the last one `Complete` (`CloseCompletes`), bytes that are lost
`Damage` and `Salvage` (`FlushAfterLoss`).

Besides the assumptions about the constants the proofs use what the provers are not
told of `^`: a power of two is a positive natural number (`QuarterAssumption`) and the
next one is twice as large (`PowersAssumption`). TLC evaluates both.

**FdbProofs**, for any directory tree, number of workers, number of runs and set of
calls that fail. The invariant has one part per part of the state:

- `Process` and `Shutdown`: without a pool there is nothing queued and no worker is
  busy; `Cancelled` and `DestroyPool` establish it step by step. `CleanShutdown`
  (`NoUseAfterClose`) follows;
- `Walking`: the stack holds directories with the entries that are left of them, and
  a call is never deeper in the recursion than its directory is in the tree
  (`HowDeep`), so that `buf[depth]` exists;
- `Working`: what a worker has read fits the place it is at;
- `Rows`: one row per name. The query and the insert are apart, and it
  is the table's unique key that keeps it (`Insert`), not the query;
- `Counting`: a counter plus the workers that have not counted their item
  (`Uncounted`, `Uninserted`) is at most `started`, and so is a value already read
  plus those workers. Without the second half a stale value that is stored later could
  pass `started`.

`TypeCorrect`, `CleanShutdown`, `OneRow` and `CountersBehind` are their consequences.
`ImplementsTableSafety` maps every step to one of `FileTable` or a stutter
(`EndIsNoticed`, `MainImplements`, `WorkImplements`); the leads-to is left to TLC.

**PipeProofs**, for files of any length, blocks of any size, any number of operations
and reads of any size. `Cuts` is the arithmetic: block b + 1 begins where block b
ends and the last one ends with the file (`LastBlock` has the division). `PipeInv`:

- `Blocks`: an input block is the window on the file at its `Offset`, read up to
  `pos`, and not touched unless it has been handed out; an output block's position
  is inside its length, and that inside its memory (`OutWrite`);
- `Position`, `Reading`: the number of bytes handed out is `Consumed`, where the block
  in use begins plus what was read of it, and they are the file's;
- `Operations`: while an operation runs, the blocks it has still to take are
  those that the stream has left, so the first operation takes all;
- `Handling`: who was given each block.

Hence `PipeTypes`, `FileReadInOrder`, `BlocksAreTheFile` (with `FlattenParts`) and
`LaterOperationsGetNothing`.

What becomes of the blocks is a second invariant on top of it, `OutInv`:

- `AtWork`: one handler per block handed out, and a callback that runs is the one that
  the last block went to;
- `Memories`: the memory of an output block is what its handler makes of the bytes read
  of the input block so far (`MadeOf`), and behind it what nobody has written. Bytes
  that are read are appended to those seen (`WindowGrows`), what is written to what was
  made (`WriteMore`, with growing memory), and the two agree because every callback
  makes the same of some bytes as of their pieces one after the other (`ApplyToBoth`;
  for "odd" that is an induction, `OddOnesOfBoth`). So the size of the reads does not
  matter;
- `OnDisk`: while `dach_pipe_tofile` runs, the output file has the first `current`
  blocks of what is expected, and when `fwrite` fails a part of the next one
  (`Written`, `BetweenParts`).

`OutputIsWhatHandlersMade` (`OutputIsFirstOperation`) follows.

**InfoProofs**, for every radix of at least 2, any number of blocks of any size, every
cut and every damaged header. `NumberRoundTrip`: the four digits
of a number below the fourth power of the radix give it back; the quotient left
for the last digit is small enough because dividing divides the bound
(`SmallQuotient`, three times). `HeaderRoundTrip` follows field by field, with
`model` as the exception it is in the code. `Layout` says, from `FlattenParts`, that
the header of block i + 1 is at `Boundary(i)`. `InfoInv` (`Made`, `Listed`, `Walked`):
the walk is at the boundary of the blocks it has listed, which
are the first ones, and the header in its hands is the next one. From it follow
`InfoTypes`, `ReadsOnlyHeaders`, `OnlyWrittenBlocksListed` and `WholeFilesListed`;
the last uses that boundaries grow, so that the walk ends only where a header is
damaged or behind the last byte, and that is behind the last block if nothing was cut.
`InfoAssumption` has `ID2 # 0` (it is `'J'` in the code): a header damaged
in that byte is then no header.

**CommandProofs**, for lines of any length, all numbers and all widths of int
and size. `LineInv`: `todo` is the rest of `argv` (`Line`), the words before it were
acceptable, no option among them twice, and `given` are the options among them
(`Accepted`), `ai` has the argument of the word that brought it (`Arguments`), and the
later stages have the configuration that follows from these (`Stages`,
`Configured`); a line that was refused is not a good one (`Refused`). `CommandTypes`,
`OnlyGoodLinesRun` and `OptionsArrive` follow; the words of a line that runs are exactly
those that have been read (`LineIsRead`), and an int keeps a number that fits
(`ToIntKeeps`). `CommandAssumption` has `SizeMod >= 2 * IntHalf`, because a `size_t` is at
least as wide as an `unsigned int`.

**How long the loops take.** The prover cannot conclude that something eventually
happens, but it can check what such a conclusion rests on: a natural number, or a pair
of them compared lexicographically, that every step makes smaller.

- `UpdateGetsShorter` (Ppm0): `UpdateLeft` counts the swaps and then the rest of the
  loop; an update begins with less than `2 * SymCount`.
- `NormalisationDoubles` (FileCodec): an iteration doubles the interval, and the
  interval has at most `2^WordBits` points.
- `PairComesNearerToItsEnd` (FileCodec): `Ahead` counts the stages of each symbol in
  both programs, `InLoop` what is left of the loop of the present stage: the two
  measures above, or the bits of the first word. A loss of code can only happen once.
- `SearchGetsShorter` (Substr), `LineGetsShorter` (Command) and `WalkGetsShorter`
  (Info): a number each; info's uses that a block is only listed if it was
  written (`ListBlockStep`).
- `PipeComesNearerToItsEnd` (Pipe): `RunLeft` counts operations and blocks, `LoopLeft` the
  bytes of the file that have not been read, or the output blocks not yet written.
  It does not speak of the stages in which the program waits for its user.

fdb has no such theorem: the number of entries ahead of its walk is a sum over a tree,
which is an induction over data, and two processes share its steps.

Every invariant and every action property of the passing runs is a theorem, and so is
the safety part of both refinements. **Only model-checked** is liveness
(`UpdateTerminates`, `Terminates`, `PipeEnds`, the three `Ends`, and the leads-to of
`ImplementsTransfer` and `ImplementsTable`). The measures show that none of the loops
goes on for ever; that a step is taken where one is possible, which is the other half,
rests on fairness and `ENABLED`, which are out of the prover's reach. The four
violations of section 4 are counterexamples that TLC finds on small instances.

The parts of `Faithful` that speak of streams quantify over infinitely many of them, so
TLC cannot evaluate it; what TLC checks is what follows from it.

## 6. Not modelled, and why

- `malloc` and `read` failures in the coder and in blocks: the code tests
  few of them and exits at once where it does. Writes that fall short are modelled.
- Code files with damaged words: nothing in the code detects them, and the
  decoder's output is then arbitrary by design. Files that end early are modelled.
- Overflow of the 64-bit product `range * cumfreq`: needs `scale > 2^32`, which the
  precision excludes long before.
- File names: the output name is built with `strcat` on memory that is not
  initialised (`dach.c`); no property here is about names.
- The assertion on a block's owner thread (`DACH_M_BLOCK_THREAD_ASSERT`): the only
  thread that uses blocks is their creator, so it holds.
- `dach_new_arcoder_` (a coder over a block), the stream threads with their queue, and
  what `write_to_stream` would put into a file: reachable from `estream` and `dstream`
  only, which fail before; and nothing ever sets the `outfile_stream` that
  `write_to_stream` writes to. So no two threads ever call `new_block`, whose todo asks
  for a lock (`dach_stream.c:606`).
- The other entries of the generated parser (from strings, from configuration files),
  which `main` does not call, and what `getopt_long` makes of abbreviations and of
  `--`.
- `dach_find_sym_bin` and `dach_rescale`: commented out or never called.
- `dach_get_arg` (`dach_command.c`), the perfect hash (`dach_gperf.c`), the lock: never
  called. Error texts (`dach_error.c`, `dach_error.h`): no state.

Size of what is left: of 14,813 lines in the implementation files 8,688 are the
vendored `sqlite3.h`. Much of the rest is declarations, generated code
(`dach_cmdline.c`, `dach_gperf.c`) and code that is commented out: large parts of
`dach_stream.c`, lines 556-758 of `dach.c`, and parts of `dach_command.c`,
`dach_io.c` and `dach_ppm0.c`. What runs and has state of its own is in the modules.

## 7. Plan

The models and the proofs of their safety are done. What could be added:

1. A measure for fdb's walk and workers, for trees of a given depth.
2. The stream threads, should `estream` and `dstream` come to run.
