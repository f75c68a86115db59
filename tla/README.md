# Verification of the programs of this course repository

The repository holds the tasks of an operating-systems course (`tasks/`): small C and
assembly programs, each with a driver, wrappers and tests; `nejudge/test.py`, the script
that checks the style of a solution, runs it and judges it; and the plugin by which the
course's checker starts a build and that script. This directory holds TLA+ models of the
parts with state worth exploring, TLC configurations that check them on small instances,
and theorems about them checked by TLAPS. Paths below are relative to the repository's root.

## 1. The system and its parts

| Part | Source | State | Operations | What makes it correct |
|---|---|---|---|---|
| Plugin | `tools/plugins/make_test.py` | the build, `make` and its output pipe, a clock | build, test, timeout, verdict | full marks only to a run that passed in time; it ends whatever the solution does |
| Judge | `nejudge/test.py` | test and round, working directory, run directory, initializer's service, answers written | `main`, `run_solution`, `Initializer.__enter__/__exit__` | passes only without faults that count; tests do not see each other; a service is left running, or the directory changed, only after a start or stop command that failed |
| Interactive test | `test.py:481-511`, `files/read-file-fd/interactor.c` | two pipes, buffers of the interactor, the ends each process holds open | read, write, close, exit, wait of three processes | the solution gets the whole input, its whole output is judged, nobody waits for ever |
| Style check | `test.py` (`check_style`), `nejudge/tools/run-clang-format.py` | files, required patterns found, two pipes to clang-format | format, ask, fix, search | passes exactly what follows the rules; leaves files formatted and their owner's; ends |
| .inf parser | `test.py` (`parse_inf_file`) | the dictionary so far | one entry, one word | later settings win; what cannot be understood is refused |
| Linked list | `c_advanced/push-pop-dlink-list` | nodes in the heap, a cursor | `push`, `pop`, moves, failing `calloc` | one list with mutual links and a live cursor |
| Allocator | `c_advanced/allocator` | program break, blocks, free list, blocks the driver holds | `alloc_mem`, `free_mem` | disjoint blocks, large enough; a block is free or held, not both |
| Collector | `c_advanced/gc` | object graph, stack, list of records with marks | `gc_malloc`, `gc_collect_impl`, finalizers | frees all that is unreachable and nothing else |
| copy-file-fd | `files/copy-file-fd` | position in the input, buffer, bytes written | `read`, `write` | no byte lost, repeated or reordered |
| read-file-fd | `files/read-file-fd` | growing buffer, capacity, memory held | `read`, `realloc`, `malloc` | content right, in bounds, no leak |
| Checksum | `files/read-file-fd/sha256.c` | a block being filled, the length | `sha256_update`, `sha256_final` | the blocks are the padded file |
| binary-reverse | `files/binary-reverse` | the file, the pair in memory | `pread`, `pwrite`, overflow test | right or refused; a failure damages at most one record |
| binary-tree | `files/binary-tree` | the calls of the recursion, the keys printed, the reads counted | read a node, descend, print | descending, whole, or an error |
| write-char | `files/write-char` | output buffer, input buffer | `writechar`, `flush`, `read` | nothing lost, full writes |
| binary-search | `asm_2/binary-search` | the range | one probe | finds 40 in the mixed order |
| Small algorithms | `c_basic`, `c_advanced/{func-table,utf-wc}`, `asm_1`, `asm_2` | none beyond the call | – | result equals its definition |
| Headers | `nejudge/include/checker.h`, `tasks/common-files/include/simpleasan.h` | a line buffer and an array of lines; an mmap and a protected page | read and normalize a file; `malloc_protected`, `free_protected` | lines are the file, in bounds; the buffer ends where the inaccessible page begins |
| Support | `nejudge/include/{testinfo,checker2}.h`, `nejudge/tools/xml2md.py`, build files | none | – | – |

The parts interact through processes and files. The plugin starts `make`, which compiles a
solution and starts `test.py`; the plugin collects the output over a pipe and kills `make`
when time is up. `test.py` checks the style through a wrapper around clang-format, then starts
the solution with its input on stdin, or connects it by two pipes to an interactor; an
initializer may keep a service beside it; the exit code, the output and the user time
decide. Inside a task the driver (`main.c`) calls the solution's functions, and link-time
wrappers (`wrappers.c`, the `__wrap_` functions of `main.c`) make calls short, make them
fail, or count them.

What is hard here: three processes and two bounded pipes in the interactive tests; two
pipes read one after the other in the style check; a timeout that kills one process of
three; short reads and writes and failures at every call in the file programs; pointer
structures changed step by step (list, free list, records of the collector) with memory
that is reused; a callback in the middle of the collector's sweep; unsigned arithmetic at
its limits; and, in the judge, exceptions that leave in the middle of a test.
`PROJECT.json` lists each of these hazards at its line with the properties that cover it.

## 2. Modules and code

Pointer structures, each with what it promises:

* `CursorList` – what the list program promises: a sequence and a cursor.
  `DList` – the same program over nodes. `next`, `prev` and `value` are functions over the
  live addresses; `calloc` may return any address not in use, or fail. `NextAfterPush`,
  `PrevAfterPush`, `NextAfterPop`, `PrevAfterPop` are the links written by `push` and
  `pop`; the actions are the commands of `main`. `ImplementsCursorList` is the refinement.
* `Heap` – what the allocator promises: each request is answered, with NULL or with a range
  that is large enough and meets no range in use.
  `FreeListAllocator` – `alloc_mem` split where its loop is: `Call`, `TakeFit` or `Skip` for
  one free block, `NoFit`, and `Fail` or `Grow` at the end. `free_mem` is `Free`. The driver
  holds at most one block per slot. Sizes are words modulo `Modulus`: `MayGrow` has the code's
  unsigned subtraction, and `sbrk` is given the `Signed` value. `ImplementsHeap` maps a
  block to the range of its body; for it a request is pending from `Call` to the answer.
* `Reachability` – which objects words can reach, conservatively: `Closure` is the least set
  that is closed under pointers, as the marking computes it whatever its order.
  `ObjectGraph` – the
  memory as the program sees it, without a collector: objects exist while they can be
  reached, and nothing changes one behind the program's back.
  `MarkSweep` – the driver's commands (`Allocate`, `DropVariable`, `SetReference`,
  `ClearReference`) and a collection: `Start` (clear and scan the stack), `ScanRecord`,
  `EndPass`, then `Keep`, `CallFinalizer`, `Release`. Places are addresses, a word of an
  object is one place, and a word may hold the place after an object's last, which still
  counts as a pointer to it. `AllocateInFinalizer` is a finalizer that calls `gc_malloc`,
  allowed when `allocating` was chosen at the start. `ImplementsGraph` maps the program's
  memory to its reachable part, so that a collection is invisible.

Programs on files and numbers:

* `CopyFile` – `copy_file`: one action per outcome of `read` and `write`.
* `ReadFile` – `read_file`: `Read`, then the bytes stored in place, or `Grow`, one `Double`
  per turn of the loop that finds `newCapacity`, and `StoreGrown`; every failing call; and
  `block`, the memory held, which is the model's own account (the wrappers in `main.c` count
  the calls and make them fail).
* `BinaryReverse` – `main` over a file of records `[x, y]`; a pair is read, transformed and
  written back by two writes of which each may stop short or fail.
  `marshall`/`unmarshall` are the conversions between signed fields and the stored unsigned
  ones; `Overflows` is the code's test.
* `BinaryTree` – the recursion of `print_descending` as a stack of frames; `reads` is the
  counter of `wrappers.c`, which aborts a program that made fewer than `MinReads` reads when it exits.
  `Subtree` is the least set of nodes closed under children, and `TreeAssumption` says what
  the task says of its files: the keys left of a node are smaller, those right of it larger.
  A file may be cut short and hold records that no node refers to.
* `WriteChar` – `writechar` and `flush`, driven by `_start`.
* `BinarySearch` – `bsearch40`, one action per way out of a probe.
* `Numbers`, `Texts` – the small programs, each one step from the numbers or the text read to
  the answer: `satsum`, `average`, `fib_root`, `pow`, `whole_mul`, `double_loop` and
  `protected` (simpleasan); `normalize_path`, `mystrcmp`, `utf_wc`, `anagram`, `func_table`
  (with `read_token` and its growing buffer), the reading of files by checkers (`by_line`,
  `normalize_file`) and the blocks of a checksum (`sha256_update`, `sha256_final`). Loops
  are recursive functions of a record of the loop's variables, and C's `&` and `^` work from the lowest bit up; the width of an integer (`Width`), a
  page (`PageSize`), a block (`BlockSize`) and a buffer's first size (`FirstCapacity`) are
  parameters. `NumbersAssumption` is what the tasks say of their input: unsigned arguments for
  `satsum` and `average`, a -1 at the end and nowhere else for `whole_mul`, rows that are
  not empty and as many as announced for `double_loop` (`Rows`). `TextsAssumption` says it of texts: C
  strings for `normalize_path` and `mystrcmp`, UTF-8 for `utf_wc`, bytes other than 0 where a text is read
  as C strings, and for a checksum a file whose length in bits fits in the place for it.
  `NumbersRight` and `TextsRight` hold the definitions that the answers are compared with, written
  without the code's loops; `TextsRight` has a part for each task:
  * `PathRight`: of each run of slashes the first is left;
  * `ComparedRight`: strings are ordered as the numbers in base 256 whose digits they are;
  * `CodePointsRight`: the characters counted are those that were encoded;
  * `AnagramRight`: the letters of one line can be matched with equal ones of the other;
  * `FunctionsRight`: a line per pair of a name and a number, the name in a buffer with room for it;
  * `LinesRight`: a checker's lines are the file, its buffers have room for them, and what it
    compares are the lines without the white space at their ends;
  * `BlocksRight`: the blocks are the file, one bit, zeros and the length.

The judge:

* `StyleCheck` – `check_style` as a loop over files (`Script`), with `run_clang_format` and
  the fix after a question, whose owner and mode may not be restored (`NotRestored`); `Wrapper` is `run-clang-format.py`, which reads all of
  clang-format's output and then all of its errors; `ClangFormat` writes to the two pipes.
* `InfFile` – `parse_inf_file`: `Entry` for a variable of the environment or a line,
  `Word` for one `NAME=value` of it. `find`, `slice`, `strip` and `split` are Python's, -1
  for "not found" and negative indices included.
* `InteractiveRun` – the runner (`SpawnSolution` ... `Finish`), the interactor's `select` loop
  (`IntSelect`, `IntRead`, `IntWrite`, ...) and a solution that reads, writes and exits along
  a plan, over two pipes of `PipeSize` bytes. A process that closes or leaves gives up its ends.
* `JudgeRun` – `main` and `run_solution`: `Enter` and `Leave` are the context manager and the
  run directory; either of the initializer's commands may fail (`failed`), a start with or
  without having started the service, a stop (`StopFails`) as a warning or as an exception of
  its own; `RunRaises`, `SolutionEnds`, `NoOutputFile`, `Accepted`, `Rejected`,
  `InTime`, `TooSlow` the steps of one test, `NextTest`, `NextRound` and `Pass` the loops.
  `file` is the output file in the run directory, which may be left from an earlier run.
* `MakeTest` – extends `JudgeRun` by the plugin and `make`. `Timeout` kills `make` alone;
  a `test.py` that it had started runs on; a process that a solution leaves behind
  (`LeaveBehind`) holds the pipe on which the plugin collects the output.
* `InteractiveJudge` – `JudgeRun` composed with one `InteractiveRun` per test: at `Enter` a
  session begins, and the judge's next step is what the session came to.

`Programs` starts one of `BinarySearch`, `BinaryTree`, `WriteChar`, `BinaryReverse`,
`StyleCheck`, `InfFile`, `Numbers` and `Texts`, as the judge starts a program; it lets one
run check programs that share no state.

`MC*` modules give instances for TLC; `*Proofs` hold theorems. Definitions below a comment
`Mutated:` are plausible wrong versions of the definition that follows; `PROJECT.json`
pairs each property with the one that breaks it. `PROJECT.json` also maps every definition
to its source lines.

## 3. Runs

| Run | Instance | What it shows |
|---|---|---|
| `dlist` | 4 addresses, 2 values, 3 printed results | links, cursor and refinement of `CursorList` under every sequence of commands. Four nodes give a head, a tail and two neighbours in the middle; addresses are interchangeable, so they are symmetric |
| `allocator` | 64-value words, limit 16, 3 slots | reuse from the head, middle and end of the free list, exact and larger fits, refusal at the limit and at rounding; the refinement of `Heap` |
| `allocator_wrap` | the same with every size, so that `NoWrap` fails | finding 1 |
| `mark_sweep` | 3 places for objects, 3 variables, 3 objects of 0 or 1 word | all graphs of three objects incl. cycles and chains in either order of the records, which takes more than two passes; the refinement of `ObjectGraph` |
| `mark_sweep_finalizer` | the same with two variables | finding 2 |
| `copy_file` | buffer of 4, inputs up to 6 bytes | every split into reads and writes, across one buffer boundary |
| `read_file` | buffer of 3, files up to 10 bytes | in-place and grown stores, a capacity filled exactly, every failing call |
| `read_file_first` | the same | finding 3 |
| `programs` | see below | eight programs step by step, and the small ones against their definitions |
| `inf_env` | the same | finding 4 |
| `interactive` | 2 tests, 2 inputs, 5 plans, pipes of 2 bytes | a judge with one session per test: full and empty pipes at either side, a solution that ignores its input, ends early, or floods its output; an interactor or a start that fails; processes of an abandoned session that are still running |
| `judge` | 2 tests, 2 rounds, all 96 options, the plugin | every way out of every step, start and stop commands that fail at any test, a timeout at any moment, a process left behind at any test |

The instance of `programs`: arrays of up to 5 elements; all search trees of 3 nodes, one of 7,
and each of these files cut short, with 2 reads required; buffers of 3 and 4 characters for
write-char; files of up to 4 records with a 2-bit `x` and a 3-bit `y`, factors -2 to 2, so
that there is no, one, an even and an odd number of records and either overflow; up to two
source files of every kind, under every set of rules, with pipes that hold 2 lines, less
than clang-format prints; every pair of `.inf` entries and the triples that define
variables; 4-bit integers, with every pair of summands and every root asked, so every carry
and wrap occurs; texts of up to 6 characters, where a first buffer of 2 grows once and twice;
code points at both sides of each change of length and of the Cyrillic block; one page more
or less for protected buffers of 1 to 13 bytes in pages of 4; and 0 to 17 bytes in blocks of
8 for the checksum, whose padding takes one block or two.

Each instance is the smallest in which the cases named occur, with one more of each actor
or element where a property relates two of them. Counters that the code does not bound are
bounded by a constant in a guard or in the set of inputs: `MaxPrinted`, `MaxBrk` and
`Limit`, `MaxAllocs`, `MaxLength`, `MinReads`, `PipeSize`, `PipeLines`, `TestCount`,
`Retests`. `CHECK_DEADLOCK FALSE` is set where the program ends, and only there: the
allocator's driver never does in the model.

**Fairness.** A sequential program runs on, so `CopyFile`, `ReadFile`, `BinaryReverse`,
`BinaryTree`, `WriteChar`, `BinarySearch`, `StyleCheck`, `InfFile` and `JudgeRun` have weak
fairness of their step; `FreeListAllocator` of the steps inside `alloc_mem` and `MarkSweep`
of those of a collection, not of the driver's commands. `ProgramsSpec` has weak fairness of
its step: a program that was started goes on. In `InteractiveJudge` the judge, the runner, the
interactor and the solution have weak fairness each, as the scheduler gives it; a read that
would block is not enabled. A solution of the interactive test is assumed to go on along its
plan; in `MakeTest` nothing at all is assumed of the solution, of `test.py` or of `make`, only
that the plugin's build and its timeout come. The liveness properties are `ProgramsEnd`, `EventuallyJudged`,
`PluginEnds`, `CollectionEnds` and, through `ImplementsHeap`, `Heap`'s `Answered`.

`ErrorsFit`, an assumption of `Programs`, is what the wrapper's comment hopes for
(`run-clang-format.py:188`): clang-format's errors fit in a pipe. `ProgramsEnd` holds for the
style check under it, while the output may be longer than a pipe.

## 4. Findings

1. `allocator/solution.c:61`: the limit test wraps around for a size close to `SIZE_MAX`; the
   break is lowered and a block smaller than requested is returned (`allocator_wrap`).
2. `gc/solution.c:133`: a finalizer that allocates while the link is the list's head loses
   the new record (`mark_sweep_finalizer`). `mark_sweep` shows everything else to hold with
   such finalizers, and the records to be exact without them.
3. `read-file-fd/solution.c:38`: the first allocation is 8192 bytes when the first read is
   full, where the task asks for at most 4096 (`read_file_first`).
4. `test.py:600`: a word without `=` in `environ`, `compiler_env` or `interactor_env` becomes
   a variable, where the exception beside it was meant for it (`inf_env`). `InfRight` says what
   the parser does with all other entries.

Two disagreements are not stated as runs: `EJUDGE_REAL_TIME_LIMIT_MS` is named in
milliseconds and read as seconds (`test.py:569` and `580`), a matter of its unit, which no
model here has; and the assertion of `binary-search/main.c:19` is weaker than the
order the task guarantees. `BinarySearch` starts with every array that the assertion
accepts; `ResultRight` promises a right -1 only for the guaranteed order, while the bounds
and `Halves` hold for all.

## 5. Proofs

Constants are arbitrary except for the assumptions named in each module.

* `DListProofs`: `TypeCorrect`, `NodesStayWellFormed`, `CursorStaysLive`, `NodesAreAList`, for
  any finite set of addresses (`MaxPrinted` any number). The links being mutual is not inductive alone: `pop` of
  a node whose neighbours' links are not closed over the live nodes could leave one into
  freed memory, so the invariant also says that links lead to live nodes. That the nodes form
  *one* list is stated without reachability: a set of live nodes that is closed under both
  links and not empty is the whole heap; and that there is no cycle by the same device. Both
  survive `push` and `pop` because a closed set after the step gives one before it.
  `NodesAreAList` is the refinement of `CursorList`. `Ordered` adds to the invariant that the
  live nodes can be numbered along the links (`InOrder`); `InsertOrder` and `RemoveOrder` give
  the numbering after a `push` and a `pop`, and `InsertedValues` and `RemovedValues` turn it
  into the sequences of `CursorList`. The mapping walks the list by a recursive function;
  that it meets the numbering (`NodesInOrder`) needs no induction, as the nodes at which the
  two differ would be a set with no first one, which `NoCycle` excludes.
* `CopyFileProofs`: `TypeCorrect`, `CopyLosesNothing`, `CopyResultRight`. The invariant ties
  the output to the input by positions: what is in `out_fd` is the input up to the bytes read
  less what is left in the buffer, and the buffer is the part of the input before the
  position. The type invariant is proved and is not a property of the run, whose two
  properties imply what matters of it.
* `ProgramsProofs`, about the programs that `Programs` starts, all but those of
  `Numbers` and `Texts`, so that the theorems are of `ProgramsSpec`. Each program has an invariant of the form "if it is the one started ...".
  * binary-search: `ProbesInBounds`, `SearchRight`, `SearchHalves`. `ResultRight` is
    not inductive; `NotMissed` strengthens it: while the search goes on 40 can only be in the
    range. `NotToTheLeft` and `NotToTheRight` are the two uses of the mixed order.
  * write-char: `CharactersArrive`. `OnTheWay` says that output, buffer and what is left of the
    last read are the input, `Fullness` how full the buffer is at each step.
  * binary-reverse: `ReversalRight`, `ReversalLosesOne`, for any number of records and widths
    of the fields. `Pairs` tells for each record, by its distance from the pair in work, whether
    it is still the old one or already the transformed mirror image; `OneAtRisk` that only
    the record at `counter` may be neither. That a sum which passes the overflow test is
    stored and read back unchanged is `TransformExact`.
  * binary-tree: `TreePrinted`, on every tree that satisfies `TreeAssumption`. A node is in
    the subtree still to be read, in a frame with its key to come, or printed (`Handled`);
    what is printed exceeds all that is not (`Larger`); and each frame that waits for its
    right subtree has the frames above it in there (`Nested`), which is why a key can be
    printed at once. `Counted` relates keys to reads, for the abort at the exit.
  * style check: `StyleChecked`, for any files and rules of the shape `StyleAssumption` gives
    them. `FilesDone` says what holds of the files behind the loop, `FileAtHand` why the
    current one is where it is, and `OwnersKept` that only a file clang-format has just
    rewritten is not its owner's. `ErrorsFit` is not used: it is what makes the check end.
  * .inf parser: `InfParsed`, for any entries with sequences of characters as values. The
    invariant, `InfSound(n, words, meta)`, is about the parser before entry `n`: what it has set
    is what the entries before `n` set (`InfSettings`); an entry behind it that is to be refused
    can only be the last, with the word that begins with '=' still to come (`InfRefusals`);
    and the words of each kind up to `n` are those its dictionary is made of, followed by
    those not yet parsed (`InfEnvs`). What `find`, `strip`, `split` and the slices return is
    proved first (`FindFacts`, `StripType`, `SplitWords`, `WordParts`, `QuotedParts`); that the words
    of all entries are joined entry by entry (`FlattenIs`) needs no induction: of the
    places where the library's recursive function differs there would be a first one
    (`LeastOf`). The reference counts only where all words define something; finding 4 is
    about the others.
* `OneStepProofs`, about `Numbers` and `Texts`, again as theorems of `ProgramsSpec`. The answer is
  given in one step, so the invariants `NumbersInv` and `TextsInv` add no more than that a task's
  question is one of its own; the work is in what each loop computes. `Recursion` says when a
  recursive definition has a solution: every call must be for something that a measure calls
  smaller. It takes the rule of the recursion as a function, since a lemma with an operator for a
  parameter could not be used here, and `MeasureInduction` is the induction that goes with it;
  `TailLoop` is their common use, for a loop whose state is a record, and `PrefixRecursion` the one
  for definitions along a sequence.
  * the number programs: `NumbersComputed`, for every width above one bit, page size and input of
    the kind above. `pow`'s loop keeps `r14 * r12 ^ r13` up to a multiple of the modulus
    (`ShiftedPower`), whatever wraps around; `And` and `Xor` are the carries and the sum
    without them (`CarriesAndSum`), so that half of one and the whole of the other is the
    mean; `fib`'s table holds the Fibonacci numbers and the next does not fit (`TableIs`), and the
    search in it keeps the last that is known to be small enough before the first that is
    known to be too large (`FibRootRight`); each round of `double_loop` starts behind as many ends as
    rows have been printed (`RowStart`, `RoundRight`).
  * the text programs: `TextsComputed`, for every text, table of names, first size of a buffer
    and size of a block of the kind above.
    `normalize_path`: what has been written is what is to be left of the characters read, and
    what is still to be read lies untouched behind it (`PathAt`, `PathGoesOn`). `mystrcmp`: the
    first bytes that differ decide between numbers in base 256 (`FirstDecides`), and the loop
    stops there or at the ends (`StopIs`). `anagram`: two lines can be matched exactly when each
    character's fibre is of the same size in both (`MatchedFibers`, `FibersMatched`). `utf_wc`: the
    bytes of each code point, with whatever follows, are read back as that code point
    (`EncodeDecodes`), and the loop is at the beginning of one after every round
    (`PartsOfJoined`). `by_line`: the lines so far and the one in the buffer are what has been
    read, and both buffers have room for one more and the 0 (`LinesRead`). `func_table`: the
    words and their places, cut as the reference cuts them (`Cut`), are what `read_token` returns from any
    place between two of them (`TokenIsWord`, `ScanNext`), so the rows printed from there
    on are right when those behind the next number are (`RowsStep`). `sha256`: the blocks and the
    bytes in the buffer are the file so far (`FedUpTo`), the padding fills one block or two
    (`PaddedIsRight`), and the bytes of the length are its digits (`LengthBytes`).
* `JudgingProofs`, first about `JudgeRun` and the plugin on top of it: `JudgeInvariant`,
  `StopsAtFirst`, `PassedIsPassed`, `IsolatedTests`, `AllAnswers`, `EarnedMarks`, for any
  number of tests and rounds. The invariant adds to the properties that inside the with block
  the service is the one just started (`ServiceRight`) and that the answers written so far are
  those of the tests done (`Written`); each property leans on the others, so all are proved at once. The plugin
  reads the judge's state and never writes it, so that `EarnedMarks` needs of the judge only
  that invariant. `IsolatedTests` says that a service outlives a test only after a stop
  command that failed, or as the last thing of a run after a start command that failed; that
  it never does holds only where every such command succeeds.
  Then about the judge with its sessions, in `InteractiveJudge`: `SolutionReadsInput` and
  `VerdictsAreRight`, for any inputs, plans and size of pipe. `Delivered` and `Captured` say
  where each byte is between the two processes, `Spawned` which process there is at each of the
  runner's steps, and `InputEnds` and `OutputEnds` who may see the end of a pipe and when: the
  interactor's last end is closed only after the whole input, and its loop is left only
  after all that the solution wrote. `Verdict` carries what the session came to through the
  judge's steps, and by `FaultsInOrder` no fault recorded so far is of a later test.
* `ReadFileProofs`: `FileContentRight`, `NothingLeaks`, `WritesInBounds`, `MemoryBounded`, for
  every size of buffer and file. The invariant adds `Progressing`, the positions in the file,
  and `Sized`: the block is as large as `capacity` says, and a capacity that is being doubled
  has not passed twice the file. That the doubling ends is an induction and stays with TLC.
* `MarkSweepProofs`: `OneRecordEach`, `MarkingIsComplete`, `FinalizersRunOnce`,
  `CollectionsAreComplete` and `CollectorIsInvisible`, for any memory and any order of the
  records. `Listed` says that the list has one record per allocation, `Spaced` that no word
  points to two of them, `ReachesObjects` that what can be reached has a record and no pointer
  that dangles. `MarksRight` is the invariant of the marking: only what can be reached is
  marked, and a pass that has set no mark so far has followed every pointer of the marked
  records behind it; so when it ends the marked set is closed, and the least such set is
  inside it. `SweepRight` says that the records the sweep has passed are marked and the one
  being freed is not.
  Reachability is used through two facts only: the closure is closed, and it is the least
  such set. `CollectorIsInvisible` is the refinement of `ObjectGraph`.
* `AllocatorProofs`: `NoOverlap`, `RequestsMet`, `FreeListIsExact`, `GrowsOnlyLast` and
  `AllocatorIsHeap`, each under `NoWrap`: the limit test means for `Sizes` what it is written
  for. That leaves out the sizes above the limit that pass the two tests before it: some of
  them are those of finding 1, for the others `sbrk` is asked for more than it has.
  `MCFreeListAllocator` assumes that the run's
  sizes satisfy it, and TLC evaluates that. Three strengthenings: `OnePredecessor` (no two links of
  the free list meet and none leads to its head, without which unlinking a block could cut
  off others), `InSearch` (the two pointers of `alloc_mem` are neighbours in the list) and
  `Passed` (any set closed under the links from `cur` on contains every free block that is
  large enough). `AllocatorIsHeap` is the safety part of `ImplementsHeap`: initial states
  and every step; that a request is answered is liveness.

Only model-checked: liveness (`ImplementsHeap` beyond its safety part, `CollectionEnds`,
`ProgramsEnd`, `EventuallyJudged`, `PluginEnds`) and whatever else needs ENABLED, which the provers do
not treat. Every safety property of a passing run is stated by a theorem or follows from one. Modules with
theorems use no RECURSIVE operator.

## 6. Not modelled

* `testinfo.h` and `checker2.h`: a vendored parser of test descriptions; in the repository
  only these headers include each other. The messages of `checker.h`.
* The compression function of SHA-256 and the base64 functions in `sha256.c`: a published
  table of constants and rotations, and code never called.
* Of `run-clang-format.py` directories, exclusions, colours and the pool of jobs, which
  `check_style` never uses; of `test.py` the building of the command line (users, limits,
  valgrind) and the ways of comparing an output, which are "accepted or rejected" here.
* `xml2md.py`, `gen.py`, Makefiles and the texts of the tasks.
* Tasks of `asm_1` and `asm_2` that are a single expression, and `simpleio`, which wraps
  three library calls.

Assumed of an initializer: a stop command that exits with 0 has stopped what ran, and a
service that runs till the end ends at the SIGINT that `__exit__` sends and waits for. Nothing
is assumed of a stop that fails or of a start that fails.

Assumed of texts and settings: numbers are written in digits where `func_table` reads them,
and time limits in an `.inf` file are numbers.

Data is abstracted: bytes are two values, keys and values small integers, file names and
wording absent, a pattern of the style check is a name that a text contains or not. Signals
other than those that end a process, and faults of the machine between two system calls,
appear only as a call that fails.

## 7. Plan

Written, in the order in which the parts matter: the pointer structures with what they
promise; the file programs; the judge, the interactive test and their composition; the
plugin; the style check and the parser; the small programs on numbers and
texts; the theorems about the list, the allocator, the collector, the file programs, the interactive
test, the judge and the small programs.

