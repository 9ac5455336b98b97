# Renzoku in TLA+

Renzoku (`src/`, C++) watches the tree below its current directory with
inotify.  When a file that a filter of `renzoku.conf` matches is modified it
runs the project's build command, its test commands and, if the build went
well, replaces the running program by a new one.  This directory holds a model
of that program in TLA+, the TLC runs that check it on small instances, and
theorems about it that TLAPS proves for every value of the constants.

    tlc -workers 2 -config ProcManRun.cfg MCProcMan      one run
    tlapm ProcManProofs.tla                              the proofs of a module

`PROJECT.json` lists the components, runs, mutants, findings, hazards and
theorems, and maps every definition to the lines of the source it stands for.

## 1. The system

    main() --constructs--> Config --addProcess, setProgram, setBuilder--> ProcessManager --owns--> Process...
      |                       ^                                               ^
      | while(gRunning)       | restartProcesses()                            | restartAll, killAll
      +--listen()--> Watcher -+--------------------- rebuild: mBuilder->runAndWait()
    SIGINT --> stop_program(): gRunning = false        (kernel: process table, inotify queue)

Renzoku has one thread.  It is concurrent all the same: with its children,
with the other processes that compete for pids, with the user who saves files
through inotify's queue, with the user who changes the tree while it is
scanned, with its own SIGINT handler, and with the children's copies of its
output buffer.

| component | state | operations |
|---|---|---|
| **Process** (`process.cpp`) | `mCommand`, `mProc`: 0, -1 or a pid, never reset | `run` (fork, then a `waitpid(WNOHANG)` after 10 µs; the child joins the arguments and calls `execvp`), `runAndWait` (run, then `waitpid`), `kill` (probe with signal 0, SIGTERM, `waitpid`), destructor (kill) |
| **ProcessManager** (`procman.cpp`) | `mBuildStep`, `mProgram` (may be NULL), `mProcesses` (the tests) | `restartAll` (halt tests, build, tests, halt program, start program), `killAll`, the setters, destructor |
| **Watcher** (`watcher.cpp`) | the inotify descriptor, `mBuffer`, `mTimer`, the filters | constructor (`watchDirectory`, `recursiveWatch`), `listen` (select, read, filters, cooldown, `rebuild`, `restartProgram`), destructor (`removeAllWatches`, `killAll`) |
| **Main loop and signals** (`main.cpp`, `signals.cpp`) | `gRunning`, the `sigaction` structure | install the handler, loop, destroy; the handler clears `gRunning` and reinstalls itself |
| **Config** (`config.cpp`) | `mProgram`, `mTest`, `mCompile`, each reused by all sections of its kind | `findConfig`, `parseConfig`, `parseCommand`, `parseWatcher`, `restartProcesses`, destructor |
| **Util** (`util.cpp`) | none | `listDir`, `parseCommand` (split a command), `strMatch` (filters) |
| **Logging** (`log.cpp`) | an output stream and its buffer | `print`, `printError`, of `StdoutLogger` and `FileLogger` |
| **Prototype** (`oldwatcher.c`) | `gRunning`, `progpid`, a buffer of events | `watcher`, `rebuild`, `runprog`, `killprog`, `catch_int`: the C program Renzoku replaced |
| Tokenizer, `iConfigFile`, `CException` | | a stub, an unused interface, a message |

What is hard about each, and what makes it correct:

- **Process.** A child may exit between any two system calls, so `run()` may
  reap it before `runAndWait()` waits, `waitpid()` may fail with ECHILD or, if
  the handler was installed without SA_RESTART, with EINTR, and the child may
  be gone between the probe and SIGTERM.  A pid may be reused once it is reaped
  while `mProc` still names it.  Correct means: `runAndWait()` answers what the
  child exited with (`WaitVerdict`), `kill()` leaves no child and no zombie
  (`KillReaps`) and signals nobody else (`SignalsOwnChild`); in the child, two
  loops agree on the size of an array (`ArgumentsFit`).
- **ProcessManager.** `run()` overwrites `mProc`, so a call in the wrong order
  loses a child for good; fork can fail anywhere in the pipeline; a change is
  built twice; NULL steps; SIGINT at any point.  Correct means: one child per
  object, only the program survives a call, nothing survives `main()`, nothing
  is relaunched without a successful build, the running program is terminated
  for no other reason, and every change and every SIGINT is served to the end.
  All of that together is `ImplementsPipeline`.
- **Watcher.** Saves go on while a build runs; inotify merges and drops events;
  one `read()` returns only some of them; several filters may match one event;
  the cooldown refuses matches.  Correct means: Renzoku never goes back to sleep
  with a stale program unless there is a reason for it (`Accounted`), and the
  program that runs was really built from those files (`UpToDate`).
- **Scan** (`Watcher`'s constructor over `Util::listDir`).  The type of an entry
  is read by bare name, in the wrong directory, or left over from the entry
  before; the tree changes meanwhile; watches run out; a directory, or the
  current directory itself, cannot be opened or named.  Correct means: what is
  not affected by that is watched, no file is whose name is known to be that of
  a file, and the recursion follows the tree and ends.
- **Config.** Sections of one kind share a structure, so they inherit from one
  another.  Correct means: what the sections ask for is registered in its role,
  in their order and as often, with what they inherit (`RegistersSections`), and
  a file is refused at its first bad section and not otherwise
  (`RefusesExactly`).
- **Util.** Index arithmetic: a character skipped after every space, an
  unsigned -1.  Correct means: no character of a command is lost, it is known
  where it is cut (`CutAtSpaces`) and what a filter matches, with an asterisk and without one
  (`FilterMeaning`).
- **Logging.** `fork()` copies what is in a buffer, `exec` drops it and `exit()`
  writes some of it; errors and other messages take different streams.  Correct
  means: nothing is lost, repeated or put in another order.
- **Prototype.** A failed `execvp()` makes a second watcher, a failed `fork()`
  leaves garbage in `progpid`, and the first SIGINT interrupts whatever waits.
  Correct means: a watcher still knows its program, signals nobody else,
  replaces it only after a build, and ends.

## 2. The modules

| module | models | state and actions |
|---|---|---|
| `Process` | Process, and the kernel's process table | One action per system call of a method (`ForkFails`, `ForkChild`, `Peek`, `Wait`, `Probe`, `Term`, `KillReap`); `at` is the next one, `fn`, `this`, `ret` the method, its object and its result.  `state` and `forkedFor` are the kernel's view; `Exit`, `ForeignStart`, `ForeignExit`, `Interrupt` the environment. |
| `ProcMan` | ProcessManager, `Watcher::rebuild`/`restartProgram`, the SIGINT handler, the destructors after `main()`'s loop | EXTENDS `Process`: the manager's actions (`Change`, `Halt`, `RunTests`, `Quit`, ...) only invoke a method (`Begin`) or look at its result, the system calls are the actions of `Process`.  `phase` and `i` are the place in the pipeline.  A method of a NULL object leads to `crashed`. |
| `Pipeline` | what the two promise the project's owner | The abstract specification: one helper (a build or test) and one program, no objects, pids or system calls.  `Mistakes`, for which `ProcMan` puts `Recycle`, allows one action more (`Mistake`): the most that reused pids can do to the program.  `ProcMan` instantiates it with a refinement mapping (`StageBar`, `HelperBar`, `ProgramBar`, `BuiltBar`). |
| `Watcher` | `Watcher::listen` and `main()`'s loop, inotify's queue | `queue`, `buffer`, `k` (filters tried), `age` (seconds since `mTimer`).  A build is two steps, begin and end, because what matters is which `version` of the files it has `seen` when the user saves again. |
| `Renzoku` | the composition of `ProcMan` and `Watcher` | Each step of the thread is one of both modules (`Both`), one of the manager (`Manage`), one of `listen()` (`Read`) or a system call.  What `Watcher` leaves open, whether a build succeeds, is `ret` of the process that ran it.  `image` is the version a process was built from. |
| `Scan` | `watchDirectory`, `recursiveWatch`, `listDir`, `removeAllWatches` | `unread` and `st` are the state of one `listDir()`, `stack` the recursion; `WatchRoot` and `OpenDir` have the exceptions of `getcwd()` and `opendir()`; `Appear` and `Vanish` are the user. |
| `Config` | `findConfig`, `parseConfig` and the two parsers of sections, the manager's setters, the destructor | `Load` is what `YAML::Load()` and the first assertions let through, or an exception or abort; then one action per kind of section, where a value or key that cannot be converted throws.  A command, the array made of it and the Process made of that are known by the section's position. |
| `Util` | `parseCommand`, `strMatch` | A behaviour is one call; `ParseStep` is one turn of the loop. |
| `Launch` | both sides of the `fork()` in `run()`, the loggers | EXTENDS `Util`: the array it has cut is counted and joined by the child.  `buffer` is what each process has written and not flushed, `shown` what has arrived. |
| `Prototype` | `oldwatcher.c` | Functions of the process that executes them, because there may be several watchers; one action per system call. |
| `MC...` | | small instances and symmetry for TLC |
| `...Proofs` | | theorems and proofs of the module they are named after |

`ProcMan` and `Watcher` look at the same pipeline from two sides.  In `ProcMan`
a change is a decrement of `pending`, and the system calls it leads to are
explicit; in `Watcher` where changes come from is explicit and the pipeline is a
few steps.  `Renzoku` puts them together again: its behaviours are behaviours of
both, which is proved, so that nothing shown of one part is lost in the whole.

Some definitions are commented as mutants: plausible mistakes in the code
(a dropped test, a missing reset, a swapped order).  None of them is used by a
specification; each, put in the place of the definition it follows, makes a
property fail, which shows that the property depends on the code.

### Abstractions

- What a build, a test and the program do is abstract: they run, and exit with
  status 0 or not (`exited`, `failed`), when they like or because of SIGTERM.
  A child whose `execvp()` fails is one that fails; how it gets there is in
  `Launch`.
- The kernel's pids are a set; `fork()` returns any free one and may fail.
  `Recycle` says whether a pid may be handed out while some `mProc` still names
  it (Linux does).  Processes of others exist only while they have such a pid:
  Renzoku cannot tell any other one.
- `main()` never initialises `sa_flags`, so whether the first SIGINT interrupts
  a `waitpid()` or restarts it is a choice of the initial state
  (`Interruptible`).  The handler reinstalls itself with `signal()`, which
  restarts, so only the first one can.  The prototype sets `sa_flags` to 0: there
  it always interrupts.
- In `Pipeline` an interrupted `waitpid()` ends every promise (`Interrupt`), and
  so does a project without a build command or a program (`Crash`).  With
  reused pids the program may be stopped too early (`Mistake`), though not before
  a build has succeeded.
- `listDir()` opens a directory only after `lstat()` of its path has left "dir"
  in `st`, or has failed and left garbage that looks like it; so `st` is "dir"
  when the first entry is read (`OpenDir`).  After that a failed `lstat()` leaves
  the type of the entry before.  A change of the tree between the `lstat()` and
  the `opendir()` has the outcome of one before the two.
- In `Config` a section is what decides about it: its name, whether it has a
  command, what it says of "enabled", and whether `as<std::string>()` or
  `as<bool>()` throws somewhere in it ("bad", "badWatch").
- A file name, a filter, a command are model values except in `Util` and
  `Launch`, where they are sequences over a small alphabet, and in `Scan`, where
  names of entries in different directories may be equal.
- `Launch` leaves out the wording, colour and time of a message.  `cerr` is tied
  to `cout`, as the standard says: what goes to it flushes what was said before.
  `exit()` flushes stdio but not a `FileLogger`, whose destructor does not run.
- In `Prototype` whether a name ends in `.sh` and the cooldown is over is open,
  and inotify's own calls do not fail.
- `eintr`, `succeeded`, `builds`, `passed`, `version`, `seen`, `running`,
  `excuses`, `image`, `full`, `stable`, `built` and `faults` are history
  variables: no action is guarded by one, except that `version`, `seen` and
  `running` are compared to decide whether an excuse still stands, and that
  `faults` bounds what fails.

## 3. The runs

| run | instance | shows |
|---|---|---|
| `ProcManRun` | build, 1 test, program; 2 pids, reuse and EINTR allowed | The whole pipeline and its end.  Of the methods: `WaitVerdict`, `KillReaps`.  Of the manager: `OneChildPerObject`, `OnlyProgramSurvives`, `BuildGate`; the program is stopped only after a build that succeeded (`ProgramSpared`) and the refinement holds (`ImplementsPipeline`), with reused pids, too.  With `OnlyProgramSurvives`, its `Leave` makes `NothingLeft`: no child remains when `main()` has returned.  Moreover each step of the thread is one of a limited number (`StepsCounted`); every change is served (`ChangeServed`), and SIGINT ends the program from any point (`QuitCompletes`). |
| `Renzoku` | build, 1 test, program; 4 pids, no reuse of a named one, EINTR allowed; 2 files, 2 saves | `listen()` and the pipeline together: `UpToDate`; `NeverStuck`, neither side waits for the other; `OneLeftBehind`, an interrupted `waitpid()` leaves no more than one child behind; `SignalsOwnChild`. |
| `WatcherLoop` | 3 files (two, one and no filter matching), queue of 3, buffer of 2, 5 saves, cooldown of 2 | `Accounted`: a stale program always has one of three reasons.  `QuietChangeBuilt`: a change that finds Renzoku asleep with the cooldown over is built.  `ListenBounded`: each step of `listen()` brings it nearer to its end, whatever is saved meanwhile.  `LoopEnds`. |
| `Scan` | 8 entries in three levels, 6 watches, 1 change by the user; the root and one directory may fail to open, `getcwd()` may fail | `WatchedUnlessShadowed`: what is watched in spite of the wrong types; `FilesUnwatched`: what is not taken for a directory; `Nested`, `ScanEnds`. |
| `Config` | every configuration of up to 4 sections | `RegistersSections`: exactly what the manager gets; `RefusesExactly`: which sections are refused, and that no others are. |
| `Launch` | every command of up to 7 characters, every filter of up to 4 with every name of up to 5; commands of up to 4 characters are run, with each logger | `ArgumentsJoin`, `CutAtSpaces`, `FilterMeaning`: what is cut and matched, against its meaning.  `ArgumentsFit`: the child stays within its arrays.  `TerminalOnce`, `NothingLost`, `FailureReported`: what the user gets to read. |
| `Prototype` | 4 processes, a SIGINT for every watcher; `fork()` fails once and whenever there is no pid, `execvp()` once | `ProgramKnown`, `SignalsChild`, `NoOrphan`, `ReplacedWhenBuilt`, `SigintEnds`; `WorkBounded`, only `read()` gives a watcher anything to do. |

The type invariants are theorems; the runs also check those that say more than the
types of the variables: `WTypeOK`, `STypeOK` and `LTypeOK`.

Five runs end in a violation on purpose.  Each checks one statement that the
repository's documents make of the program and that the code does not meet:

| run | statement | what happens |
|---|---|---|
| `ProcessForeign` | `SignalsOwnChild`: a Process manages its own subprocess | `kill()` signals a pid whose child was reaped long ago and that has since been given to someone else; `mProc` is never reset (`process.cpp:151`). |
| `ProcManBuiltTwice` | `BuiltOnce`: `debian/NEWS:6`, "build and test steps are merely run once" | `listen()` builds in `rebuild()`, and `restartAll()` builds again (`procman.cpp:97`). |
| `ProcManTestsIgnored` | `TestsGate`: `doc/README:14`, relaunch if the tests "all passed" | `runProcesses()` logs a failed test and returns true (`procman.cpp:67`). |
| `ProcManNoBuild` | `BuildOptional`: `doc/README:11`, build "if it is a project that needs to be built" | without a compile section `mBuilder` is NULL and `rebuild()` calls through it (`watcher.cpp:141`). |
| `ScanMissed` | `AllWatched`: `man/renzoku.1:9`, commands run "when underlying files change" | a directory that `readdir()` returns after an entry with the name of a file at the top is taken for a file (`util.cpp:60`). |

More weaknesses show inside the properties that hold.  `main()` leaves `sa_flags`
uninitialised (`main.cpp:48`), so that the first SIGINT may interrupt a
`waitpid()`; it then counts as success (`process.cpp:138`) and leaves a child
behind, and the tests and the relaunch may follow a build that still runs.  That is
why `WaitVerdict`, `KillReaps` and most properties of `ProcMan` say `~eintr`: they
promise nothing from then on, and say that nothing else breaks them.
`OneLeftBehind` does not exclude it: one child at most is left behind.
`ProgramKnown`, `NoOrphan` and `ReplacedWhenBuilt` of the prototype exclude it likewise, and `SigintEnds` the SIGINT that comes between the test of
`gRunning` and `read()`, which then waits for the next change of a file.  A match
met during the cooldown is dropped, not delayed (`watcher.cpp:119`), even if it
was saved after the build had read the files: that is the reason "cooldown" of
`Accounted`.  A filter without an asterisk matches more than its own name:
`FilterMeaning` says which.  And a quotation that begins right after a space, as
in `prog "a b"`, is cut at its spaces (`util.cpp:104`): `CutAtSpaces` says so by
leaving out the first character behind every space.

### Bounds, and why they are enough

- One pid fewer than objects (`ProcManRun`) means that fork must fail or pids be
  reused within one round: a pid goes from one object to the other, to a foreign
  process and back.  That the methods keep their promises in any order of calls,
  and with any number of tests and pids, is proved.
- Without reuse a pid is used up as long as an object names it.  With four pids
  and three objects (`Renzoku`) every object can always fork again.
- One pending match per buffer (`MaxPending` in `ProcManRun`): `pending` counts
  only the matches the cooldown lets through, so more than one means a second
  round before `listen()` returns, which is the same round again.  In `Renzoku`
  it is as many as a buffer can hold matches, so that it limits nothing.
- Two saves (`Renzoku`): one is being built while the other falls before, into
  or after the build, a test, the relaunch or the buffer.  Longer series are in
  `WatcherLoop`, and its bound of 2 on the queue makes it overflow.
- The queue, the buffer and the saves of `WatcherLoop` are such that the queue
  overflows with and without a build in progress, a buffer leaves events
  behind, events are merged, and saves fall before, into and after a build.
- The tree of `Scan` has a file shadowing a directory's sibling, a link with the
  name of a directory at the top, a directory whose name exists nowhere else, one
  below it that does not exist at first, and more directories (with the links
  and files taken for them) than watches, so that a watch can be refused.  The
  root and one directory below it may fail to open.
- Seven characters are enough for a quotation with a space in it, in front of
  and behind other arguments, two spaces in a row and a trailing one; four for a
  filter with text on both sides of one or two asterisks, with names that have
  asterisks themselves.  Four characters run
  are enough for two arguments, an argument that is empty and none at all.
- Four sections are enough for a section to inherit from one that inherited,
  with the two sections that every file must have.
- Three pids for the prototype's children: a program, a build, and a watcher
  that a failed `execvp()` has made, with one of its own of either kind.
- Everything but the methods of a `Process` really stops (an assertion, an
  exception, the end of `main()` or of a call), so deadlock is not checked.
  `NeverStuck` says instead that the thread only ever waits for a child.

### Fairness, and why the code justifies it

- The thread is scheduled (weak fairness on its steps).  It has no lock to
  compete for; a `waitpid()` that must wait is not enabled.
- A child that was sent SIGTERM exits, and so does a build or test that
  `runAndWait()` waits for.  The code has no timeout for either, so without this
  nothing can be shown; a child that ignores SIGTERM really hangs Renzoku.  A
  program left running need not exit by itself.
- The user need not save a file, and SIGINT need not arrive.  In `Watcher` time
  passes and the steps that stand for a build end, which is `ChangeServed` of
  `ProcMan`.
- The prototype likewise: its processes are scheduled, makes end, SIGTERM takes
  effect.  `read()` is not fair, because nobody has to change a file.

## 4. The proofs

`tlapm` checks all of this with no assumption but the named ones about
constants: a pid is neither 0 nor -1 (`PidAssumption`), NULL is no object
(`ObjAssumption`), the flags are Boolean (`FlagAssumption`), the roles of the
objects are different (`RolesAssumption`: `parseConfig` makes a new Process for
every section), what a tree of files is (`TreeAssumption` and its neighbours in
`Scan`, among them that it has no cycle), the characters with a meaning are
different from each other and from the rest (`CharAssumption`), and the sizes
are natural numbers.  In `Renzoku` the bound of `ProcMan` on the matches of one
buffer, `MaxPending`, is as large as a buffer needs (`EnoughPending`): it is a bound of
the model, and with this it limits nothing.

| theorem | says, for every value of the constants |
|---|---|
| `TypeCorrect`, `PMTypeCorrect`, `WTypeCorrect`, `CTypeCorrect`, `STypeCorrect`, `PTypeCorrect`, `LTypeCorrect` | the type invariants |
| `VerdictCorrect` | `Spec => []WaitVerdict`, that is, until a `waitpid()` is interrupted |
| `KillCorrect` | `Spec => []KillReaps`, likewise |
| `SignalsCorrect` | `Spec => SignalsOwnChild` if `~Recycle` |
| `OneChildCorrect`, `SurvivorsCorrect`, `NothingLeftCorrect` | no child of the manager is ever lost, unless a `waitpid()` was interrupted |
| `BuildGateCorrect` | tests and relaunch follow a successful build, unless a `waitpid()` was interrupted |
| `SparedCorrect` | `PMSpec => ProgramSpared`, with and without reuse of pids |
| `PipelineCorrect` | `PMSpec => ImplementsPipeline`: the refinement, with and without reuse |
| `StepsCountedCorrect` | `PMSpec => StepsCounted`: how much the thread has still to do, for any number of tests |
| `AccountedCorrect` | `WSpec => []Accounted`: for any files, filters, queue, buffer and cooldown |
| `ListenBoundedCorrect` | `WSpec => ListenBounded`: one call of `listen()` ends |
| `ManagerImplemented`, `WatcherImplemented` | the whole is a behaviour of both of its parts |
| `UpToDateCorrect` | `RSpec => []UpToDate` |
| `RegistersCorrect`, `RefusesCorrect` | exactly what `parseConfig()` registers, and which of the sections it reads it refuses, for files of any length |
| `NestedCorrect`, `NoCycle` | the recursion, for every tree and any number of changes |
| `FilesUnwatchedCorrect` | `SSpec => []FilesUnwatched`: what is never taken for a directory |
| `WatchedCorrect` | `SSpec => []WatchedUnlessShadowed`: what is watched at the end: a directory that existed all the time, if no watch was refused and no name on its path, or beside it, is that of a file or link at the top |
| `JoinCorrect`, `CutCorrect`, `FilterCorrect` | where exactly `parseCommand()` cuts and what exactly `strMatch()` matches, for texts of any length over any alphabet |
| `FitCorrect` | `LSpec => []ArgumentsFit`: the child's two loops stay in their arrays, unless there is no argument at all |
| `OnceCorrect`, `LossCorrect`, `ReportCorrect` | what the user gets to read, with every logger |
| `ProgramKnownCorrect`, `ReplacedWhenBuiltCorrect`, `NoOrphanCorrect`, `SignalsChildCorrect`, `WorkBoundedCorrect` | the prototype, for any number of watchers and events, and any failures but those each of them names |

Only `SignalsCorrect` needs `~Recycle`, and it cannot be dropped there:
`ProcessForeign` is the counterexample.

**Process.**  `WaitVerdict` says something only when the method has returned.
The invariant `PInv` says what is known between its system calls: which method
a system call belongs to (`Control`); that `mProc` is a pid where it is waited
for (`ForkedPid`), which keeps -1 away from `kill()`; and, in `Outcome`, that
after `fork` the object has an unreaped child (`Pending`) and that at `wait`
either it still has, or `run()` has reaped it *and* its status was 0.  The last
part is what makes ECHILD a success.  `NamerOwns` - a process whose pid an
object names was forked by that object - is inductive only without reuse and
gives `SignalsCorrect`.

**ProcMan.**  Its steps are steps of `Process` or do no system call, so `PInv`
is kept by lemmas of `ProcessProofs`; the new part is `Calls`, which ties
each phase to the method called last, and `Tidy`: every child is named by the
object it was forked for (`NoneLost`), an object about to fork has no child,
and apart from the program only the object being called may have one.
`OneChildPerObject` alone is not inductive: it does not say that the one child
can still be reached, so the next `run()` could make it two.  `Tidy` is
guarded by `~eintr`, because an interrupted wait breaks it.  `Settled`
derives from `PInv` that a returned `runAndWait` or `kill` has left no
child, and `ThreadTidy`, `KernelTidy`, `SigintTidy` and `ManagerTidy` take one
group of actions each.

**Pipeline.**  The simulation rests on `PipeInv`: `PMInv` of `ProcMan`, that only
SIGINT closes Renzoku down (`Asked`), `Harmless`, which says that no build or
test is left that a `kill()` could reach, and, without reuse, `NamerOwns`.
`Harmless` is the point of the refinement: `restartAll()` and `killAll()` call `kill()` on the
build and on every test, `Pipeline` has no action that stops one, and `Harmless`
is why it needs none.  With reuse the `mProc` of a test that has ended may name
the program.  `WhoIsHit` says what can come of it: the `kill()` of a test that is
halted may stop the program or wait for it, when the first build of the change
has succeeded and the second has not begun, and that is what `Mistake` allows;
the `kill()` of any object may do so when Renzoku is ending anyway.  No other
promise is touched.  Each group of steps is then shown to be a step of
`Pipeline` or a stutter: a `fork()` is `StartHelper` or `Launch`, which one `WhoseCall`
knows; a step of the manager moves `stage` alone.

**Steps.**  What a liveness argument needs besides fairness is that no step is in
vain.  `Ahead` (ProcMan) counts the steps that the thread has still to take:
those of the system calls of the method it is in (`CallAhead`), those of the
pipeline after it (`PhaseAhead`), `Round` for each pending change and one more
`Round` for the end (`Later`).  `StepsCounted` says that a step of the thread lowers
it, that nobody else raises it, and that only `Listen`, which reads a new buffer,
may; it needs the types and which call belongs to which phase.  `Left` (Watcher)
is four numbers compared from the left, because matches differ from event to
event; `LeftType` says that they are natural numbers, and `Less` is therefore
well-founded.  `Left` (Prototype) is one number for each watcher; only `read()`
may raise it.  Together with the fairness of section 3 - the waits end - these
are why `ChangeServed`, `QuitCompletes`, `LoopEnds` and `SigintEnds` hold for all values of
the constants, but that last inference is not machine-checked.

**Renzoku.**  `ManagerPart` and `ListenerPart` map each step to both parts, and
so every theorem about them holds of the whole.  `UpToDate` is in neither part:
`Watcher` has no processes, `ProcMan` no files.  `Sides` says that the two are at
corresponding places, and `Images` that a program that exists was built from what
`Watcher` takes to be running, or, while it is being started, from what the latest
build has read.  With `Accounted` of `Watcher` the theorem follows.
What `NeverStuck` says about guards is proved, too, as a lemma
(`SidesAgreeHolds`): what `Both` conjoins are guards on `where` and on `phase`, and
they hold together.  `Sides` is most of it; the rest is that `listen()` never
finds a match in its buffer when `pending` is 0.  `Enough`
is the invariant for that: `BufferMax * pending` is at least `MaxPending` for each
event left, less `BufferMax` for each match tried of the first one (`Owes`).  An
event with many matches uses up what `MaxPending`, which is enough for a buffer full
of such events, provides for it, and no more.

**Watcher.**  `Accounted` is about two places of the loop.  `Covered`
holds everywhere: if the newest version is not running, there is an excuse, or
an event that some filter matches is in the queue or in what is left of the
buffer, or the present event has a filter still to be tried, or a build that
has seen the newest version is under way.  That is the argument why a save
during a build, a merged event or a full buffer loses nothing: merging
keeps an equal event at the end of the queue, and the build that reads the
files after the event was taken sees the save.

**Config.**  `RegistersSections` and `RefusesExactly` are about a file that has
been read; the invariant `CInv` says both of the sections read so far
(`Registers`, `Refused`).  It needs `Told`: the structure of a kind holds the last
command that its sections have given, and is on unless the last one that spoke of
"enabled" said "no".  `CommandStep`, `OnStep` and `EffectiveStep` say how one section
more changes what a file asks for, `CommandParsed` what one `parseCommand()` leaves
in the structure, and `ProgramInv`, `CompileInv`, `TestInv` that the two agree for
each kind.  The place of a test among the manager's processes is the number of
sections up to its own that make one.

**Scan.**  `Nested` is not inductive: a call begins in the directory `listDir()`
has listed.  `Below` says that this is one of the last call's own directory, and
`Frames` and `Listed` that all names still to be visited are.  `NoCycle` follows,
because a tree has no cycle: no directory is visited within its own visit.  What `lstat()`
answers does not occur in the argument, which is why wrong types do no harm.
For `FilesUnwatched` it does: while a file or link is at the top, `lstat()` finds
it and nothing else under its name (`StatFile`), so that no entry of that name
which is no directory gets into a listing, from there into a call and from there to
a watch (`Confused`).  For `WatchedUnlessShadowed`, `Unconfused` says that `st` is "dir" while a
directory without shadowed names is read, so none of its directories is taken
for a file.  `Progress` is what the scan still owes: a directory it promises to
watch (`Sought`), below one that is watched, is watched or `Due` - in what
`listDir()` has still to read or has listed, or in some call's rest.  At the end nothing
is due, so what is promised and not watched has a parent of the same kind; since
`Clear` is the largest set without shadowed names that is closed under parents,
and a tree has no cycle, there is none.

**Prototype.**  `Waiting` ties the child of `rebuild()` to the history `built`;
`Replaced` says that a watcher about to start a program, or to end, has none;
`Origins` that a second watcher, or a SIGTERM for the first, comes from a failure;
`OwnProgram` that `progpid` names a child as long as `fork()` succeeds.  `GoneInv` is
the step that all of them fear: a process ends and leaves its children to init.

**Util.**  What a loop computes is a fact about data, and induction over data is
out of the prover's reach.  The steps of the loop are the induction instead:
`Loop` says of each turn that the arguments cut so far, joined with spaces,
are the command up to the space before the present one (`Cuts`), where
each of them begins (`Measured`), and that `inQuote` is the parity of the quotes
that have been looked at in the present argument (`Looked`), which is even at the
end of all arguments before it (`Good`).  That an argument is cut in a quotation
nobody has looked at breaks nothing of this: what `CutAtSpaces` says leaves out the
first character behind every space, as the code does, so that it is exact.  The
function that joins is carried along: `Says` gives its value for the arguments so
far, and the next value follows.  `strMatch()` has no loop in the model; `StarMatch`
compares its two `compare()`s with the meaning of the last asterisk, and `PlainMatch`
with that of a filter without one, for texts of any length (`PrefixMeans`,
`SuffixMeans`).

**Launch.**  `Ready` says where the two processes can be, `Fits` that `size` and
`filled` are distances between two arguments in the command, as `Measured` tells them;
so what is copied is never more than what was counted.  The logs are three
texts: what has been shown and what each process keeps.  `OnlySaid` says that nobody
keeps what has not been said, and that a child keeps only what was said before the
`fork()` or by itself; `AllTold` that what the parent said has been shown or is in its
own buffer, and that each message has the one said before it in front of it,
where shown and parent's buffer are read as one text.  The child's flush puts its
copy in between; `Ordered` survives it because the copy has nothing that
must come behind something the parent keeps.  `Steps` reduces the actions to
seven kinds, so that each of these facts is proved of seven steps only.

**Only model-checked.**  Every invariant that a passing run checks is a theorem,
with two exceptions.  `NeverStuck` says what is ENABLED, which is beyond the prover;
what it says about guards is the lemma `SidesAgreeHolds`.  `OneLeftBehind` counts
children after an interrupted `waitpid()`, where `PInv` and `Tidy` say nothing.
Fairness is beyond it, too, and so are the liveness properties `ChangeServed`,
`QuitCompletes`, `QuietChangeBuilt`, `LoopEnds`, `ScanEnds` and `SigintEnds`.  For them TLC's
small instances are what there is, besides the counts of steps above.

## 5. What is not modelled

- The tokenizer stub, `iConfigFile` and the text of exceptions change no state
  that anything depends on.
- `Config`'s lists of filters, includes and excludes are data.  `Watcher` takes
  the filters as a number of matches per file; includes, excludes and
  `IgnoreStatus` are stored or skipped and read by nobody.
- The other flags that `main()` leaves uninitialised in the `sigaction` structure
  concern SIGCHLD, the handler's arguments, or a second SIGINT that arrives
  within the handler.
- The destructors of `Config` and `Process` free command arrays; `Destroy` shows
  that the manager's processes outlive `Config`, and their `kill()` reads none.
- The wall clock may be set back, which prolongs the cooldown.
- The first descriptor of `inotify_init()`, which the constructor calls twice
  (`watcher.cpp:34` and `55`), leaks and has no other effect.
- `process.cpp:169-237` and `watcher.cpp:154-241` are compiled out.
- Directories that are created or renamed after the start have no watch; the
  code has no step for them, and neither has the model.

## 6. Plan

Written in this order: `Process`, `ProcMan` (the part that starts and stops
processes, where a mistake costs most), their proofs, `Watcher` and its proof,
`Scan`, `Util`, `Config`; then `Pipeline` and the refinement, `Renzoku`, `Launch`,
`Prototype`, and the proofs about them and about `Config` and `Scan`; then the proofs
about `Util` and `Launch` and of `WatchedUnlessShadowed`; last the refinement with
reused pids, the counts of steps, `FilesUnwatched`, and the exact statements about
`Config`, `parseCommand()` and `strMatch()`.

What could follow:

1. A measure for the scan.  Its recursion never visits a directory within itself
   (`NoCycle`), but what is still to be visited is a tree that the user changes,
   so that the measure is a multiset and not a tuple.
2. A clock that may be set back, in `Watcher`.
