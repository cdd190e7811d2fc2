# KeyKit in TLA+

KeyKit is an interpreter for a music language. One C thread runs many small
cooperative tasks, one byte code of each in turn, and between passes over the tasks
it sees to the console, the windows and MIDI. What is hard in it is the *task
kernel*: who runs, who is parked on what, who wakes whom, and what is left behind
when a task is killed in the middle of any of this. Beside it are the values the tasks work on:
phrases (lists of notes in order), passed around as values but shared, counted and copied
only before they change, and a `Recorded` phrase that MIDI input goes on adding to while
programs use it. Under all of it is the stack of each task, on which compiled functions call
each other. This directory models the kernel, the schedule of notes, the MIDI parser,
recording, the phrase operators, the use counts and the stack, checks them with TLC on
small instances, and proves with TLAPS, for every instance, the invariants of all of these but the
stack. File names below are relative to
`src/src/` of the repository.

## 1. Inventory

| component | state | operations | hard behaviour | what makes it correct | model |
|---|---|---|---|---|---|
| task kernel (`task.c`, `bltin.c`, `code2.c`, `execerror()` in `main.c`) | `struct Ktask` (state, parent, anychild, twait, anywait, priority, onexit, ontaskerror), `Tasktable`, `Tid`, `Nblocked`, `Nwaiting`, `Nsleeptill`, `Currpriority`, `Inerror` | `newtask`, `task()`, `wait`, `sleeptill`, `kill`, `onexit`, `onerror`, `priority`, end of code, errors, reboot, interrupt | a task dies while parked, while others wait for it, while handlers run instead; errors raised while burying; structs reused | nobody waits for the dead; the loop returns only when nothing is parked; no pointer to a freed struct | `Tasks` |
| run list and main loop (`task.c` exectasks) | `Running`, `T` | the pass, link, unlink, restart, `T = Running`, `T = NULL` | the list changes under the pass | the list holds exactly the running tasks; each gets its turn | `RunList` |
| locks (`util.c`, `bltin.c`) | `Toplk`: owner and notify chain per name | `lock`, `unlock`, `unlocktid` | owner or waiter killed; errors in the middle | first come first served, nobody forgotten | `Tasks`, `LockService` |
| fifos (`fifo.c`) | data, `f->t`, `t->fifo` | `open`, `get`, `put`, `flush`, `close` | reader killed, fifo closed under a reader | reader and fifo name each other, no reader sleeps beside data | `Tasks` (fifos between tasks) |
| scheduler, MIDI output (`real.c`) | `Topsched`, `Offmsg`, `Offmsg2`, tempo, `Now` | `taskphr`, `schdwake`, `immsched`, `chkoutput`, `execnt`, `unsched`, `freesch` | full buffers, errors in the middle of the walk | every note on gets its note off, in order of time | `Sched`; as tasks in `Tasks` |
| MIDI parser (`fsm.c`) | `State`, `Currfunc`, `Currchan`, `Runnable`, message buffer | `midiparse(byte)` | running status, real-time bytes anywhere, growth | each message once, to its function, inside the buffer | `MidiParser` |
| MIDI recording (`real.c` rc_*, `chkinput`, `noteon`, `noteoff`, `notemess`, `ntrecord`, `finishoff`) | `Noteq`, `Current`, `Recorded`, `Recmiddle`, `Earliestcurrent`, `Sustain` | a callback per message, `chkinput()`, assignment of `Recorded` | queue full, note offs without ons, `Recorded` shared, pointers into a phrase that is copied and reordered, input polled from within | what was played is there once; what a program keeps does not change | `NoteQueue`, `Record`, `RecordPolls` |
| phrases (`phrase.c`, `phrmerge()` in `util.c`, `code2.c`, `cut()` in `bltin.c`) | note lists, `p_leng` | `yyphrase`, `ntinsert`, `ntdelete`, `phreorder`, `phrmerge`, `phrop`, `phcut*`, operators, assignments to parts | shortcuts that assume order; notes of no duration; boundaries | results are in order, and are unions, differences and cuts | `NoteLists`, `Phrases` |
| use counts (`key.h`, `util.c`, `sym.c`, `code2.c`) | `p_used`, `p_tobe`, `h_used`, `h_tobe`, `Tobechecked`, `Htobechecked`, `Chkstuff`, free lists | increments and decrements in every byte code, `phcheck`, `htcheck`, `freeht`, copy before a change | sweeps between the byte codes of other tasks; symbols freed under a pointer | nothing in use is freed, garbage is found, sharing is invisible | `Values` |
| hash tables, symbols (`sym.c`) | elements of arrays, free symbols; buckets, move-to-front | `arraysym`, `setarraydata`, `clearsym`, `freehn`, `clearht`; `hashtable`, `hashvisit` | arrays in arrays and in themselves, elements deleted and symbols reused | a symbol belongs to one element | `Values`; effect on `Tasktable` in `Tasks` |
| interpreter (`code.c`, `code2.c`, `task.c`) | value stack, frames, nested streams | byte codes | handlers and nested streams end frames early | a call disturbs nothing of its callers; pointers into the stack follow when it moves | `Frames`, `Activations`; values in `Values`, `Phrases`; steps in `Tasks` |
| compiler (`gram.y`) | parser stacks | one sequential translation | – | – | not modelled |
| windows, menus, grid, MIDI files, regex, methods, start-up, `mdep*`, `.k` library, byacc | | | pure I/O, sequential, or vendored | | not modelled (`PROJECT.json` says why for each) |

How they interact: `exectasks()` calls byte codes, byte codes call built-ins, built-ins
park `T` (`taskunrun`) or restart others (`restarttask`). Between passes
`mdep_waitfor()` waits for the outside world, then `chkoutput()` restarts tasks whose
time has come and ends phrases, `chkinput()` feeds bytes to `midiparse()`, and
`handlewaitfor()` starts tasks for console interrupts and window events.
`execerror()` leaves whatever was going on by `longjmp`, after killing the task and
its children. `midiparse()` calls the `rc_*` functions, which put messages into `Noteq`;
`chkinput()` then takes them out and records. Byte codes of any task, `ntrecord()` and the
sweeps between passes work on the same phrases and their counts; long phrase operations
poll MIDI input (`chkrealoften()`).

The hazards, each at its line, are in `PROJECT.json`.

## 2. Modules

| module | extends | what it is |
|---|---|---|
| `Tasks` | – | the kernel: tasks, waits, sleeps, locks, fifos, priorities, kills, errors, reboot |
| `LockService` | – | what `lock()`/`unlock()` promise, without tasks, kills or errors |
| `MCTasks` | `Tasks` | small instances; a view that merges states equal up to the names of tasks |
| `TasksProofs` | `Tasks` | types; the two inductive invariants of the kernel and what follows from them; the locks implement `LockService` |
| `Lists` | – | linked lists as sequences: what is left when elements are unlinked |
| `ListsProofs` | `NoteLists` | facts about lists, and about how many elements of a sequence are in a set; what each operator on notes returns: its order, its notes and how often |
| `RunList`, `MCRunList` | `Lists` | the list of running tasks and the pass over it |
| `RunListProofs` | `RunList`, `ListsProofs` | the list is exact, the pass stands on a running task |
| `Sched`, `MCSched` | `Lists` | the schedule, the walk over it and the messages it sends |
| `SchedProofs` | `Sched`, `ListsProofs` | the schedule is in order, counts are exact, notes end |
| `MidiParser` | `Lists` | the byte machine of `fsm.c` and the meaning of its input |
| `ParserProofs` | `MidiParser`, `ListsProofs` | the buffer, functions get their own messages, all calls are right |
| `NoteLists` | `Lists` | notes, their order, and what the code does with lists of them |
| `Phrases`, `MCPhrases` | `NoteLists` | variables that hold phrases, and the statements that change them |
| `PhrasesProofs` | `Phrases`, `ListsProofs` | phrases are in order; what is merged, taken away and cut off is exact |
| `NoteQueue` | – | what the ring `Noteq` promises |
| `Record`, `MCRecord` | `NoteLists` | MIDI input, `Current`, `Recorded` |
| `RecordPolls` | `Record` | the same with the `chkinput()` that `phcopy()` calls |
| `RecordProofs` | `Record`, `ListsProofs` | the ring implements `NoteQueue`, `Current` holds the notes that are on, `Recorded` what was played |
| `Values`, `MCValues` | `Lists` | stacks, symbols, arrays and phrases with their use counts |
| `ValuesProofs` | `Values`, `ListsProofs` | counts are exact, nothing in use is freed, garbage is found, sharing is invisible |
| `Activations` | – | what calls promise: an activation each, and one value back |
| `Frames`, `MCFrames` | – | the stack of a task: calls, loops, select expressions, eval, handlers; a program for it |

### Tasks

Variables keep the names of the code. `state`, `parent`, `anychild`, `twait`, `anywait`,
`priority`, `fifo`, `onexit`, `ontaskerror` are the fields of `struct Ktask` (the two
handlers only as set or not set); `slot` is the tid modulo the size of `Tasktable`,
all that matters of a tid besides identity. `wakes` are the `SCH_WAKE` entries of
`Topsched`; `owner` and `notify` the `Toplk` list; `open`, `size`, `reader` the fifos
(`reader[f]` is `f->t`).

A byte code or a built-in is one action: nothing interrupts it. The exception is
`taskkill()`, with `taskbury()` and `unlocktid()` inside: burying a task wakes others,
passes locks on, may raise an error that starts another `taskkill()`, so each iteration
of its two loops is an action, and `pc`, `todo`, `scan`, `killer` hold the place:

    StartKill -> { Spare | BuryOnError | BuryOnExit
                   | BuryForGood -> { ScanDequeue | ScanOther | ScanUnlock | ScanError }*
                                 -> DeleteTask }*  -> KillDone | StartErrorfunc

While `pc # "run"` no other action is enabled. `RaiseError` is `execerror()`:
`Inerror` counts nested errors, the second still kills, the third gives up.
`KillLists(x)` is the set of lists the one visit over the hash table can build. `Reboot`
frees everything but, as the code does, not every counter. The environment is `Wake`
(a time has come), `PhraseDone` (the last note of a phrase is off), `Interrupt`, and
`NextProgram` (`main()` starts the next argument once `exectasks()` has returned).

Abstractions: which running task is next is left open (that is `RunList`); time is
left open, any sleeper may be due; data, arguments and names are left out; which
built-ins a program calls is given by the constant `Ops`. Left out: `T_OBJBLOCKED` and
`T_STOPPED` (never entered by the code in use), file, port and special fifos, nested
instruction streams. A call `open()` that reuses the struct of a closed fifo is the
same `Fifo` value opened again.

### LockService

Holder, line and set of parked clients per lock; a lock that is given up goes to the
first in line in the same step, a client may leave its line by dying. `Tasks` implements
it (`ImplementsLockService`) under `holder <- owner`, `line <- notify`, `parked <-` the
tasks in `T_LOCKWAIT`, less the one that `unlocktid()` is through with.
The run has no handlers: with `onexit()`, see `TasksLockExit` below.

### RunList

`Running` is a sequence, `T` the task whose turn it is or `None` between passes. Here
any parked task may be restarted by any other. `ParkBack` is what `blockfifo()` and
`schdwake()` do: `T = Running`, after which the loop's `T = T->nextrun` steps over the
head, so the pass starts over at the second element. `called` keeps what the compiler
guarantees: two calls of built-ins by one task are separated by byte codes that
push the arguments.

### Sched

`Topsched` is a sequence of entries with `due`, their clicks as seen from `Now`; the
clock is `Begin(d)`, which brings all entries `d` clicks nearer and starts a walk.
`chkoutput()`'s loop and the jump back to `sametime` in `execnt()` are unfolded: `s` is
the place of the walk, one action (`PlayNote`, `WakeUp`, `TooMany`, `TooManySoon`) handles
one note, and `Send` empties the buffers in the order of the code. `execnt()` adds
note-offs and repetitions (`OffScheduled`, `RepeatScheduled`) and moves the entry on
(`MoveOn`), the walk with it, as `nexts = s->next` does. `sounding` is the synthesizer:
how many notes of full length are on; notes that programs turn on and off themselves
are messages without a pitch (`"user"`). `toomany()` never sets `lasttime`, because
`execerror()` does not return: it is silent only while the clock shows less than two seconds
(`TooManySoon`), and raises an error at any time after that (`TooMany`), which kills the
family of the task that ran, in any way that `Tasks` allows (`dead`). `cut` remembers
that messages were lost.

Left out: notes that are bytes, `Offsetpitch`, recording and monitoring of the output,
tempo, `Sync`. A walk is one step of the kernel's `Wake` and `PhraseDone`, which
let any sleeper be due and any phrase end.

### MidiParser

One action per kind of byte; `Message` is `Currmessage[0 .. Messindex-1]`, `called`
the callbacks made for the last byte. `Expected(i)` reads the calls off the whole
input, by position of the last status byte and the number of data bytes since: it
knows nothing of `State`, `Currfunc` or `Runnable`, and `CallsRight` compares the two.

### NoteLists and Phrases

A phrase is the sequence of its notes and its length. The order of `ntcmporder()` is
a lexicographic order of keys; messages (`NT_BYTES`) of one time are not ordered among
each other. `Phrmerge`, `Phrop`, `Phreorder`, `Phcut`... are the list algorithms, loops as
recursive functions from the number of turns to the state of the loop, shortcuts included. `Phrases` is
the program: constants, `|`, `+`, `-`, `&`, `%`, `cut()`, `x.time = `, `x.dur = `, `x.length = `,
`x%n = ` and `x%n.time = `, each as the byte code does it, on any phrases the program has made so far, since
each operator relies on the order the others left. The properties compare results with bags
of notes and with what sounds at each click (`Sounding`).

Excluded, because the code makes no promise there: negative times and lengths, which a
program can assign (`phrmerge()`'s shortcut then appends notes out of order), and
`x%n.attr = ...` with an `n` out of range, which pushes a result nobody set. The comment at `phrase.c:513` ("If tm2<0, the cut extends
to the end of the phrase") is true of none of the three functions in full; `CutExact` is about
ranges that end after 0.

### NoteQueue and Record

`NoteQueue` is a bounded first-in first-out queue that loses what does not fit. `Record`
has the ring (`Noteq`, `Qbegin`, `Qavail`): callbacks fill it (`Arrive`), `chkinput()` drains it,
one message an action (`Handle`), and implements `NoteQueue` with `Waiting` as the
mapping. `HandleOff` is `noteoff()` whole: the latest note of the pitch leaves `Current`
and goes through `ntrecord()` into `Recorded`, which is copied first if a variable shares it
(`AddFresh`). `Recmiddle`, the place the search starts from, depends on the next
scheduled event, which `Middles` leaves open. `Keep` and `Release` are a program that assigns
`Recorded` to a variable and lets it go; `Merge` is `Recorded |= p`, for a `Recorded` that
nobody shares: a shared one would be replaced by another phrase while `Recmiddle` stays in the
old one, and where the search then starts is left out. `FinishOff` is `finishoff()`, also as
`resetreal()` calls it, which records a released pedal at time -1.

`sounding` and `heard` are histories: what the player did, by note, and what should be
recorded of it. `RecordedExact` compares `Recorded` with `heard`. Its order is not
a property: the comment at `real.c:1354` ("guaranteed to be before any of the notes in
Currphr") is false, and `Recorded` may be out of order until `finishoff()` sorts it.

`RecordPolls` splits `ntrecord()` where `phcopy()` polls: `BeginCopy`, any handling by the
inner `chkinput()` (`HandleAgain`), `EndCopy`.

### Values

A stack item is a value or a pointer to a symbol. `heap` is a record of symbols, arrays,
phrases, their counts, the two lists of values to check, `Chkstuff` and the free lists; each
byte code composes the functions it calls (`Incr`, `Decr`, `Clearsym`, `Freehn`, ...) on it in
the order of the code, with the decrement a `POP` leaves to the assignment (`p_tobe`) at
its place. `Sweep` is `phcheck()` and `htcheck()` and may come between any two byte
codes; `Htcheck` follows the list while `freeht()` changes it. `Kill` drops a stack as
`freetp()` does, without decrements: these references are `lost`, as are those of a value
assigned to an element twice in an array literal. `heap.content` is a bit per phrase that every change
of its notes toggles; which byte codes change in place is decided by the counts (`Private`).

Left out: counts held by fifos and the schedule, frames and for-in loops (`Frames` has these); errors in the middle of a byte code, after which
the task is killed (`Kill` leaves as much); writing through a pointer to a symbol that was
freed by `x[i].attr = ...`, which the code does not survive; `dxor()`, `onchange()`. Two branches that cannot be reached because counts
are exact (counts below -1000 and -100) are left out too. Cycles of arrays are never freed by
the code, nor claimed to be.

### Activations and Frames

`Activations` is a sequence of activations, each with arguments, local variables and the
values its expressions and loops still work with. Only the newest one changes (`Work`), a call
takes its function and arguments off the caller's values (`Call`), a return puts one value
there (`Return`), a handler starts over with nothing (`Handle`).

`Frames` is how the code does it. `mem` is the block of memory `T->stack` with its cells up to
`Stackp` and the pointers into it; a pointer is a block and a place, so that one that is left
behind when `expandstackatleast()` moves the stack (`Expanded`) can be told. A cell is a type
and two numbers. One byte code is one action; the program is the constant `Code`, written by
hand in `MCFrames` the way the compiler lays it out (source above each function), with
conditions that may go either way, and `Killed` may come at any byte code. `Called` is
`callfuncd()`, `Ret` is `ret()` whole, with what it makes of a for-in loop or of
anything else left on the stack. `Select1`, `Select2`, `Select2Jump`, `Select3`, `QMark` and
`DotNumber` are the byte codes of `x{ condition }`. `Eval` and `StopEval` are `nestinstruct()`
and its end. `Bury` is what `taskbury()` does with the stack of a task with an `onexit()` handler; the
killer's object and method, which it hands on, are the task's own or none.

`ImplementsActivations` maps each saved frame to an activation, with arguments and local
variables at the places the byte codes look for them. `PointersCurrent` is about the
pointers themselves, `SelectExact` about `??` and `??.number` after calls that run select
expressions of their own, `LineExact` about `T->linenum`, which error messages name. `CountsKept` says
that a step loses uses only in the known cases (`LosesUses`).

Disagreements with the code's own words, all seen in counterexamples and confirmed by running the program;
the properties allow for exactly these:

- `symdataptr()` (`code.c:1084`) finds the first local variable in the cell where `callfuncd()` saved
  `T->linenum` (the header has ten cells, `FRAMEHEADER` is 9). A local variable that was not
  assigned to reads as the caller's line number instead of raising an error (`task.c:789`), and
  after the call of a function whose first local is 12345, errors say "near line 12345", although
  `ret()` is to "Restore previous values" (`code.c:1039`).
- `return()` out of two nested for-in loops ends one of them (`code.c:992`): the uses of the outer
  one are lost. `return()` out of a block inside an expression prints "Internal error, extra stuff on
  stack!?" (`code.c:1000`), `break` out of one leaves a value under the loop's: the loop's end pops
  the wrong cells, and a later byte code raises an error (`Return`'s and `PopInfo`'s guards).
- The first assignment ever made to a parameter loses the use of the argument (`sym.c:258`).

Left out: `while` and `switch` (jumps like those modelled), built-ins called as functions,
method lookup (the method found is in `Code`), globals, operators other than `+` on numbers,
phrases' contents, `onerror()` (the same restart with arguments), `return()` out of a
select expression, which is an error (`numval()` of a frame pointer in `ret()`).

## 3. Runs

| run | instance | shows |
|---|---|---|
| `TasksFifo` | 3 tasks, 1 fifo of 1 datum, 2 priorities; get, put, flush, close, kill, sleep | `ReadersMatch`, `SleepersScheduled`, `NeverQuitsEarly`, `NoDanglingRefs` |
| `TasksLock` | 3 tasks, 2 locks, lines of 2, counted waits; wait, kill, phrases, reboot, interrupts; 905,183 states up to names | `NoLostLockWaiter`, `LockWaitersParked`, `ImplementsLockService`; `NoLostWaiter`, `CountersCover`: no waiter is forgotten by `taskbury()`, `freesch()` or `newtp()`, self-waits and reused structs included |
| `TasksErrors` | 2 tasks, 2 locks, onexit, onerror, errors; fair burying | errors raised while burying end (`KillTerminates`) and leave the invariant of the proofs (`KernelInv`) intact |
| `RunList` | 4 tasks, 1 interrupt; fair passes | `ListExact`, `TurnIsRunning`, `PassEnds`, `EveryoneRuns` |
| `MidiParser` | all inputs of up to 6 of 11 bytes, buffer grows by 2 | `CallsRight`, `BufferHolds` |
| `Sched` | 2 phrases' tasks, 1 sleeper, 3 phrases, repeated or not; 4 messages a buffer, throttle 4; fair walks | `Sorted` while the list is walked over and changed, `CountsExact` (a task is freed with its last entry), `NotesEnd`, `PhraseEnds` |
| `Phrases` | 2 variables, phrases of up to 2 notes out of 4, times and lengths within 2 clicks; 37,806 states | `AlwaysInOrder`, `MergeExact`, `SetOpsExact`, `CutExact` in every state a program can reach |
| `Record` | 1 pitch and the pedal, a ring of 3, 2 clicks, 4 counted steps; 2.7 million states | `RecordedExact`, `CurrentExact`, `HeldUnchanged`, `ImplementsNoteQueue` |
| `Values` | 2 tasks, 2 phrases, 2 arrays, 1 variable, 1 symbol for elements, 1 subscript, 3 stack items; about 625,000 states up to symmetry | `CountsExact`, `NoDangling`, `NothingForgotten`, `ContentsPrivate` |
| `Frames` | 8 pieces of code, 4 frames, an initial stack of 40 cells, loops of 2; killed once with a handler, then for good; 32,329 states | `PointersCurrent`, `SelectExact`, `LineExact`, `CountsKept`, `ImplementsActivations` |
| `TasksLockExit` (violation) | 2 tasks, 1 lock | `unlocklk()`'s test fails after `kill()` of a lock waiter with an `onexit()` handler |
| `RecordPolls` (violation) | as `Record` | `Recorded` is not "a complete copy of all MIDI input": a poll in the middle of the copy handles a message twice and records into the phrase that is being left |

The findings in `PROJECT.json` quote the line of code or documentation each violation
disagrees with. Four more behaviours, each seen in a counterexample while the models were
built, are kept as hazards or allowed for by the properties instead of having a run:

- a killed waiter leaves `Nwaiting` raised, and `exectasks()` never returns (`task.c:2072`);
- `kill()` misses a grandchild once tids have wrapped (`task.c:1956`);
- of two phrases due at the same click the second is left to the next walk (`real.c:593`);
- data after the undefined status `0xf1` go to the previous message's function (`fsm.c:283`).

**Bounds.** `Task`: three tasks are a killer, a victim and a bystander (waiter, reader,
lock owner), or a chain of parent, child and grandchild; two are enough where one kills
the other. `HashSize` 1 lets every visiting order occur; 2 lets tids wrap between
buckets. `MaxCount` bounds the three counters, which leak (see above), and
`MaxNotify` a lock's chain, by guards in `Wait`, `SleepTill`, `GetBlocks`, `LockWait`;
`MaxSize` the data in a fifo: what matters is empty, one, and full-to-empty. `MaxInts`
bounds interrupts. In `MidiParser` the bytes are two data bytes and a status byte of
every kind (two data bytes, one data byte, sysex, undefined, position, eox, real-time
with and without meaning, active sensing); six bytes hold a message with running
status, cut off by another and resumed, and three growths of the buffer.

In `Sched` a phrase is two notes one after the other on one pitch, a chord of a note
without length and a longer one, or a note-on and note-off of the program's own; it
starts a click ago or a click ahead. With a throttle of 4 (three entries a walk) and one
click between walks everything that falls due is handled in time: `MaxLate`, the bound on lateness,
never holds `Begin` back (a larger one gives the same states), late notes and
full buffers occur all the same. With a smaller throttle, or more phrases that
repeat themselves, the walk falls behind for good, and `PhraseEnds` is not claimed.

In `Phrases` the four notes are two messages of one time, a note of no duration and
one that overlaps it: two notes are what a shortcut can get wrong, two
equal ones included. In `Record` one pitch is enough, since notes of other pitches do not meet in
`Latest` and are told apart by their numbers; four counted steps (`MaxCount`) hold two
overlapping notes, or a note, a copy and a second note, or a note cut off by `finishoff()`
and its stray note off; a ring of 3 slots holds 2 messages and loses the third. In `Values` two arrays hold
each other or one itself, one symbol is handed from array to array while a pointer to it is on a
stack, and two tasks share a phrase; `MaxLost` bounds what kills lose. Whatever does not fit the
bounds (`Fits`, `MaxStack`, `MaxItems`) is not reached.

In `Frames` four frames are the handler, a select expression's condition, a function it calls and
the `eval` in that, or three levels of recursion; `InitStackSize` 40 (the code has 100) makes the stack
grow in calls, pushes and select expressions of this program, also below saved frames; a handler
may start on a stack that has grown. Two notes or elements are a loop that goes on once and ends (`LoopLength`).

**View.** `MCView` maps a state to the set of its images when tasks are numbered, in every way that
goes by their states, and locks counted instead of named: states that differ in names only
are one. It leaves out fields that are set again before they are read (fields of freed structs,
`twait` of a task that does not wait). No property in those runs reads them. `ImplementsLockService`
is a condition on initial states and on steps, which TLC evaluates on every step it
generates, and it is symmetric in the tasks. The runs with liveness properties use no view.
`MCRecord!View` leaves out the slots of the ring that are free, which nothing reads;
`MCValues!View` leaves out `heap.content`: no step depends on it, and `ContentsPrivate`
is about the steps that change it, whatever it was. Tasks, phrases and arrays of `Values` and
variables of `Phrases` are symmetric: they are only compared, and no liveness is checked there.

**Fairness.** `FairSpec` is weak fairness of `BuryStep`: these are iterations of C loops,
and once entered the loop runs on. `RunList` has weak fairness of `Pass` for the same
reason: the interpreter goes on with the pass as long as a task runs. `Sched` has weak fairness of
the walk and of `Begin`: the walk is a C loop, `exectasks()` calls it between passes, and the
clock goes on. No program is
assumed to do anything in particular, and neither `Wake` nor `Interrupt` is fair.
`PassEnds` and `EveryoneRuns` assume that calls of `get()` on empty fifos and `sleeptill()`
cease: without that they are false, since a ring of tasks that put to and get from each
other in step makes every `get()` of the last element send `T` back to the head (six
tasks are enough when calls are two byte codes apart); MIDI and console
would then be polled only by the few byte codes that call `chkrealoften()`.

All cfgs but `Phrases.cfg` set `CHECK_DEADLOCK FALSE`: a program whose tasks are all parked
for good may stop, bounded inputs end, and `MaxCount`, `MaxClock` or `MaxLost` may block the last step; the task of `Frames` ends.

## 4. Proofs

Everything is proved from `TaskAssumption`, `RunListAssumption`, `SchedAssumption`,
`ParserAssumption`, `PhrasesAssumption`, `RecordAssumption` and `ValuesAssumption` alone
(finite sets of tasks and symbols, different kinds of values are different, `None` not one of them, the notes of a scheduled phrase in order of time, a ring of at
least 2 slots, numbers are numbers), which TLC evaluates in the runs; a theorem that needs more says so in its
own hypothesis: `LocksUnhandled`, `NoNegatives`, `FunctionsProper`'s bytes.

**Kernel.** `TasksProofs!TypeCorrect` (`TypeOK`) is inductive as it stands. Its non-obvious parts
are that a killer is known while `pc # "run"`, that a task is at hand while locks are
scanned, and that `Inerror` stays at most 2.

`KernelCorrect` proves `KernelInv`, a conjunction by what a task can be
parked on:

- `WaitInv`: `NoLostWaiter`, and nobody waits for the task being buried (`Dying`). The
  second part is what makes the first inductive: `DeleteTask` frees a task several steps
  after `Detach` woke its waiters.
- `SleepInv`, `ReaderInv`: schedule entries and fifo pointers name tasks in the right
  state, and not the dying one, for the same reason.
- `LockInv`: what a lock refers to is live and not a phrase, an unowned lock has no chain,
  and the dying task is referred to only by locks still to be scanned.
- `CountersCover`: the counters are at least the number of tasks in each state. It needs
  the others: a restart decrements by one per task that really left the state.

From it follow `WaitersSafe` (`NoLostWaiter`), `CountersSafe` (`CountersCover`),
`QuitSafe` (`NeverQuitsEarly`) and `PointersSafe` (`NoDanglingRefs`): for any number of
tasks, locks, fifos and priorities, any program, with handlers and nested errors.

`ParkedFound` proves the other direction, `ParkInv`: a task that is parked is where
whoever restarts it looks for it. `KernelInv` goes from the pointer to the task, `ParkInv` from the
task to the pointer; together they are `SleepersFound` (`SleepersScheduled`) and `ReadersFound`
(`ReadersMatch`). Its third part, `LineInv`, says that a task stands in one line at most, once, and
is in `T_LOCKWAIT` while it does: then the head of a line is parked (`LinesSafe`) and a parked task
is in the line of a lock with an owner (`LockWaitersFound`). All of it holds under `LocksUnhandled`: a
program has no locks, or no `onexit()` and `onerror()` functions. The condition is needed: with both, a
task killed in `T_LOCKWAIT` runs its handler while it still stands in the line, `unlocklk()`'s test fails
(`TasksLockExit`), and the error it raises (`ScanError`) abandons the burying of whatever task was
being buried, which then stays in its state for ever with nothing that leads to it.

`LocksImplementService` is the refinement of `LockService`, by the same invariant: an action leaves
holders, lines and parked clients alone (`Stutters`), or passes a lock on (`PassesOn`), takes a dead
client out of a line (`Leaves`) or puts one in (`StandsInLine`). A task being buried counts as parked
until `unlocktid()` has dropped its node, which is when it leaves the abstract line.

**Run list.** `RunListProofs` proves `ListCorrect` (`ListExact`) and `TurnCorrect` (`TurnIsRunning`) for
any number of tasks. `TypeOK`, the two of them and nothing more is inductive. The work is
in `taskbury()` of many tasks in one `kill()`: what is left of the list is `Kept` at the places of the
others, in the old order (`NthInOrder`), and those it restarts are linked at the front in any
order, each once.

**Schedule.** `SchedProofs` proves all safety properties of `Sched`, from one invariant: `TypeOK`,
`Sorted`, `CountsExact` and `NotesEnd` in terms of `Count` (how many elements of a list are in a
set, which changes by one when an entry is put in or taken out: `PutCounts`), and `WalkInv`, what
the walk relies on. Its last part is what makes `NotesEnd` inductive: the end of a note that waits in `Onmsg` is in
`Offmsg2`, or in the schedule at a time to come. So the note-offs that `Send` sends before the notes of
this walk (`Offmsg`) end notes that are on already, each finds its note, and none is wasted; and
`NotesEnd` does not change when messages leave the buffers. `Sorted` is preserved because `MoveOn` and the
entries that `execnt()` adds never come before the time that is being handled (`GoneOn`, `OffAdded`,
`RepeatAdded`). The theorems hold for any phrases whose notes are in order, any throttle and any
buffer size.

**Parser.** `ParserProofs` proves `ParserTypeCorrect` (`TypeOK`), `BufferSafe` (`BufferHolds`: a byte
makes the message at most one longer, and `Grow` runs before each), under the
assumption that none of 241, 244 and 245 is in `Byte` `FunctionsProper`
(`ProperFunction`: its invariant ties `Currfunc` to the first byte of `Message`), and without
any assumption `CallsCorrect` (`CallsRight`). For the last, `ParseInv` says what the machine knows
of the bytes received: with `s` the last status byte and `d` the data since, the state and the message at
hand are those of a channel message of which `Len(d) % Needs(s)` data bytes are there
(`KnowsChannel`), of a song position or selection that is not complete (`KnowsSystem`), of an open
sysex with all of `d`, or of none (`MessageOver`). `OneMore` says how a byte more changes `s`, `d` and whether
a sysex is open, and `ExpectedIs` reads `Expected` off these three; then there is one lemma for each kind
of byte. After an undefined status byte the invariant keeps only that no sysex is open: the
status byte after that is enough to know everything again.

**Recording.** `RecordProofs!QueueImplemented` proves `ImplementsNoteQueue` for every size of the ring.
The invariant (`QueueInv`) is only that the indices are slots; the work is arithmetic: indices
wrap at most once (`Wraps`), so the slots from `Qbegin` on are `Pending` many and all
different from the one written (`PutAppends`), and moving `Qbegin` on shifts the others
by one (`TakeLeavesTail`).

`RecordProofs!CurrentCorrect` proves `CurrentExact`, for any pitches, any size of the ring
and any number of steps. Its invariant adds that numbers of notes on are at most `count`, so that a new
note is the latest (`InFront`), and that they fall along `Current`: the first
note of a pitch, which `noteoff()` finds, is then the one the player means (`OffKeeps`), and
taking it out takes out no other (`OneLess`). What lies in the ring need not be
complete: lost messages leave `Current` exact.

The rest of `RecordInv` is for `RecordedCorrect` (`RecordedExact`), `HeldKept` (`HeldUnchanged`) and
`RecordTypeCorrect` (`TypeOK`):

- `InTime`: what waits in the ring is in the order of its times, and no earlier than the notes that are on. So
  a note off makes no duration negative, and what is recorded is a note.
- `StoreInv`: the two phrases are lists of notes, their counts are the variables that refer to them, and
  `Recmiddle` is a note of `Recorded` or none: `ntrecord()` may start its search at it, and where it starts
  changes the order of `Recorded` and never what is in it (`Records`, `Stays`).
- `Known`: besides `RecordedExact`, the numbers of recorded and sounding notes are all different; a note that is
  recorded is then one more, never one that is there.

`ntrecord()` copies a shared `Recorded` first: the copy holds what the original did, and only the
copy is changed from then on (`HeldSame`).

**Note lists and phrases.** A loop of the code is a function `f` from the number of turns to the state. That there is
such a function is proved once, for any step (`ListsProofs!Recursion`), and what holds of `f[0]` and goes from
`f[i - 1]` to `f[i]` holds at its end (`Upwards`, by the least number of a set, since the prover cannot use
the library's induction). `ListsProofs` has an invariant for each loop: `PutInOrder` for a note that is put in
where it belongs (`Inserts`, `Reorders`, whatever the order before), `Linked` and `IsCounted` for `phrmerge()`, `Paired` for
the messages of one time that `phrop()` compares each with each, and `Passed` for the loop of `phrop()` over both phrases:
what it has found of a note, and the lesser of what is left in either, are together the lesser of what both
phrases have. Each turn keeps this (`Turns`): a note that is passed is before what is next in the other list,
which is in order, so it is not there at all (`NotBehind`); and a run of messages is all that comes of that time (`RunIs`).

`PhrasesProofs` proves `OrderCorrect` (`AlwaysInOrder`), `MergeCorrect` (`MergeExact`) and `SetOpsCorrect`
(`SetOpsExact`) for programs of any variables, notes and bounds, under `NoNegatives`: the program writes no negative times and
lengths. The condition is needed, since the shortcut of `phrmerge()` compares notes before the delay: `AlwaysInOrder` is
false with a length of -1. The invariant is that each phrase is of notes over the times of the program (`Typed`), from 0 up
if it writes none below, and `AlwaysInOrder`; each operator gives an ordered phrase of such notes again (`Fine`). `CutCorrect` (`CutExact`) holds
for any times, negative ones included, and of phrases in any order: the part of a note that is kept sounds where the note does and the
range is (`PartSounds`), and no two notes are kept for one (`TruncateExact`).

**Use counts.** `ValuesProofs` proves all that the run of `Values` checks, `CountsCorrect` (`CountsExact`),
`NoneDangling` (`NoDangling`), `NoneForgotten` (`NothingForgotten`) and `ContentsSafe` (`ContentsPrivate`), and the
types (`ValuesTypeCorrect`), for any number of tasks, symbols, phrases, arrays and subscripts and stacks of any depth.

The four hold together or not at all: nothing that is found is free because counts are exact, counts are exact
because what is handed out anew is found nowhere. Their conjunction is inductive over byte codes
(`ValuesInv`), but a byte code is many calls and none of the four holds in the middle of it. So the
invariant that each call keeps, `Good(h, n, X, P)`, is about a heap `h` and three things that are known of the moment:

- `n` says how many references there are to each value, *in the hands of the byte code included*. `Incr` and
  `Decr` go with `n` being one more or one less (`GoodIncr`, `GoodDecr`), whatever moved. Only at the ends of
  a byte code is `n` what symbols and stacks hold (`N`, the number of `Places`): `Sound` is `Good` with that `n`.
- `X` holds the value that `newph()` or `newht()` has just made with no count, and that is on no list until it
  is pushed: if the byte code left it so, it would be forgotten.
- `P` holds the arrays that `htcheck()` has taken off the list but not yet come to: `h_state` says that they are on it.
  So `freeht()` puts on the list again what it has already been through, and leaves the rest to the loop,
  which meets each array once (`Turned`, `CheckedSound`). `htcheck()`'s `break` on a negative count is never taken.

How many places hold a value is counted in `OnePlace` (a place more or less), and from it what pushing, popping and storing do
to `n` (`StackPushed`, `StackPopped`, `SymbolSet`, `SymbolCleared`); `SymbolOver` is the case of an
assignment that overwrites what is lost. Loops over the elements of an array, over a list and over the items of an array
literal are functions of the number of turns, as in the note lists (`Emptied`, `CheckedSound`, `FilledIs`). `Clearht` may
be called on an array that is its own element: clearing the last one leads back to the array, which is then asked about and
not freed.

For `ContentsPrivate`, only the four byte codes with `Changed` in them matter, the others leave the notes of values in use alone
(`Quiet`, `SweepStep`). A phrase is changed in place when no reference is left but those that the byte code
itself took off the stack or the symbol (`IsChanged`); so it is found nowhere but in the symbol assigned to or
the two items popped, and of these one place at most holds it again afterwards (`OnStack`, `InSymbol`).

**Only model-checked.** Liveness (`KillTerminates`, `PassEnds`, `EveryoneRuns`, `PhraseEnds`): fairness and
`ENABLED` are beyond the prover. And the properties of `Frames`, with its refinement of
`Activations`: the stack is in order because compiled code leaves it so, byte code by byte code, and `Code` is
any function from addresses to byte codes; a theorem would first need a typing of the code that the compiler makes. 
The lock properties of programs with both locks and handlers, and the order of phrases in programs
with negative times, are false.
No module here uses RECURSIVE operators.

## 5. Plan

Done so far: `Tasks`, `RunList`, `Sched`, `MidiParser`, then `NoteLists` and `Phrases`, `Record`
with `NoteQueue`, `Values`, and `Frames` with `Activations`; and the proofs of section 4. Left, in order:

1. Proofs: `PointersCurrent` and `ImplementsActivations` for any program the compiler can make, from a typing of its
   code (how many cells each address finds on the stack).
2. `SpecialFifo`: console, mouse and MIDI fifos, `mouseblock()` and `FIFO_NORETURN`.
3. In `Frames`: method lookup through inherited objects (`meth.c`), the nested streams of the console
   (`main.c:1498`), tasks that an assignment starts (`onchange`, `code2.c:972`); values carried by fifos.

The number of runs is kept small: later modules share instances, or take the place of
runs whose question a proof has answered.

## 6. Not modelled

Windows, menus and the grid, the platform layers, MIDI drivers and the bundled RtMidi are I/O
with next to no state of their own; the compiler, MIDI file reader and regular expressions
are sequential; the `.k` library is programs for the interpreter, byacc is a vendored tool. By lines they are
most of the repository: the kernel, schedule, parser, recording, phrases, counts and stack modelled here are
a small part of it by size and the part where steps of several actors meet. `PROJECT.json` gives the reason for
each component, and what is missing from those modelled in part.
