# nfddos, a TLA+ development

nfddos watches a stream of flow records, counts them per *profile* (a filter,
optionally split by a dynamic key such as the destination address) and, for a
profile that is over its limit in a time window, starts an *action*: it makes a
directory, copies the recent flows of the profile into it and runs a start
script.  When the traffic has been down for `stop_delay` seconds it runs the
stop script.  The repository also holds `main.c`, the packet daemon *bwd* that
nfddos grew out of (the Makefile does not build it), and `histcounter.c`, a ring
of counters over time.  `profile.c`, `hash_table.h`, the trie, the bit array,
`bwd.h` and libnf are used by the sources but are not in the repository; they
are modelled from their callers and marked external.

## 1. The system

| component | state | operations | talks to |
|---|---|---|---|
| action table, `action.c` | `nfd_actions_t.actions`: slots pointing at allocated `nfd_action_t` blocks; directories on disk; scripts in force | `nfd_act_upsert`, `nfd_act_update_dir`, `nfd_act_cmd`, `nfd_act_expire`, `nfd_act_eval_profile` | called by the dump thread only; reads the queue files; runs scripts that block it |
| read thread, `nfddos.c:70` | ring buffer position | `read_data_loop` | profiles (under `read_profile_lock`), queue file (under `queue_lock`) |
| dump thread, `nfddos.c:121` | `last_switched`, `last_window_size` | `dump_data_loop` | queue (under `queue_lock`), profiles (under `dump_profile_lock`), action table |
| flow queue, `queue.c` | the files `000` .. `queue_num`, the handle `queue_file` | `nfd_queue_shift`, `nfd_queue_add_flow` | both threads |
| histogram counter, `histcounter.c` | ring of slots, running totals, index of the fullest slot | `histc_add`, `histc_get_avg`, `histc_get_peak` | meant for profiles; its callers are commented out |
| bwd rules, `main.c` | nodes with counters, window and report times; pool of rule ids; counter of active rules | `update_stats`, `add_packet`, `add_dynamic_node`, `eval_nodes`, `eval_node`, `exec_node_cmd`, `get_next_id` | packet thread and main thread share the nodes, one lock per node |
| bwd threads, `main.c:545` | `config_mutex`, `trie_mutex`, `statistic_mutex`, signal flags | main loop, reload, termination | all of the above |
| configuration, `config.y`, `config.l`, `config.c` | `nfd_options_t`, profiles | `nfd_cfg_parse`, the grammar's actions | called by start-up before any thread exists |
| parser and scanner, `config.tab.c`, `lex.yy.c` | stack of states and values, lookahead word | `yyparse`, `yylex` | the grammar's actions |
| database, `db.c` | connection, two prepared statements, counts of rows | `nfd_db_init`, `nfd_db_begin_transaction`, `nfd_db_store_stats`, `nfd_db_update_counters`, `nfd_db_end_transaction` | a PostgreSQL server; called from `profile.c` |
| start-up, `nfddos.c:183`, `daemonize.c` | process, descriptors, pid file | `main`, `daemonize`, `mkpidfile` | everything |
| messages, `msgs.c` | `log_debug`, connection to syslogd | `msg_init`, `msg`, `help` | called by all |

What is hard here: the table's bookkeeping over long sequences of starts and
stops, at its limit, and with scripts that block for as long as they like; two
threads that share the queue under a lock and the profiles under *different*
locks; renames and opens that may fail one by one; a ring with a cached maximum
and a cached sum; in bwd, a window that two threads test and reset, a pool of
ids at its limit, four kinds of locks in two threads, and mutexes copied with
`memcpy`; a parser whose profile statements find their profile below themselves
on the stack; a store made of two statements against a server that may fail
between them; descriptors that are closed and handed out again; a window whose
length is measured with two readings of a clock that can be set.  `PROJECT.json` lists each
hazard with its line and with the properties about it, or the reason why there
is none.

## 2. Modules

    ActionLifecycle          what the action table promises (abstract)
      ^ implemented by
    ActionTable              action.c and the loop that drives it
      ActionTableProofs        types, memory, ids, scripts, sweep, directories,
                               stop delay, implementation of ActionLifecycle
    FlowPipeline             both threads of nfddos.c with queue.c
      FlowPipelineProofs       lock, queue files, evidence of actions
      MCFlowPipeline
    WindowClock              the clock of dump_data_loop
      Daemon                   main, daemonize.c, msgs.c: the process around it
        DaemonProofs             descriptors, level, pid file, divisor
    ConfigFile               what a configuration file says (abstract)
      ConfigParser             config.c, yyparse, its tables and actions
        ConfigParserProofs       the stack and the language, files of any length
        MCConfigParser
    DbLedger                 what the table of counters promises (abstract)
      ^ implemented by
    DbStore                  db.c and the server it talks to
      DbStoreProofs            bytes, rows, transactions, implementation of DbLedger
    HistCounter              histcounter.c
      HistCounterProofs        totals, peak, ring and shares
      MCHistCounter
    BwdRules                 nodes, ids and rules of main.c
      BwdRulesProofs           rules and their traffic, ids and their counter
    BwdThreads               the threads and locks of main.c
      BwdThreadsProofs         lock order, nodes freed by a reload

Definitions whose names end in `Bug` are plausible slips of the definition that
follows them; no specification uses them.  `PROJECT.json` pairs each with the
property that notices it.

### ActionTable

One step of the dump thread per step: `BeginPass` is the sleep and the start of
the evaluation, then every name is evaluated once, in any order (`Skip` under
its limits, `Refresh` for a name found in the table, `StartAction` for a new
one, with the whole of `nfd_act_upsert` and `nfd_act_update_dir` in one step),
then `BeginSweep`, one `KeepSlot` or `StopSlot` per slot, `EndPass`.  Slots hold
*addresses* and `heap` holds the blocks, because the code's ways to go wrong are
about memory: a freed block may be overwritten by anything (`Overwrite`), an
address may be handed out again, and a second `free` ends the process
(`"aborted"`).  `FreeSlot` is the index the search loop ends with, `MaxActions`
if there is no slot, and the off-by-one of `action.c:232` falls out of it:
`ReportNoSlot` is taken when the index is `MaxActions - 1`.

Time passes in the sleep and in scripts.  `PassBudget` bounds what the scripts
of one pass may take together and `MaxLag` how late a window starts; both are
the environment's.  `made`, `running` and `used` record directories that exist,
start scripts in force, and directories ever used.  Names hold local time to the
second; the model has no hour that clocks repeat.  That every name is evaluated
at most once per pass is how `nfd_prof_eval_all` (external) is used.

### FlowPipeline

The read thread's steps are the reading of a record, one step per profile that
counts it, the lock and the write; the dump thread's are the lock, `lnf_close`,
the renames, `lnf_open` with the unlock, and one step per profile evaluated.
An action that starts (`StartAction`) copies what the queue files hold and its
filter lets through, the filter being none when it could not be built.  Each
step of the copying may fail without the code noticing or without the action
caring: no directory (`action.c:129`), no flow file (`action.c:171`), no memory
for a record (`queue.c:60`), a queue file that cannot be opened (`queue.c:69`) or
read to its end, a record whose `lnf_write` fails (`queue.c:74`, not looked at).
All of these keep a set of records out of the copy, which the history `lost`
names; the step takes any set.  A record `lnf_write` acknowledged is taken to be
in the file: what libnf buffers and fails to write later shows up as a record
that cannot be read.
The renames are one step (`Rotated`), which takes the set of renames that fail;
only the lock holder touches the files.  `read_profile_lock` and
`dump_profile_lock` exclude nobody and are no variables: that is the point.
`counted` is external (`profile.c`), with counting and fetch-and-reset atomic
under the profile's own lock.  File contents are sets of records.

### HistCounter

One iteration of the loop of `histc_add` per step, so that the invariants are
also loop invariants.  Bytes and packets are handled by the same code twice and
are elements of `Measures`.  Slots carry their global slot number; the scan for a
new peak (`Rescanned`) ends, as the code's does, at the last of the fullest
slots.  `time` adds up timestamps as the code does, though `histcounter.h:25`
calls it the timestamp of the last updated slot.

### BwdRules

`CountPacket` is `update_stats`, `AddDynamicNode` the creation of a node by the
first packet of its address, `EvalNode` one visit of the walk of `eval_nodes`
(`BeginWalk`), which ends early after more than `UPDATES_IN_STEP` changes.  The
node lock is held for the whole of `update_stats` and of `eval_node`, so each is
one step.  Bits per second, the factor 8 and the threshold in percent are
folded into `Limit`, in bytes per second.

### BwdThreads

The same code as `BwdRules` from the side of its locks: every
`pthread_mutex_lock` is a step that waits, and what is computed under a lock is
left to `BwdRules`.  The main thread goes round `BeginLoop` .. `Sleep` with the
walk, the statistic file, and one branch per signal flag; the walk chooses its
next node (`NextNode`) before it waits for that node's lock (`VisitNode`), and every
walk may meet the nodes in any order; the packet thread handles the source and then the destination of each packet.  A node is a name
with the number of the configuration it was made for, so that a node of an old
configuration can be told from its successor.  `AddDynamicNode` copies the state
of the parent's lock: if it was held, the copy is held by `"nobody"`.  When a
device cannot be opened the packet thread ends the process; when the capture
loop fails it ends alone.  `parse_config` is external: it takes `config_mutex`,
and frees the nodes it replaces.

### ConfigFile, ConfigParser

`ConfigParser` holds the numbers of bison's tables as they stand in
`config.tab.c` and one action per kind of turn of `yyparse`: reading a word,
shifting it, reducing by a rule with its semantic action, the error.  The
scanner returns any word.  (It spells "nterval" for `INTERVALTOK`, `config.l:69`:
of "interval" it prints the "i", by flex's rule for characters nothing begins
with, and returns the token for the rest.  The printing is in `Daemon`,
`Echoes`.)  A word's value is its position in the file, so a
setting tells which statement it came from; the places on the stack that
semantic actions read and write (`$2`, `$0`, `$$`) are kept exactly, because the
grammar hands the profile down through them.  `ConfigFile` says the same things
without a parser: a file is cut at its delimiters into statements, each place
allows certain ones, and the last statement about a thing counts.  The two
commands are where the code differs from what the file says: rule 16 stores a
stop command as the start command.  `SettingsAsWritten` states what comes of it
(`LastCommand`, and `exec_stop` never set), and a finding quotes the
configuration file that expects otherwise.

### DbLedger, DbStore

One step per statement sent to the server.  The server fails any statement,
which fails an open transaction, or drops the connection, which rolls it back, or
carries it out and loses the reply with the connection (`EndFails` after a commit;
`Unanswered` for statements outside a transaction);
`END` of a failed transaction is `COMMAND_OK`, as PostgreSQL does it.  Rows are
counted per key, because the rows of a profile without a dynamic part (`NULL`)
are never found again by an `UPDATE`.  An amount passes through `htonll` and the
server's reading of eight bytes, here four bytes of `Byte` values each.  The
model's host is little-endian.  `DbLedger` is the table as a ledger:
`ImplementsLedger` maps its `pending` to what the open transaction has changed.

### WindowClock, Daemon

`WindowClock` has the steps of the dump loop that read or depend on the clock.
The code uses the clock only as `time(NULL) - last_switched`, which is the
variable `elapsed`; `sinceSwitch` and `sinceReset` are the real time since
`last_switched` was read and since the counters of one profile, whichever, were
reset, which happens when that profile is evaluated and not at the switch.  Every
step takes up to `MaxLag`.  `SetClock` sets `time(NULL)` forward or back between
any two steps; `sleep` does not notice.  No time since the start is kept, so the
model has no bound on the number of windows.  Time is in whole seconds, as the
code's is: real times may differ by less than a second from what is said.
`Daemon` is `main` from the first option to the two threads, one step per call
that can fail or end the process, with the descriptor table as state: the
lowest free number is given out, `daemonize` frees 0, 1 and 2, `syslog` connects
anew when its connection broke.  In the threads, the read thread reports records
it cannot store and gives the ring back at its end, the dump thread closes and
reopens the queue file, and an action that starts opens and closes its profile
file and its flow file (`OpenEvidence`, `CloseEvidence`) and runs scripts.
`spilled` collects what standard output and the scripts' output were written to.
The pid file is `"other"` until it is opened, then `"empty"` until it is written;
`pidFailed` remembers that one of the two failed.  The window size of the configuration
reaches `WindowClock` through `ParseConfig`.

## 3. What the runs show

| run | instance | shows |
|---|---|---|
| `action_table` | 2 names, 3 slots, 3 addresses, clock 3..9, stop delay 2, window 2, scripts up to 2 s per pass | `TableConsistent`: slots, blocks, ids, directories and start scripts in force always agree and nothing leaks. `SweepComplete`, `KeptNotStopped`: a sweep stops all that is quiet and nothing else. `DirFresh`: no action gets the directory of another. `ImplementsLifecycle` |
| `last_slot` | 2 slots, 2 names | *violated:* `TableSound`, block freed while in the table |
| `full_table` | 2 slots, 3 names | *violated:* `NoOrphanScript`, a start script nobody will stop |
| `queue` | 2 records, 2 profiles, files 0..2, backtrack 1, 4 windows, all sets of failing renames among none, one, all; `FairSpec` | `NoWriteToClosed`, `QueueHoldsWindows`, `NeverNewer`: one window per file, whatever fails. `EvidenceCaptured`, `EvidenceRecent`: an action gets the flows it was triggered by, but for those that could not be read or written, and none that are too old. `EveryFlowSettled`, `EveryWindowEvaluated`: both threads go on |
| `hist_ring` | 3 slots of 2 units, 3 records over 7 global slots | `PeakIsMax`, `TotalIsSum`, `RingExact`, `SharesPlaced` in every iteration |
| `bwd_rules` | 2 static and 1 dynamic node, 2 ids, window 2, clock 2..5, 6 packets | `RulesJustified`, `IdsMatchRules`, `ActiveCounted`; `RulesStay`: no rule is ever removed |
| `bwd_threads` | 1 plain node, 1 parent with 1 address, 1 packet (two addresses), 1 reload, any signals | `LockOrder`: no deadlock between the threads' own locks. `NoFreedNode`: neither thread uses a node a reload freed. `Terminates`, `PacketsHandled`, unless a held lock was copied |
| `copied_lock` | the same | *violated:* `AlwaysTerminates`, the lock of a copied node is never released |
| `config` | files of up to 18 words: any of 34 words up to the 9th, then those of filters, limits, headers and ends; debug or pid file from the command line | `AcceptsTheLanguage`: yyparse accepts the files of `ConfigFile` and stops at the first wrong word. `SettingsAsWritten`, `ProfilesAsWritten`: options and profiles have the last value written, and a stop command becomes the start command. `ParseEnds` |
| `db` | 1 key with a dynamic part, 1 with `NULL`, amounts 1 and 2, bytes of 2 values, sums up to 4 | `OneRowPerKey`, `ImplementsLedger`; `StoredUnlessReported`: what a transaction's stores returned 1 for is in the table after `END`, or an error was reported |
| `daemon` | window size 0 and the default 60, steps that take no time, clock set forward or back by 1, 2 debug levels, descriptors 0..7 | `OutputStaysOut`: printed text and the output of scripts do not get into the database connection. `DebugLevelFromCommandLine`. `PidFileNamesDaemon`: the file names the process that runs, or it could not be opened or written |
| `clock` | window sizes 0, 1, 4 and the default 60, steps of up to 2 s, clock set forward or back by 1 or 5 once between two readings of `last_switched` | `DivisorSound`: of a window in which the clock was not set, the divisor is at least the configured size and differs from the time the counters ran by no more than the delays |

The violated runs each state what a comment says; `PROJECT.json` quotes the line
under `findings`.  Four findings cite a run that passes, because what they say
holds in every behaviour: a record without duration is counted nowhere
(`SharesPlaced`), no rule is ever removed (`RulesStay`), a configured stop command
replaces the start command (`SettingsAsWritten`), and the configured debug level
has no effect (`DebugLevelFromCommandLine`).

**Bounds.**  `action_table`: with two names a slot is freed and taken by the
other name, both orders of evaluation occur, and the clock allows three full
passes: start, refresh, expiry, start again in the same slot; a third address
keeps the allocator from handing out the same block.  `queue`: with three files
and four windows every file is reached by a rotation, falls off the end, and
meets a file left by an earlier run (`Old`); two records are one on each side of
every switch.  `hist_ring`: seven global slots go round a ring of three more
than twice, records of two slots overlap, and some are older than the ring.
`bwd_rules`: three packets take a node over its limit (the first closes its
first window and is dropped), so six reach two rules, the whole id pool.
`bwd_threads`: a packet brings two addresses, so a dynamic node is made and met
again, and a reload falls on every point of it; one visit with a change ends a
walk.  `config`: nine free words hold two statements of options or the parameters
of a profile of any kind, eighteen hold two limits with factors in one profile or
two profiles; the parser's stack never gets deeper than in the first of these
(`TypeOK` gives the depth).  `db`: a sum of 4 lets two stores of a key meet inside a
transaction and after it, and amounts of 1 and 2 differ in their bytes.
`daemon`: eight descriptors are more than files can be open at once; the loop of
the threads is not bounded, and syslogd stops at most once.  How long steps take
does not matter for the descriptors, so here they take no time; `clock` is the
run in which they do, with a delay shorter and one setting of the clock longer
than a window, in either direction.

**Fairness.**  Both threads run on their own (weak fairness of every step that
does not wait).  `queue_lock` is a plain mutex that either thread holds for one
write or one rotation and then gives up to read or to sleep, so a waiter finds
it free over and over; strong fairness of the two lock steps says that it gets
it in the end.  `ReadFlow` and `RingEof` have none: the ring may deliver nothing.
The dump thread's sleep ends by `DumperLock`, whose strong fairness also says
that windows end.  `BwdThreads`: the main thread is weakly fair, the packet
thread strongly, because the main thread sleeps in each round without a lock
(`usleep`, `main.c:702`), so that every lock the packet thread waits for is free
for long enough; signals have no fairness.  `ConfigParser` is one thread of
control and weakly fair.

**Disabled deadlock checking.**  In the runs that show a violation of
`ActionTable`, where a process that aborted on a double `free` stops, and in those
of `BwdThreads`, where both threads may wait for a copied lock.  The stuttering
steps `AtHorizon`, `Finished`, `Sleep` (of `FlowPipeline`), `Returned`, `Exited`
and `Ended` mark where the bounds or the end of the process, not a lock, end a
behaviour.

## 4. What is proved

For every value of the constants that satisfies `ActionTableAssumption` (finite
names, a positive table size, natural delays, a clock that starts later than
`stop_delay`, which is how seconds since 1970 relate to it):

* `TypeCorrect`: `Spec => []TypeOK`, with no further assumption, also for full
  tables and freed blocks.  It needs that the search for a slot returns an index
  or `MaxActions` (`FirstIsLeast`, `FreeSlotIsEmpty`).
* Under `Room == Cardinality(Names) < MaxActions`, more slots than names that can
  be active together: `TableSafe` (`TableConsistent`: `TableSound`, `ScriptsMatched`, `NoLeak`),
  `SweepIsComplete`, `DirectoriesFresh`.  The runs `last_slot` and `full_table`
  show that the assumption is needed; note that it is *strictly* less, because
  the last slot is lost to the off-by-one.  The inductive invariant is
  `TableInv`.  The properties are not inductive by themselves: that a name is
  not entered twice, and that a free slot below the last exists
  (`RoomForOneMore`, a pigeonhole argument over `Held`), needs that every held
  entry has a name of `Names` and that held names differ; that a stopped action
  leaves no other script behind needs that `ActionDir` tells the running actions
  apart, hence that each block knows its slot; that a directory is fresh needs
  `NowDirsRunning`: a directory named by the current second belongs to an action
  that still runs, because nothing younger than `stop_delay` is stopped.
* Under `Room` and `Prompt == PassBudget <= StopDelay`: `KeptAreNotStopped` and
  `TableImplementsLifecycle`, from `TableInv` and `KeptFresh`.  Each action maps
  to an action of `ActionLifecycle` or to a stuttering step under
  `active <- ActiveNames`.  `Prompt` is needed: with scripts
  slower than `stop_delay` the sweep stops an action whose profile was over its
  limit in the same pass.

For every value of the constants that satisfies `BwdRulesAssumption` (finitely
many nodes, a positive window, a clock that starts after one window):

* `BwdTypeCorrect`, `IdsMatch`, `ActiveIsCounted`, `RulesAreForever`: types, ids
  against rules, the counter against rules, and that no rule is ever removed.
  The inductive invariant is `RulesInv`.  Its heart is `WindowsRunning`, no node
  has a window that is over: `update_stats` closes the window in the call that
  reaches its end, and `eval_node` changes neither of the two times.  Hence the
  removing branch of `eval_node` is dead (`StepRemove`), and every step keeps the
  rules or adds one (`StepEffect`).  That a rule's report time is never 0, which
  would make it no rule, needs `CountsDated`: a node over its limit has counted
  a packet.  `IdsMatch` needs that the search of `get_next_id` ends on the free
  id next in the circle (`NextIdIsFree`), and holds until the pool was once
  exhausted; from then on every new rule gets the id 0.
* `RulesAreJustified` (`RulesJustified`), from `RulesInv` and `WindowsInv`.  The
  history `received` holds what a node got up to each second, so that the traffic
  of a window is a difference of two entries and no sum has to be reasoned about.
  `BytesArrived` says that the bytes a node has counted arrived between the reset
  of its window and its last packet; with `WindowsRunning` that span is shorter
  than one window, so a node over its limit got at least as much in the window
  that begins with its reset (`InstalledInv`), and what is in the past stays so
  (`ExcessKept`).

For every value of the constants that satisfies `FlowPipelineAssumption` (any
number of records, profiles, windows and queue files, any filters, at least one
file besides 000, records of earlier runs distinct from the new ones):

* `PipelineTypeCorrect`, `WritesAreSafe` (`NoWriteToClosed`), `QueueIsExact`
  (`QueueHoldsWindows`), `FilesOnlyAge` (`NeverNewer`), `ActionsGetTheirFlows`
  (`EvidenceCaptured`), `ActionsGetRecentFlows` (`EvidenceRecent`).  The inductive
  invariant is `PipelineInv`.  `LockHeld` says that the lock belongs to exactly
  the thread that writes or shifts, so no write falls between the renames and the
  opening.  `FilesAged` and `FilesExact` follow the files through the shift:
  `WindowOf` is the window a file stands for, which moves up by one at the
  renames (`RotatedFiles`) and stays at the opening.  What an action copies is
  compared with what its profile counted (`CaptureIsEvidence`): a flow counted
  but not stored is in the reader's hand, hence not before `mark`
  (`FlowsInOrder`); one before `mark` was stored before the switch (`MarkPast`)
  and not before the last evaluation (`CountsCurrent`), hence in the window of
  file 001.  `ActionsGetTheirFlows` allows for the records that could not be read or
  written (`lost`) and says that no others are missing.

For every value of the constants that satisfies `HistCounterAssumption` (a ring of
any positive length, slots of any positive size, any records):

* `PeakIsPeak` (`PeakIsMax`), `RingHoldsNewest` (`RingExact`), `EveryShareIsPlaced`
  (`SharesPlaced`).  The inductive invariant is `HistInv`.  The scan for a new peak
  finds one because a finite ring has a least index with nothing above it
  (`RescannedIsPeak`); between scans the peak is right because only the slot just
  written can have grown and only a cleared one have shrunk (`PeakKept`).
  `RingHolds` follows each slot number: two less than a ring apart have different
  places (`PlacesDiffer`), so that a slot is cleared only for a number a whole
  ring newer, as long as no record came late.  `DueCovers` is the loop invariant:
  the shares still due just cover what is left of the record (`SharesCover` at its
  start), so that the loop ends when the last one is placed.
* `HistTypeCorrect` (`TypeOK`), `TotalIsSumOfSlots` (`TotalIsSum`), from `HistInv`
  and `TotalKept`.  The sum over the ring is a function of how many slots it adds
  up; that this function exists (`PrefixSumsExist`) and what a change of one slot
  does to it (`SumOfChanged`) are shown by going up from the first number at
  which it would fail, which is where induction is.  Hence a total is never
  reduced below 0, and the average is at most the peak (`AverageBelowPeak`): no
  slot is above the peak, so the sum is at most that many peaks (`SumBounded`).

For every value of the constants that satisfies `BwdThreadsAssumption` (any nodes
and addresses, kept apart by their names, any number of packets and reloads):

* `ThreadsTypeCorrect`, `LocksInOrder` (`LockOrder`), `NodesAreAlive`
  (`NoFreedNode`).  The inductive invariant is `ThreadsInv`.  `HeldWhere` lists the
  steps at which each thread holds each mutex, in both directions, so that the
  main thread replaces the list of nodes only when the packet thread is at no step
  that has a node (`MainFound`); `WalkOfList` says the same of the main thread's own
  walk, which holds no lock of the list.  `LockOrder` then is a comparison of the
  steps that wait with the steps that hold.  It covers the two threads waiting for
  each other; a thread that waits for the lock of a dynamic node copied while it
  was held waits for nobody, and is the violation of the run `copied_lock`.

For every value of the constants that satisfies `DbStoreAssumption` (any profiles,
bytes of any size, counters of four such bytes):

* `BytesArrive`: what `htonll` makes of a counter is what the server reads back
  (`Digits`: a number of two digits is taken apart again).  All that follows needs
  it, since every amount passes through it.
* `StoreTypeCorrect`, `NoSecondRow` (`OneRowPerKey`), `NothingLostUnreported`
  (`StoredUnlessReported`), `StoreImplementsLedger` (`ImplementsLedger`).  The
  inductive invariant is `StoreInv`.  Between the UPDATE that found no row and the
  INSERT the key has none (`InsertIsNeeded`), also when the connection is lost in
  between, because a transaction only adds (`TransactionAdds`).  An open
  transaction holds exactly what was accepted in it, and a failed one was reported
  (`AcceptedIsPending`).  A store maps to `Store` or `StoreAtOnce` of `DbLedger`, END
  to `Commit`, and every failure to `Rollback`.

For every value of the constants that satisfies `DaemonAssumption` and
`WindowClockAssumption` (any levels, window sizes, delays and settings of the clock,
forward and back, at least eight descriptors):

* `DaemonTypeCorrect` (`TypeOK`), `OutputNeverCorrupts` (`OutputStaysOut`),
  `LevelIsCommandLines` (`DebugLevelFromCommandLine`), `PidFileIsRight`
  (`PidFileNamesDaemon`), `DivisorIsSound` (`DivisorSound`).  The inductive invariant
  is `DaemonInv`.  `FilesOpen` says which file is open at which step and that none is
  open twice, hence fewer than eight descriptors are in use and the lowest free
  one exists (`OneIsFree`).  `NumbersTaken` follows the numbers `daemonize` freed:
  which file takes 0 at which step, and that 1 never goes to the configuration or
  the database.  It holds until the connection to syslogd breaks: the next
  message then connects anew on the number next in turn.  `PidFileIsRight` says
  that once `main` is past `mkpidfile` the file names the process that runs the
  threads, unless opening or writing it failed, and that it never names the
  parent of a daemon.
* `WindowLengthSound` (`DivisorSound` of `ClockSpec`): of a window in which the clock
  was not set, whatever was done to it in other windows, the divisor is at least
  the configured size, and the time a profile's counters ran lies between the
  divisor less one delay and the divisor plus four.  So a rate may be too low by
  what a late evaluation took away from the counters, and too high by a slow
  switch; in a window in which the clock is set nothing is promised.  `WindowRuns`
  and `CountersRun` say how far the clock has come at each step of the loop.

For every value of the constants that satisfies `ConfigParserAssumption` (files of
any length over any of the words):

* `ParserTypeCorrect` (`TypeOK`): the stack of `yyparse` never holds more than
  thirteen symbols, so that the room it starts with is never outgrown, and the
  values the semantic actions take from it are positions of words where they are
  used as such.  The inductive invariant is `ParserInv`.  Its heart is `Path`: in this
  grammar each state has one state it can stand on (`Below`), so that the state on
  top determines the whole stack.  `ShiftTable` and `ReduceTable` show it of every
  entry of bison's tables, `Pushed` and `ReducedStack` of every turn.  `Places` says
  that the value of a word on the stack is its place in the file and that words
  shifted one after the other are neighbours there.
* `ParserMakesProgress`: `TurnsLeft` is 10 * `MaxTokens` at the start, never negative,
  and every turn of `yyparse` that does not end the parse leaves fewer.  It counts five
  turns for each reading and each shifting of a word to come, and the rules the state
  at the top still reduces by default (`Height`, at most four; `HeightTable`: the tables
  have no cycle of default reductions).  That `ParseEnds` holds for files of any length
  follows by hand: the parser is fair to its steps (`WF_vars(Step)`), and TLC finds no
  state of the runs in which it has none to take.
* `ParserAcceptsLanguage` (`AcceptsTheLanguage`): a file `yyparse` accepts is one of
  the language, a file it refuses has no continuation in the language at the word it
  stopped at, and no word is shifted after which there is none.  The language is that
  of `ConfigFile`, which knows nothing of states; the proof is about bison's numbers.
  The invariant is not inductive: it says nothing of the middle of a statement, nor of
  the states entered by default reductions, which bison makes without looking
  whether the next word is right.  `LanguageInv` adds what was read (`Fits`): `Braces`,
  how many braces were opened and closed by the part of the file the state belongs
  to; `Spells`, that the words since the last delimiter are those on the way that
  leads to the state; and what is known of the lookahead in the states that wait for
  a statement or its end (2, 5, 17, 52, 56).  State 17 comes after a statement, which
  is empty only if the lookahead begins none.  The lemmas: `WellFormedAppended`, `RestAppended`,
  `CountAppended` tell how one more word changes what `ConfigFile` sees of a file;
  `StatementsAre` says that the statements of each place are the ways to the final
  states and a delimiter; `CanGoOn` that from every state one can go on, which is why
  what was shifted is viable; `ShiftKeeps` and `ReduceKeeps` carry `Fits` over each
  entry of the tables; `Refused` shows that where the tables have no entry, no
  statement goes on (`FormGoesOn`, `EntryForNext`).  `LanguageInv` was also
  checked by TLC on a small instance before it was proved.
* `OptionsHaveLastValues` (`SettingsAsWritten`): each option has the value of the last
  statement about it in the file, or the one of the command line, except that the
  start command is the last one under either name and the stop command is never
  set.  The invariant
  `OptionsInv` says it of what was shifted so far (`Eaten`), with one exception: in the
  state at the end of a statement about an option (`FinalOf`) the last value is that of
  the word just shifted, and the reduction that sets the option is still to come.
  `OccurrencesAppended` and `LastValueAppended` tell what one more word changes of what a
  file says; `OptionAt` and `DbHeaderAt`, with the lemmas on the words that lead to a
  state (`LastThree`, `EndsTable`, `LastOfOption`), that a file ends with a statement about
  an option exactly in its final state, wherever in the file the words may stand.
  `OptionsInv`, too, was first checked by TLC.
* `ProfilesAreAsWritten` (`ProfilesAsWritten`): there is one profile for each header of
  the file, in order, and each has the last filter, field list and limits written
  between its braces.  `ProfilesInv` says that the list is `Book` of what was shifted,
  after what is still `Due` at the end of a header or a statement; and that the value
  of states 43 and 52 on the stack, through which a semantic action reaches its
  profile two to four places below its own words, is the last profile of the list.
  That a header counts for the statements behind it is `HeadersAppended`: what is read
  never renumbers a header, and a new one is the last (`Numbered`).  From `HeaderAt` and
  `ParamAt` follows, step by step, what one more word changes: of the statements
  (`SaidAppended`), of those about a profile (`AboutAppended`), of the last of them
  (`ValueAppended`), of the list (`BookAppended`).  "filter" with a string also ends
  "input filter" (state 38): it is no statement about a profile because the options
  come before the first header, which is part of the invariant.  `TopWords` gives the
  values the actions take from the stack as positions in the file.

Only model-checked: liveness (`ParseEnds`, `Terminates`, `PacketsHandled`,
`EveryFlowSettled`, `EveryWindowEvaluated`), which is beyond the prover, and the
violations.  All other properties of the runs are proved.  The type invariants of
`ActionTable`, `BwdRules` and `FlowPipeline` are proved and, being part of the inductive
invariants, in no run.

## 5. What is not modelled

* The scanner (`config.l`, `lex.yy.c`): it turns characters into words, and
  `ConfigParser` takes any words.  The values of numbers, factors and strings,
  hence the arithmetic of a limit (`config.y:129` keeps bit/s without a factor
  undivided, `config.y:132` divides).
* `nfd_db_mk_profile` and `nfd_db_load_profiles` (`db.c:67-146`): their callers
  are commented out and what they build is in `profile.c`.
* The reading of packet headers (`main.c:447-459`) and the start of bwd
  (`main.c:545-628`).
* The texts of directories, files and messages, and the shell scripts.
* Sums of 64 bits do not overflow in the models.  `libnf`, PostgreSQL, syslogd
  and the C library are the environment.

## 6. Plan

In this order:

1. A measure that every step of the threads of bwd decreases between two packets, as
   `TurnsLeft` does for `yyparse`, from which `Terminates` follows by hand.
2. `FlowPipeline` and `ActionTable` composed, so that an action's evidence and its
   place in the table are steps of one process.
