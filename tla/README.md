# A TLA+ model of Fort Firewall

Fort Firewall is a firewall for Windows. Its kernel driver (`src/src/driver`) sits in
the Windows Filtering Platform (WFP) and decides for each connection; its user interface
and service (`src/src/ui`) hold the rules and the statistics in databases, write the
configuration to the driver and read the driver's log. This directory models the parts
of the two in which order, concurrency, failures and bookkeeping decide whether they
work, checks them with TLC on small instances, and proves the main invariants of the
driver with TLAPS for all instances.

Contents

1. The system: components, state, interactions, what is hard
2. The modules and how they correspond to the code
3. The runs: what each asks, its bounds, what it shows
4. Fairness
5. The proofs
6. What the code does that it should not
7. What is not modelled
8. Plan

`PROJECT.json` is the index: components, runs, the definition-to-source map, hazards
with the properties that cover them, mutants, and theorems.

To check a run: `tlc -workers 2 -config MCStatistics_All.cfg MCStatistics`. To check
proofs: `tlapm FortStatProof.tla`.

## 1. The system

### 1.1 Driver

The driver has one device object, opened by one client at a time (the service). Its code
runs in four kinds of threads, on several processors:

- *requests* of the client: `IRP_MJ_CREATE`, `IRP_MJ_CLEANUP` and the control codes
  (`fortdev.c`), at passive level;
- *classify callbacks* of WFP (`fortcout.c`): connections being authorized, data of
  flows, ends of flows; any number at once, up to DISPATCH level;
- *timers* as DPCs (`forttmr.c`): the log timer, every half second, and the app timer,
  every minute;
- one *work item* run by a system thread (`fortwrk.c`), and the system's callbacks of
  power and time (`fortcb.c`).

| Component (source) | State | Operations | What is hard | Module |
|---|---|---|---|---|
| Log buffer (`fortbuf.c`) | chain of blocks; the pending GETLOG request with its output buffer | write a record; timer flush; GETLOG; cancel; clear | a request leaves the buffer under the lock and is completed after it; it may be cancelled at any moment; room is checked after a write, in unsigned arithmetic | `FortBuffer` |
| Configuration reference (`fortcnf.c` 312-460) | current block, refcounts, two locks | take, put, set, new, delete | replaced while used; set is two critical sections | `FortConfRef` |
| Rules of programs (`fortcnf.c` 100-310, `fortcout.c` 100-260) | hash table of paths to flags per block | find, add, delete, classify | searched and changed in two critical sections | `FortApps` |
| Statistics (`fortstat.c`) | process array, hash table, free and active chains, refcounts; flow table; traffic per process and group | associate, classify data, delete, timer flush, switch of `log_stat` | indexes that are used again, flows that outlive the statistics they were counted in, records written after the unlock | `FortStat` |
| Deferred packets (`fortpkt.c`) and limits | pool of packets; lists of inbound ACKs, outbound ACKs and stream data; bits per list | defer, flush one or all, inject, complete | one `next` pointer for lists, injected chains and the free chain; flags read outside of the lock | `FortDefer` |
| Control plane (`fortdev.c`, `fortcout.c` 640-760, `fortwrk.c`, `forttmr.c`, `fortcb.c`) | device flags, zones, timers, worker bits, WFP filters | sessions, requests, reauthorization, period updates | requests, worker and callbacks overlap; a failing WFP transaction | `FortDevice` |
| Provider (`fortprov.c`) | provider, sublayer, callouts and filters in the WFP | register, unregister, in transactions | objects outlive the driver and refuse to be added twice or deleted while referred to; a transaction that fails | `FortProv` (objects), `FortDevice` (which filters) |
| Searches (`common/fortconf.c`), patterns (`common/wildmatch.c`) | none | find an address, a program, a folder, a pattern | orders and boundaries the writer (UI) and the reader (driver) must agree on; a match that gives up early | `AddressList`, `ProgramList`, `WildMatch` |
| Log records (`common/fortlog.c`) | none | encode and decode | lengths | in `FortBuffer` (lengths) |
| Entry and unload (`fortdrv.c`, `fortdev.c` 307-382, `fortcb.c`) | which parts exist and are registered | load, unload | each step may fail and is to be undone; callbacks while parts are closed; filters that block until the next start | `FortDriver` |

### 1.2 User interface and service

Qt objects in one main thread, with helper threads that read the log and that look
things up.

| Component (source) | State | Operations | What is hard | Module |
|---|---|---|---|---|
| FortManager (`fortmanager.cpp`) | none of its own | start, update the driver's configuration | order: driver, log, statistics | `StatSession`, `LogReader` |
| Driver access and log (`driver/*`, `log/*`) | device handle; reader thread with its buffer; cancel and abort flags; free buffers, results | open, close, write, read, cancel | the reader's request and the writer's cancellation race; order of the records | `LogReader` |
| Configuration manager (`conf/*`) | SQLite database of programs, groups, zones | add, delete, update programs; write to the driver | two stores changed one after the other, either may fail | `ConfApps` |
| Configuration encoder (`util/conf/*`, `util/net/*`) | none | lists of lines to arrays | overlapping, nested and repeated lines | `AddressList`, `ProgramList` |
| Statistics manager (`stat/statmanager.cpp`) | process table; tables of programs, traffic and connections; ranges of row ids | PROC_NEW, traffic, blocked connections, deletions, pruning | its process table must be the driver's; ids cached beside tables; statements outside of transactions | `StatSession`, `StatDb`, `StatQuota` |
| Quota manager (`stat/quotamanager.cpp`) | bytes and quotas of the day and month | count, alert, change | counted beside the tables; restarts and changes of options | `StatQuota` |
| List of connections (`model/connlistmodel.cpp`) | range of row ids | follow the table | told late | `StatDb` |
| Worker threads (`util/worker/*`) with host information (`hostinfo/*`) | job queue, workers; cache | enqueue, wait with timeout, finish | lost jobs, one condition variable for two purposes, late results | `WorkerPool`, `HostInfo` |
| Application information (`appinfo/*`) | another pool and cache with a database | | as above | not modelled (the pool is) |
| Tasks (`task/*`) | timed tasks; zones and the files of their addresses | run, abort, download one zone after the other, finish | changed by the user while it runs; partial failures; files, table and driver in step | `Tasks` |
| Remote calls (`rpc/*`, `control/*`) | clients, one result slot | call, notify, validate | notifications arrive in the middle of a call; a timed-out call's answer | `Rpc` |
| Windows, hot keys, log files, users, forms, models | | | presentation | not modelled |

### 1.3 Interactions

```
 WFP --classify--> callouts --take/put--> configuration reference <--set-- requests <-- DriverManager
                      |  \                                                   |             ^
                      |   \--associate/data/delete--> statistics             |             |
                      |                                  |                    |        ConfManager <-- Tasks
                      |--records--> log buffer <--records-- log timer         |         ^  ^      (zones)
                      |                |                                      |         |  |
                      |              GETLOG --> log reader --> LogManager --> StatManager  RpcManager <--> clients
                      |                                                        |   ^
                      \--ACKs, segments--> deferred packets --injected--> WFP  |   QuotaManager
 requests, worker --reauthorize--> WFP filters, timers, statistics, periods    \--> lists <-- HostInfoManager
 app timer, time changes --queue--> worker
```

### 1.4 What makes the components correct

- *Log buffer.* Each request is completed by one thread, and is never forgotten. What is
  written to the client's buffer fits it. Records are received in order, once, and none
  is lost while the client reads.
- *Configuration reference.* Nothing is used after it was freed; nothing leaks.
- *Rules of programs.* The driver decides by the user's rules: a new program never
  overwrites one, a replaced configuration brings the rules of the database; each new
  program is reported, once.
- *Statistics.* A flow counts on a live process, its own; refcounts are exact; processes
  are either in the table or free; bytes are attributed exactly; every process without
  flows is reported as gone and freed.
- *Session.* The UI's process table follows the driver's, record by record.
- *Deferred packets.* The pool never corrupts; no packet waits forever; none sleeps with
  the system.
- *Control plane.* Filters, timers, statistics and masks follow the flags; each change
  has connections classified again; nothing of a session outlives it.
- *Load and unload.* Nothing is left behind by a driver that is not loaded, but the
  filters that are to block until the next start; no callback uses what is closed.
- *Searches.* What the user's lists say of an address or a path is what the driver finds.
- *Log reader.* No write waits behind a pending request; records reach the managers in
  order; every record is read once reading is on.
- *Databases.* Rows belong to the program they were written for; the newest connections
  are kept, the table stays bounded, the list shows it; one alert a day and a month.
- *Workers.* No job is forgotten, the end ends.
- *Tasks.* After a run the driver has, for each zone, what its file has.
- *Remote calls.* An answer is that of the call; the clients' copies follow.

The hazards behind these are listed one by one, with their lines, in `PROJECT.json`.

## 2. The modules

`X.tla` models a component, `MCX.tla` gives it values, `MCX_Run.cfg` is a run,
`XProof.tla` holds its theorems.

| Module | Extends / instantiates | Models |
|---|---|---|
| `FortBuffer` | | log buffer, GETLOG requests, their completion |
| `LogStream` | | abstract: the FIFO a reader of the log relies on |
| `FortBufferStream` | `FortBuffer`, instance of `LogStream` | the refinement mapping |
| `FortConfRef` | | references to the configuration |
| `FortStat` | | statistics of processes and flows, records about them |
| `StatSession` | `FortStat` | driver's statistics and the UI's StatManager over the log |
| `FortDefer` | | deferred packets, speed limit, fragmentation, power |
| `FortDevice` | | sessions, requests, worker, timers, reauthorization |
| `FortApps` | `FortConfRef` | rules of programs in the driver, decisions about new programs |
| `ConfApps` | `FortApps` | the user's rules in the UI's database over the driver's |
| `FortProv` | | the driver's objects in the Windows Filtering Platform |
| `FortDriver` | `FortProv` | load, sessions and unload of the driver, step by step |
| `LogReader` | | the UI's log reader thread, cancellation, writes to the driver |
| `WorkerPool` | | jobs and worker threads of the UI |
| `HostInfo` | `WorkerPool` | names of addresses: the cache over the pool |
| `Rpc` | | service and clients over a pipe |
| `AddressList` | | ranges of addresses: from the user's lines to the driver's search |
| `WildMatch` | | matching of wildcard patterns |
| `ProgramList` | `WildMatch` | programs, folders and patterns: from the user's lines to the driver's search |
| `Tasks` | | timed tasks, download of zones |
| `StatDb` | | tables of traffic and blocked connections, their caches, the list |
| `StatQuota` | | traffic by day and month, quotas and alerts |
| `ConfEnds` | | programs that are allowed until some time |
| `ConfGroups` | | groups of programs in memory, in their copy in the options, and in the tables |
| `MCFortDefer`, `MCFortDevice`, `MCConfEnds` | the module of that name | values for it |
| `MCDeviceFaults` | `MCFortDevice` | a provider that fails in some behaviours, in others never |
| `MCDriver` | `MCFortDevice`, `FortDriver` | values, one part at a time |
| `MCConfApps` | `ConfApps` | values |
| `MCStatistics` | `StatSession`, `StatDb` | values, one part at a time |
| `MCService` | `Rpc`, `StatQuota` | values, one part at a time |
| `MCUiThreads` | `LogReader`, `HostInfo` | values, one part at a time |
| `MCConfLists` | `AddressList`, `ProgramList`, `Tasks`, `ConfGroups` | values, one part at a time |
| `SequenceLemmas` | | lemmas for the proofs |
| `DriverProof` | `FortBufferStream`, `FortDriver`, `SequenceLemmas` | proofs about the log buffer and the stream it is, and about load and unload |
| `ConfProof` | `ConfApps`, `AddressList`, `Tasks` | proofs about configurations: their blocks, the rules in the driver and in the database, lists of addresses, zones |
| `FortStatProof` | `StatSession`, `StatDb`, `SequenceLemmas` | proofs about the statistics, of the driver, in its session with the UI, and in the tables |
| `FortDeviceProof` | `MCDeviceFaults` | proofs about the control plane |
| `FortDeferProof` | `FortDefer`, `SequenceLemmas` | proofs about the deferred packets and their links |
| `UiThreadsProof` | `HostInfo`, `LogReader`, `ConfGroups`, `ProgramList`, `SequenceLemmas` | proofs about the threads of the UI, the groups it edits, and the programs and patterns in them |
| `ServiceProof` | `Rpc`, `StatQuota`, `SequenceLemmas` | proofs about the service, its clients and quotas |

Conventions. An action is one critical section of the code's lock, or one step between
two points where another thread can see or change shared state. Names of variables and
actions are those of the code where TLA+ allows it. A definition named `X_Something`
with a comment "Mistake:" is a plausible bug in definition `X`; no behaviour uses it, it
is there to show that the properties notice it. A variable marked "history" is not state
of the code: properties use it to speak about the past. A constant or variable marked
"bound" only keeps TLC finite.

### FortBuffer, LogStream, FortBufferStream

| Here | In the code |
|---|---|
| `blocks` | the chain `data_head .. data_tail`; a block's `top` |
| `irp`, `out_len`, `out_top`, `outRecs` | `buf->irp`, `buf->out_len`, `buf->out_top`, what is in `buf->out` |
| `held[a]` | an actor's local `irp` and `info` between taking the request out and `fort_request_complete_info` |
| `pending`, `routine`, `cancelling`, `cancelFlag`, `dispatching` | the I/O manager's view: pended requests, those with a cancel routine, those whose routine has been called, `Irp->Cancel`, requests between `fort_buffer_xmove` and `IoSetCancelRoutine` |
| `dpc` | the log timer is between `fort_buffer_dpc_begin` and `_end` |
| `ClassifyWrite`, `Prepare`, `PreparePending`, `PrepareBlock` | `fort_buffer_blocked_write` and its siblings, `fort_buffer_prepare` |
| `TimerBegin`, `TimerWrite`, `TimerEnd`, `TimerComplete` | `fort_callout_timer`, `fort_buffer_dpc_flush_pending` |
| `GetLog`, `SetCancelRoutine` | `FORT_IOCTL_GETLOG`: `fort_buffer_xmove` and the code after it |
| `CancelIo`, `CancelPending` | `IoCancelIrp`; `fort_device_cancel_pending` |
| `Open`, `Cleanup` | `fort_buffer_clear` in both |

A record is its number in the order of acceptance; only its length matters besides.
Subtraction wraps at `Word`, as `UINT32` does. A request packet that nobody refers to is
used again, as the I/O manager does. A failed allocation loses its record and changes
nothing, so it is a stuttering step.

`LogStream` is what the reader counts on: records accepted are received in that order,
each once, in batches; only the newest may be discarded. `StreamSpec` says that
`FortBuffer` implements it with the queue made of what is on its way to the client, what
is written to its buffer, and the blocks. Records are lost only after a close or after a
cancel routine that came late and completed a request whose data another thread was
about to hand over (`lossy`); what is received ascends even then.

An open or a last close clears the blocks and changes the device's flag in one step
here (`fortdev.c:81` and `:94`); what the code does between the two belongs to other
parts, and `FortDevice` has it step by step.

### FortConfRef

`Take` and `Put` are `fort_conf_ref_take` and `_put`; `SetBegin` and `SetStore` are the
two critical sections of `fort_conf_ref_set` (it takes the old block under one, stores
the new one under the other); `NoRef` is NULL, stored at the end of a session. An
address is free as soon as its block is deleted and may be the next one allocated, so a
stale reference is seen. Two setters may overlap: a cleanup of one client and a request
of the next (see `FortDevice`). `overlapped` remembers that it happened, because a block
is then lost (section 6).

### FortStat

| Here | In the code |
|---|---|
| `procs`, `procs_map`, `proc_free`, `proc_active`, `proc_active_count` | array, hash table, `proc_free` chain, `proc_active` chain and its count |
| `flows` | flow table: index of the process; `BadIndex` is `FORT_PROC_BAD_INDEX`; `NoFlow`: not in the table |
| `writing[t]` | a classify thread that added a process and has left the lock, its PROC_NEW record still unwritten |
| `AssociateNew`, `AssociateOld`, `ProcNewWrite` | `fort_flow_associate` of `fortcout.c`, `fort_flow_associate` and `fort_flow_add` of `fortstat.c` |
| `FlowClassify`, `FlowDelete` | `fort_flow_classify`, `fort_flow_delete` |
| `TrafFlush` | `fort_stat_dpc_traf_flush` and the loop of the log timer; it may stop after any whole record |
| `StatUpdate`, `StatClear` | `fort_stat_update`, `fort_stat_clear`, `fort_flow_close` |

Indexes count from 1. Which free index is used next is left open. The refcount wraps at
`RefWord`.

### StatSession

Adds the UI's side to `FortStat`: `m_appPidPathMap`, `logProcNew`, `logStatTraf`, and
`FortManager::updateDriverConf` in its two parts (`BeginSwitch`: the driver switches
while the UI does not read; `EndSwitch`: `StatManager::setupByConf`). The log between
them is a FIFO, which is what `StreamSpec` establishes of the log buffer. `raced`
remembers the two kinds of steps after which the records do not describe the driver's
table any more (section 6); the properties are about the behaviours without them.

### FortDefer

| Here | In the code |
|---|---|
| `list`, `next`, `free`, `pool`, `listBits` | lists of `FORT_DEFER` with head and tail, `pkt->next`, `packet_free`, packets the array has grown to, `list_bits` |
| `chain[a]`, `bits[a]`, `stage[a]` | locals of an actor that flushes: chain it injects, lists it still has to take, where it is |
| `flags[f]` | `flow->opt.flags` |
| `Add`, `ListGet`, `FlowGetTurn`, `FlowGet`, `Freed` | `fort_defer_packet_add`, `fort_defer_stream_add`, `fort_defer_list_get`, the loop of `fort_defer_list_flow_get`, `fort_defer_packet_free` |
| `TakeAcks`, `TakeStream`, `Inject`, `Complete` | `fort_defer_packet_flush`, `fort_defer_stream_flush`, `fort_defer_packet_inject`, `fort_packet_inject_complete` |
| `Receive`, `Tick`, `Rest`, `Counterpart` | `fort_flow_speed_limit`; `fort_stat_dpc_group_flush` |
| `AckCheck`, `AckDefer`, `AckPasses` | the transport callout with a pure ACK, in two steps; the injected clone that passes it |
| `SendFirst`, `SendCheck`, `SendDefer`, `SegmentCheck`, `SegmentEnd` | stream and transport callouts of a fragmented flow |
| `PowerOff`, `PowerOn`, `SetLimit`, `FlushEnd`, `Reauth` | `fort_callback_power`, `fort_device_control_setconf` with changed limits, `fort_flow_add` of a flow that is classified again |

Pointers are modelled as pointers, not as sequences: what can go wrong here is that one
`next` links a packet into a list, an injected chain and the free chain. Only the pool's
bytes and packets' contents are left out. `TakeAcks` looks at `list_bits` under the lock,
the code just before it takes the lock (`fortpkt.c:450`): bits are set and never cleared,
so the code may at most miss a packet deferred in between, as it misses one that is
deferred after the flush.

### FortDevice

| Here | In the code |
|---|---|
| `opened`, `validated`, `prov_boot`, `filter_transport` | bits of `device_conf->flags` |
| `conf_flags`, `conf`, `zones`, `filter` | `device_conf->conf_flags`, the current configuration (owner, flags, periods, mask), zones, `stat->conf_group` |
| `log_stat`, `log_timer`, `app_timer`, `prov` | `stat->log_stat`, whether the timers run, which filters are registered |
| `id_bits`, `queued` | `worker->id_bits`; the work item is in the system's queue |
| `pc`, `old`, `seen`, `update` | where a thread is; its `old_conf_flags` and `conf_flags`; what it is about to write in `period_update` |
| `Create`, `Validate`, `CleanupBegin`, `CleanupConf`, `CleanupZones` | `fort_device_create`, `FORT_IOCTL_VALIDATE`, `fort_device_cleanup` step by step |
| `SetConf`, `SetFlags`, `SetApp`, `SetZones` | the control codes that change a decision |
| `CallbackBegin`, `PeriodNone`, `PeriodRead`, `PeriodWrite`, `QueueWork` | `fort_app_period_timer`, `fort_conf_ref_period_update`, `fort_worker_queue` |
| `WorkerStart`, `WorkerClear`, `ReadOld` | the work item, `fort_worker_callback`, `fort_worker_reauth` |
| `TimerOff`, `ReadFlags`, `UpdateStat`, `Commit`, `CommitFail`, `TimerOn` | `fort_callout_force_reauth` and `fort_callout_force_reauth_prov` |
| `TimePasses` | the clock |

One application group stands for all sixteen: the control plane looks at its bit, its
period and whether it is limited, and does the same for each. `Overlaps = FALSE` restricts
a run to operations that follow each other. The neighbouring critical sections of one
request that replace the configuration and the groups of the statistics (`fortdev.c:138`)
are one step; `FortConfRef` has the two of `fort_conf_ref_set`. `MCDeviceFaults` adds the
constant choice whether the provider's transactions may fail (`faulty`), so that one run
tells apart what holds after a failure and what only without any.

### FortApps, ConfApps

`FortApps` extends `FortConfRef`: a block is now the flags of a configuration and its
`exe_map`.

| Here | In the code |
|---|---|
| `conf[r]` | the block's flags and rules; a rule's `own` is history: added by a callback |
| `job[t]` | locals of `fort_callout_classify_v4` and `fort_callout_ale_check_flags` of a callback |
| `ClassifyBegin`, `FindApp`, `AddPath`, `FailedAdd`, `WriteBlocked`, `ClassifyEnd` | take the configuration; search under the shared lock; `fort_conf_ref_exe_add_path` with its second search, or its failed allocation; `fort_buffer_blocked_write`; put |
| `ConfBegin`, `ConfStore`, `ConfPutOld`, `FlagsSet`, `ControlApp` | SETCONF in its two critical sections, SETFLAGS, ADDAPP and DELAPP |
| `db`, `listed` | table `app` with `app_alert`; programs the text of a group allows |
| `LogBlockedApp` | `ConfManager::logBlockedApp` when the record is read: a row unless there is one, marked as alerted |
| `AddApp`, `DeleteApp`, `UpdateAppBlocked` | the functions of that name: the driver first or second as in the code, either write may fail |
| `WriteConf`, `WriteFlags` | `DriverManager::writeConf` of what `walkApps` reads from the database |

The UI has one thread, so its edit is one action whose outcomes are its failures. A
write of the configuration is three steps, since callbacks act in between. `RulesAgree`
says that outside of a write of the configuration the driver has the rule of every row
and of every path in a text. It excludes programs of which a write failed, and programs
of which a record was on its way when the rule in the driver was replaced (`apart`, see
section 6). `EveryNewReported` is the converse: a rule the driver made itself has a row,
or its record is on its way.

### ConfEnds, ConfGroups

`ConfEnds` has one program that is allowed until some time (`AddAppFor`), the rows of
`sqlSelectEndedApps`, the timer of five minutes (`StopTimer`, `EndApp`) and the driver's
rules by path. `NameOf` is what the code takes for the path: the program's name.

`ConfGroups` has the configuration in use (`conf`), the copy the options edit (`edit`,
with the ids of removed groups and what has been edited), the rows of `app_group` (a
function from their ids) and `app`, and the bits of enabled groups, which are kept by
place. `AddAppGroup` to `EnableAppGroup` are the page of applications over `FirewallConf`,
`SaveAll`, `SaveOnlyFlags` and `SaveFails` are `ConfManager::save` of the copy with
`saveConf` and `applySavedConf` as one action, `SaveTrayFlags` is the tray,
`RestartGroups` a load. The driver's side is left out.

### AddressList, ProgramList, WildMatch

A list from the user's text to the driver's answer. `AddressList`: `InsertLine` is a turn
of `Ip4Range::fromList`, `AppendIp`, `AppendPair` and `Merge` those of `fillRange`, `Ask`
to `InRange` are `fort_conf_ip_inlist` with its binary search, probe by probe.
`ProgramList`: `AddParsedApp` is a turn of `parseAppsText`, `WriteApps` orders the maps as
`QMap` does, `Find`, `PrefixProbe` and `WildFind` are `fort_conf_app_find`. A path is a
sequence of 16-bit units, which the two sides compare differently. `WildMatch` is
`wildmatch`, as a function of the places in the pattern and in the path, recursive in the
first: `Loop` is the loop over the pattern, `Turn` one turn of it, `Asterisks` the case
`*`, `Places` the inner loop with its literal skip and its two ways to abort (`Ends`);
`Class` is what stands in brackets. `Means` is what a pattern means with every place tried
(`MeansFrom`). The properties compare the answer with what a line says; their exceptions
are named (`Lost`, `Hidden`, `Nested`, `Disordered`, `Short`) and are in section 6.

### FortProv, FortDriver

`FortProv` is the platform's view: `Objects` with what refers to what, and what adding or
deleting a list of them makes of a set of objects (`AddAll`, `DeleteAll`), in the order
of `fort_prov_register_callouts` and its siblings. The order matters: an object that is
referred to is not deleted, one that exists is not added.

| Here | In the code |
|---|---|
| `entry` | the step of `DriverEntry`, `fort_device_load` or `fort_driver_unload` that comes next |
| `parts`, `callouts` | what has been created, opened, registered |
| `wfp` | the provider's objects, and whether they are persistent |
| `bootFlag`, `transport`, `dconf`, `timers`, `contexts` | `FORT_DEVICE_PROV_BOOT`, `FORT_DEVICE_FILTER_TRANSPORT`, the configuration, the timers, flows with a context |
| `running` | callbacks, DPCs and the work item that have begun |
| `StartLoad` to `RegisterCallback`, `FailLoad` | the steps of loading, each of which may fail |
| `SetDriverConf`, `CloseDriver`, `Work` | `fort_callout_force_reauth` in a request, in `fort_device_cleanup`, in the work item |
| `StartUnload` to `DeleteDevice` | the steps of unloading |
| `Restart` | the system stops at any moment; persistent objects stay |

Requests do not overlap here and a reauthorization is one action with two outcomes, a
committed transaction or a lost one: that they overlap is what `FortDevice` is about.
`told` is the boot flag of the configuration that was last committed, "unknown" after a
failure that the code does not repair; `stuck` and `late` remember a removal that failed
and calls that outlive their session (section 6).

### LogReader

| Here | In the code |
|---|---|
| `reader`, `got` | `DriverWorker::run` and where it is: before or in the wait for a buffer, between the check and the ioctl ("armed"), in it, after it |
| `m_isLogReading`, `m_cancelled`, `m_aborted`, `m_logBuffer` | `DriverWorker`'s fields |
| `main`, `goal`, `resume` | the UI's thread in `cancelAsyncIo`, and what it does after; `wasCancelled` |
| `results`, `m_freeBuffers`, `m_active` | queued signals `readLogResult`; `LogManager`'s buffers and flag |
| `WaitLogBuffer`, `ReadLog`, `EmitReadLogResult` | the reader's steps between critical sections |
| `CancelIo`, `CancelAsyncIo`, `Cancelled`, `BeginWrite`, `EndWrite` | `Device::cancelIo`, `DriverWorker::cancelAsyncIo`, its end, `DriverManager::writeData` |
| `Activate`, `Deactivate`, `ProcessLogBuffer` | `LogManager::setActive`, `processLogBuffer` |
| `BeginClose`, `CloseDevice`, `OpenDevice`, `Abort`, `EndClose` | `close`, `open`, `~DriverManager` |

Its driver is what `LogStream` promises: a FIFO whose request can be cancelled.
`escaped` is the one window of the code: a reader that has announced its request but not
made it misses the cancellation (section 6); after it nothing is claimed.

### WorkerPool, HostInfo

`EnqueueJob`, `ClearJobs`, `AbortWorkers`, `DequeueJob`, `Expire`, `DoJob`,
`WorkerFinished` are the functions of `WorkerManager` and `WorkerObject::run`; the one
condition variable is modelled by who is woken (`WakeOne`, `WakesOwner`). `HostInfo`
adds the cache: `HostName` shows a name and may enqueue a job and evict an entry,
`HandleFinishedLookup` takes a result, `Clear` and `Destroy` as in the code.

### Rpc

`serverVars` are the service's managers and what it knows of each client, `toServer` and
`toClient` the two directions of a pipe, `client`, `m_resultCommand`, `call` a client in
`RpcManager::doOnServer` and `waitResult`. `Connect`, `LoadConf`, `DoOnServer`, `Read`,
`Timeout`, `Disconnect` are a client's steps; a call saves an edited copy of the
configuration, or flags that the client has already set in its own (`Own`, as
`saveTrayFlags` does), which stay set when the service refuses them (`refused`); `Serve`
is one message in the service, with `Welcome` (`initClient`), `CheckPassword`, `SaveConf`
and the notifications it sends; `DriverChange` one of the driver. A message on a pipe is
not lost nor reordered; what is late is late beyond the 700 ms of `waitResult`.

### Tasks

`RunExpired`, `Run`, `RunTask`, `AbortTask` are `TaskManager`, `TaskInfo` and what a task
does in them; `ZoneFinished` is the end of one zone's download, with everything it calls
in turn: storing the file (`Outcome`), the result (`AddSubResult`), the next zone
(`SetupNextTaskWorker`) or the end of the run (`WorkEnds`, `EmitZonesUpdated`,
`WriteZones`, `RemoveOrphans`). The user adds, deletes and changes zones and saves a
zone's text meanwhile; sources change (`HoursPass`); the program restarts, also between
the file of a zone and its row. Writes fail: the driver may refuse the zones at the end of
a run (`EmitZonesUpdated`), the row of a finished zone may stay as it was (`kept`), and so
may the row of a zone whose flag the driver has just taken (`UpdateZone`, `unsaved`); each
failure counts as one of the bounded acts (`MaxEdits`). `odd` remembers which of the
code's weaknesses (section 6) happened to the last run.

### StatDb, StatQuota

`StatDb` has the tables as functions from row ids, which SQLite gives out as the largest
one plus one, the caches beside them (`m_appPathIdCache`, `m_connBlockIdMin`, `_Max`,
`_Inc`), the list's range, and one action for each function of `StatManager`;
`deleteOldConnBlock` is in steps, as the program may end between its two statements.
`StatQuota` has hours for the time, the tables by day and month, and the counters beside
them: `LogTraffic` is `logStatTraf` with `updateTrafDay`, `deleteOldTraffic`,
`QuotaManager::checkQuota*`; `SaveOptions` what the options page does; `StartAgain` a
restart. What is written twice in the code, for day and month, is written once.

Parts that share nothing are checked by one configuration: `MCStatistics` is a driver
and UI session, or a database; `MCService` a service with its clients, or a quota;
`MCUiThreads` a log reader or a worker pool; `MCConfLists` a list of addresses, of
programs, the zones, or the groups of programs. A behaviour is of one part
from beginning to end (`part`, or the parts that have ended), so their state spaces add
up and do not multiply. `MCDriver` is the control plane of `FortDevice` or the life of
the driver. `MCConfApps` is `ConfApps` on `FortApps` on `FortConfRef`.

## 3. The runs

Two kinds: a run that passes shows its properties for all behaviours within its bounds;
a run that is expected to find a violation shows a disagreement between the code and
what the code's own comments or definitions say (section 6).

| Run | Configuration | Checks | Distinct states |
|---|---|---|---|
| `buffer_stream` | `FortBufferStream_All` | `NoRequestForgotten`, `NothingLost`, `StreamSpec` (refinement), `EveryRecordRead` (liveness) | 112,490 |
| `buffer_ip_record` | `FortBuffer_IpRecord` | `RecordsFitAlways`: violated | |
| `apps` | `MCConfApps_Rules` | `HeldIsLive`, `RulesAgree`, `EveryNewReported` | 3,484,014 |
| `apps_end_times` | `MCConfEnds_Block` | `EndedIsBlocked`: violated | |
| `statistics` | `MCStatistics_All` | `FlowsOnLiveProc`, `TrafficExact`, `TablesAgree`; `TableBounded`, `RowsAgree`, `ListFollows`, `NewestKept` (action property) | 1,486,975 |
| `defer_acks` | `MCFortDefer_Acks` | `PoolSound`, `AsleepEmpty`, `NotStranded`, `EveryAckSent` (liveness) | 287,582 |
| `device_settled` | `MCDeviceFaults_Settled` | `Settled`, `Reauthorized` (liveness) | 369,656 |
| `device_overlap` | `MCDriver_Overlap` | `NoStaleDecisions`; `NothingLeft`, `BootKept`, `ClosedUnused`, `NeverRefused` | 1,791,674 |
| `ui_threads` | `MCUiThreads_Run` | `RecordsInOrder`, `CancelEnds`, `LogIsRead` (liveness); `JobHasWorker`, `NamesArrive`, `CloseEnds` (liveness) | 146,332 |
| `service` | `MCService_All` | `AnswersMatch`, `StateFollows`, `ConfFollows`; `QuotaAlerts` | 1,273,553 |
| `conf_lists` | `MCConfLists_Find` | `AddressDecided`; `ProgramDecided`; `ZonesInDriver`, `ZoneFlagsAgree`; `GroupsInTable` | 2,986,149 |
| `groups_place` | `ConfGroups_Places` | `RulesAtPlace`: violated | |

What is proved for all instances (section 5) and follows from the shape of the core
invariants is not checked a second time: `OverrunBounded`, `PendingConsistent`, `OneHolder`,
`RefcountExact`, `NoLeak` and the other properties of the proof modules that the table
does not name.

**Bounds, and why they are enough.**

- `buffer_stream`: a block and a request hold four bytes, records one or two, so both
  fill, overflow to the next block, and leave a rest smaller than the flush limit; three
  records are enough for two blocks, a request that is flushed in the middle and one
  after it. Records of 3 bytes exceed `LogSizeMax`, so a request's buffer is overrun and
  the wrapped subtraction is met; a request for 3 bytes is there to be refused. One
  cancel allows a canceller that comes too late, one close a session after it.
- `buffer_ip_record`: the sizes of the code (block and request of 16,320 bytes, records
  of 520 and 536).
- `apps`: two callbacks of one program (more programs do not interact), so both search
  before either adds; two addresses for blocks, so a replaced block's is used again at
  once; one unread record, so the buffer is full as soon as there is one. Every edit of
  the user, with every failure of its two writes, in any number: the state is finite
  without a bound on them. New programs are allowed or blocked.
- `apps_end_times`: one callback, one program and the name that is taken for its path.
- `statistics`, session: two flows of one process and one of each of two others; a table
  of two processes (`ProcMax` 3: the array stops one short) is full with the second, so
  the third process is refused or gets an index that was freed; two classify threads owe
  PROC_NEW records at once; `log_stat` is switched twice, so flows of an old session meet
  new processes at their old index. A record has one process, so the timer writes two and
  may stop between them for want of memory; the log has room for three. `Unraced` cuts off
  the behaviours after a race, of which the properties say nothing by definition.
- `statistics`, tables: two programs, of which one can be gone and its id used again;
  five connections with two to be kept and pruning every two, so that pruning happens
  twice and with rows left over; two other changes or restarts, the least for a deletion
  by rows told earlier followed by a restart.
- `service`, quotas: days of two hours, months of two days, three hours and four
  records of one byte: a day and a month begin with and without records before them, a
  quota of one is met and exceeded, and raised to three after that; three changes of
  options (two of them with a restart in between is the least for a quota that is
  changed unnoticed), clearings or restarts, in every hour. Rows of days are kept for
  ever or for the shortest time, those of months for one.
- `defer_acks`: two packets (one of each list, or both of one), one flow with both a
  limit and fragmentation, so ACKs and cut segments share the pool; data of 2 reaches
  the limit exactly and of 4 exceeds it by more than a period. `PoolSound` and
  `NotStranded` are stated for one fragmented flow, since with two the code's stream list
  breaks (section 6).
- `device_settled`: the three configurations together switch every flag the
  reauthorization looks at, on and off; seven operations are enough to go from any of
  them to any other over a close and a new session. The provider fails in some behaviours
  and never in others.
- `device_overlap`: two clients, the worker and one callback, in every interleaving,
  with failing transactions; two operations are the least in which the cleanup of one
  client overlaps the configuration of the next. More of each is covered by the proof.
- `device_overlap`, life of the driver: two loads are the least for what one leaves to
  meet the next, over a restart or an unload; every step fails or does not. One call runs
  at a time: calls act on each other through the flows' contexts and the work item only,
  which outlive a call. Three configurations switch each flag on and off.
- `ui_threads`: three records with two buffers, so a read is started while a result waits
  and a third record comes; reading is switched, cancelled and closed any number of
  times. Two workers, as `HostInfoManager` has; three addresses and a cache of two, so
  entries are evicted while looked up; at most three jobs at once.
- `service`, calls: two clients, so that one changes what another has to hear of; two
  calls, the least for a late answer to be taken for another's; three sessions, so a
  client reconnects; two changes of the driver. With and without a password.
- `conf_lists`: three lines are enough for a range inside another, beside another and one
  of the same start, and for a merge before and after; six addresses leave gaps and reach
  the last one. Three letters of two bytes, paths of two: folders in one another and short
  paths, and two pairs of letters that the driver orders otherwise than the UI, one by the
  place of the bytes (two scripts) and one by their sign (ASCII and not). Patterns of four
  tokens of `a \ ? * ** [ [!a] [a-b]` on every path of up to three of `a b \`: every
  return of `wildmatch` is passed through two levels of asterisks. Two zones of three, two
  sources and two times, two edits, restarts or failed writes: one zone fails and the
  other does not; ids are used again; a change falls between any two steps of a run. Three
  groups, one of which a program belongs to, and three changes, failed saves or restarts
  in any order: a group that is added, removed, and added again with the id of the first.
- `groups_place`: the default group and one that is added and moved.

For every property, a mutant in `PROJECT.json` names a plausible mistake in the code
under which TLC finds the property violated with the same bounds: the cases the property
is about do occur in the run.

**Deadlock** is checked where timers tick or sessions open in every state. It is off in
`ui_threads` (a manager that was closed does nothing more), in `conf_lists` (a list that
was answered for; zones and groups whose bounds are used up), in `service` and in
`statistics` (the bounds on calls, hours and changes end a behaviour), and in
`device_overlap` (the loads of the driver are bounded). Symmetry is used in runs without
liveness only.

## 4. Fairness

Liveness needs assumptions on the scheduling; each is what the code's environment gives.

- *Log buffer* (`FortBuffer!Fairness`). The periodic log timer fires and its DPC ends
  (WF). Callbacks and dispatch routines that have begun return: WF on completing a
  request taken out, on setting the cancel routine. Cancel routines, opens and GETLOG
  need the buffer's lock while the timer takes it again and again; the lock is a queued
  spin lock (`KeAcquireInStackQueuedSpinLock`), which is granted in the order of the
  requests, hence SF. The client reads: after a request completes the UI's reader issues
  the next one (SF on GETLOG; the run `ui_threads` is about that reader). Nothing is
  assumed of the classify callbacks: connections may stop.
- *Deferred packets.* The log timer runs and finishes a flush (WF). A sender whose data
  is not acknowledged repeats it (WF on `Retransmit`, once in a period): without that a
  deferred ACK may wait forever, because the code flushes only in a period in which the
  group received something. This is a real dependence of the code on TCP, and is named
  in the hazards. No fairness for the completion of an injected packet is needed.
- *Control plane.* Every thread that has begun an operation goes on (WF). A queued work
  item is taken by a system thread: SF, since in the run without overlaps it may only
  begin between other operations, which is a restriction of the run and not of the
  system.
- *Log reader* (`LogReader!Fair`). The driver answers a request once it has a record or
  the request was cancelled (`Complete`, WF: `FortBuffer`'s `EveryRecordRead` and its
  cancellation). The reader's thread and a main thread in the middle of an operation go
  on (WF). The event loop delivers the queued results in turn, and the reader gets the
  mutex to take its buffer: SF, as the user may interrupt with a write or a switch again
  and again, each of which disables the step for a moment only. No user acts for the
  sake of progress: nothing is assumed of opening, switching or closing.
- *Workers* (`HostInfo!HostFair`). Threads that were started run (WF on each), results
  are delivered, and an abort that was begun goes on (WF).

The other modules use no fairness: their properties are safety.

## 5. The proofs

The theorems are of the form `Spec => []P` or `Spec => [][A]_vars`, and two are
refinements: `Spec => StreamSpec`, the log buffer implements a FIFO; and `SessionSpec =>
Spec`, the driver in a session with the UI is the driver of `FortStat`, so that what is
proved of that holds in the session. They hold for all values of the constants that
satisfy the modules' assumptions: any number of threads, requests, processes, flows,
clients and addresses, any sizes, and any bounds.

| Module | Theorems | Assumptions |
|---|---|---|
| `ConfProof` | `ConfRefInvariant`, `ConfRefTypes`, `NoUseAfterFree`, `CurrentStaysLive`, `RefcountIsExact`, `NothingLeaks`, `FreshIsFree`; `AppsInvariant`, `AppsUseBlocks`, `AppsHeldIsLive`, `RulesFollowUser`, `NewAreReported`; `AddressInvariant`, `AddressIsDecided`; `TasksInvariant`, `DriverHasZones`, `FlagsOfZonesAgree` | `ConfRefAssumption`: finitely many threads; `AppsAssumption`, `UiAssumption`; `AddressAssumption`; `TasksAssumption`: a zone has a source at least, `TasksNone` |
| `FortStatProof` | `CoreInvariant`, `TypeCorrect`, `IndexesAreSplit`, `FlowsCountOnLive`, `RefcountsExact`, `ActiveChainSound`, `PidsOnce`, `TrafficIsExact`, `OffMeansEmpty`, `FlowsKeepProc`, `GoneWithoutFlows`; `SessionIsDriver`, `SessionInvariant`, `TablesStayEqual`; `DbInvariant`, `TableStaysBounded`, `RowsStayTogether`, `ListShowsRows`, `NewestStay` | `StatAssumption`; `RefAssumption`: fewer flows than a refcount can count (65,536); `StatDbAssumption` |
| `FortDeviceProof` | `DeviceInvariant`, `DeviceTypes`, `QueuedOnce`, `DecisionsNotStale`, `ClosedDeviceIsClear`; `SettleInvariant`, `ControlsSettle` | `DeviceAssumption`, `NoneAssumption` |
| `DriverProof` | `TypeCorrect`, `RoomInvariant`, `OverrunIsBounded`, `PendingIsConsistent`, `RequestHasOneHolder`, `RequestNeverForgotten`, `OnlyCancelledTwice`, `LossInvariant`, `NoRecordLost`, `BufferIsStream`; `DriverInvariant`, `NothingIsLeft`, `BootIsKept`, `ClosedIsUnused`, `ReauthNeverRefused` | `BufferAssumption`: a record fits a block, sums stay below `Word`; `IrpAssumption`: NULL is no request; `BoundAssumption`; `DriverAssumption` |
| `FortDeferProof` | `DeferInvariant`, `PoolStaysSound`, `AsleepIsEmpty`, `NoneStranded` | `DeferAssumption`: finitely many flows and packets, NULL is none of them |
| `UiThreadsProof` | `RecordsAreInOrder`; `PoolInvariant`, `EveryJobHasWorker`, `OwnerIsWoken`, `NoMoreWorkers`; `GroupsInvariant`, `GroupsStayInTable`; `MatchIsMeant`; `ProgramInvariant`, `ProgramIsDecided` | `PoolAssumption`; `GroupsAssumption`: a group has some text; `ProgramAssumption`: units of two bytes, and natural numbers |
| `ServiceProof` | `RpcInvariant`, `AnswersAreOwn`, `StateComes`, `ConfigurationComes`; `QuotaInvariant`, `ToldOnce` | `QuotaAssumption` |
| `SequenceLemmas` | lemmas about sequences, flattening, folds and least elements that the others cite | |

`RefAssumption` is the one assumption the code does not enforce: a process with 65,536
flows at once wraps its UINT16 refcount to 0 (section 6).

**Inductive invariants**, and why the properties are not inductive by themselves:

- *Room in the request's buffer.* `OverrunBounded` says nothing about how close to its end
  a buffer is before the next record. `Room` does: after each record at least `LogSizeMax`
  bytes are left, or nothing was written yet, or a longer record has overrun the buffer,
  and then `UsePending` admits no other. So an overrun is one record's, by the bytes it
  exceeds `LogSizeMax` (16 with the code's sizes). That there is none at all is not true
  of the code (run `buffer_ip_record`) and is not claimed.
- *Owners of requests.* `OneHolder` needs to know that a request in the buffer is
  pending, is the one the client waits for, and that what is held is pending or has been
  cancelled (`OwnerInv`). The interesting case is the canceller that comes too late.
- *Configuration reference.* `RefcountExact` counts holders, so each step moves one
  thread in or out of a finite set (`HoldersFinite` and the cardinality lemmas after
  it). Liveness of what is held needs that a thread holds something exactly when its
  place says so (`PcHeld`), and that a block about to be stored is private to its setter
  (`NewIsPrivate`); `NoLeak` needs that there is one setter as long as `overlapped` is
  false (`LoneSetter`).
- *Statistics.* The core invariant joins the split of the indexes, the flows' processes,
  exact refcounts, the chain, unique pids and exact bytes: each step of the proof uses
  several. A refcount that is 0 modulo `RefWord` is 0 because of `RefAssumption`; a
  freed process has no flow because its refcount is exact; an index that is used again
  has no flow because a free index has none.
- *Session of driver and UI* (`SessionInv`). `TablesAgree` says what the UI's table will
  be once it has read the log, `KnowsAt` of every place in it. The inductive part is that
  each unread record fits both tables (`RecordsFit`: a new process is one the driver has,
  or one whose gone record comes later; each pid in turn is new, counted, gone), that the
  records still owed by classify threads fit after them (`DebtsFit`), and that nothing is
  open when the UI logs no statistics; unless `raced`. That a step adds at the end of the
  log or takes from its front is a lemma about `KnowsAt` each.
- *Control plane.* `IInv` adds to the types that what a thread is about to write has
  been read (`UpdateInv`); that the bits of the worker are set exactly while the item is
  queued or its callback is about to clear them, one callback at a time (`WorkInv`);
  that one client at most is connected, and that what a session left belongs to one that
  is connected or still has to clear it (`SessionInv`). `NoStaleDecisions` is then
  preserved by every step although operations overlap: a callback that finds the bits
  set relies on an item that has not read the flags yet.
- *Controls that settle* (`SettleInv`). `Settled` says nothing while an operation runs.
  The inductive part says how far one has come (`Phase`): as long as it has changed
  nothing, everything is in line (`QuietInv`); from then on the old flags it has read are
  those the statistics and the filters still follow, then the app timer is right, the
  flags it has seen are the device's, and at the end all but the log timer is. It needs
  that operations do not overlap (`Alone`), and that the transport flag follows the
  group's bit unless a change of period is still on its way (`TransportInv`).
- *Records in the log* (`LossInv`). `NothingLost` is inductive together with what keeps
  two holders from one request, and a holder from a request nobody reads, unless somebody
  has missed a cancellation or left. For the FIFO of `LogStream` the mapping flattens the
  blocks: that flattening a sequence of blocks is the blocks one after the other is a
  lemma of `SequenceLemmas`.
- *Rules of programs* (`AppsInv`). `RulesAgree` compares the database with the driver's
  store while changes are under way in the log and in callbacks: what is on its way says
  what the rule says, rules of the user have a record, no program has two, a new block
  has what the database says, and a thread judges by the current block unless `apart`.
- *Lists of addresses* (`AddressInv`). From the lines to the answer in three parts: the
  map has every line but those that were `Lost`; the arrays are in ascending order and
  have what the keys taken so far have, each range ending before the next begins unless
  something is `Hidden`; and the address is neither left of `low` nor right of `high`
  (`Narrowed`), so that at the end the range before it is the only one that can have it.
- *Zones* (`TasksInv`). `ZonesInDriver` speaks of the end of a run. While it goes on, the
  zones it has finished are those with the lowest ids, as many as its index says, what it
  has collected are their files, each at the place of its rank among the collected
  (`Collected`), and the worker is for the next one, unless the user has moved the rows.
  The flags it has collected are the rows' (`Masked`, `FlagsKept`) unless a row was moved,
  toggled or not updated during it; the driver's are the rows' but for the `unsaved`.
  That the row of a number exists and has just so many below it is proved by induction on
  the number (`RankExists`).
- *Tables of the UI* (`DbInv`). The rows of blocked connections are an interval, the
  range counted beside it (`m_connBlockIdMin`, `_Max`) is that interval or unknown, rows
  are in pairs, numbers of programs are unique, and the list has the range or will be
  told of it.
- *Driver entry and unload* (`DriverInv`). What is open at each step of the load, of the
  session and of the unload, also after steps that failed (`PartsInv`, `SessionInv`);
  which calls may still run then (`RunningInv`); and that the provider's objects are those
  the driver believes them to be, unless a transaction failed (`ObjectsInv`).
- *Deferred packets* (`Arranged`). `PoolSound` speaks of what is reachable along one
  `next` pointer, which is not inductive: a step relinks packets of one place and must
  not touch those of another. The inductive part names, for every place, the set of its
  packets and says that they are linked from its head to its tail (`Leads`), that the
  sets are disjoint, and that together with the packets being injected they are the
  pool. Lemmas about links (one is put before the others, taken from there, added at the
  end; two chains are joined) give each critical section; that the loop of
  `fort_defer_list_flow_get` takes the list as it is when all its packets are the flow's
  is an induction over its turns (`FlowGetAll`). `AsleepInv` and `SerialInv` need none of
  this and hold with any number of fragmented flows. The attempt showed that
  `NotStranded`, unlike what its run could show, is false for two fragmented flows, as
  a consequence of the list that breaks (section 6): it is stated for one now.
- *Log reader* (`ReaderInv`). What the managers saw, what is queued for them, what the
  request holds and what the driver has left are one run of numbers, also when a result
  is for a request that was cancelled. *Worker pool* (`PoolInv`): a job in the queue has
  a worker that is awake, that was woken, or that will look at the queue before it leaves.
- *Service and clients* (`RpcInv`). `ConfFollows` says what the messages on a pipe will
  lead to; the inductive part is that nothing is on the way to or from a client that is
  gone, that one that is not known yet is sent answers only, and that the newest flags
  under way are the service's, since flags and whole configurations overtake each other
  when several are read at once. Flags of the client's own copy are excused as long as the
  call that carries them is unserved (`Asked`) or after it was refused; once it is served,
  the notification sent to all clients ends both. `LastOf` of two sequences one after the
  other is the lemma the steps rest on.
- *Quotas* (`QuotaInv`). Of a period that is counted as it should be (`flawed` is false),
  the counter is the table's, the `.ini` file has the alert the user was told, and of
  that period there is more than the quota. That every first hour of a day or month is
  one of the tables' rows is arithmetic, proved for all lengths of days and months. The
  attempt showed that the property was false beyond the former bounds of its run, for a
  month that comes again and for a quota changed unnoticed (section 6): the history
  variables name these cases now, and the bounds are larger.

- *Groups of programs* (`GroupsInv`). `GroupsInTable` compares the options' copy or the
  configuration in use with the rows. While the copy is edited, its groups and the ids it
  removed are together those of the rows, and a group whose row differs is marked as
  edited; new groups have no id yet. A save goes over the groups one by one: what the
  rows are after each (`SavedUpTo`) is an induction over the groups saved. The recursive
  function that saves them exists by induction on the natural numbers
  (`NatSetInduction`), since a recursive definition is a CHOOSE to the prover. Places of
  the groups after one is moved or removed are lemmas of `SequenceLemmas`.
- *Patterns* (`MatchIsMeant`: `Wildmatch(p, t) = "match"` exactly when `Means(p, t)`, for
  all patterns and paths). That a result is "match" where it should be is not inductive:
  the loop at an asterisk stops at the first place that says so. `Verdict` is what each
  result tells of other places: "abort_all", that the rest of the pattern matches at no
  later place of the path; "abort_to_starstar", at none up to the next separator;
  "nomatch" tells nothing of them. Both are true only of places where the rest may begin
  (`MayBegin`: behind a separator if the pattern has one there). It is proved for all
  places of the path at once, by induction from the pattern's end to its begin
  (`Judged`), with a lemma for each kind of character; `PlacesJudged` is the inner loop.
- *Programs* (`ProgramInv`). The maps have the paths of the lines added, each with its
  first line; the arrays are the maps' keys in order (that one such order exists is an
  induction over finite sets, `SortExists`). While folders are searched, none that the
  path is in has been left out (`Searched`), if the folders are `Plain`: a folder g that
  the path is in lies on the side of the probed folder f that the path's bytes tell
  (`SameWay`), and that side is the right one if the two orders agree on f and g.

Proof layout: typing lemmas per part of the state, one lemma per conjunct with one step
per action, then the theorem from `Init`, the step and PTL.

**Proved and not model-checked any more**: of `FortBuffer`
`OverrunBounded`, `PendingConsistent`, `OneHolder`, `CompletedOnce`; of `FortConfRef`
`CurrentIsLive`, `RefcountExact`, `NoLeak`, `FreshIsUnused`; of `FortStat`
`IndexesSplit`, `RefcountExact`, `ActiveChain`, `NewsIsActive`, `PidOnce`, `OffIsEmpty`,
`FlowKeepsProc`, `GoneHasNoFlows`; of `FortDevice` `ItemQueuedOnce`, `ClosedIsClear`; and
their types.

**Proved and model-checked**: `NoRequestForgotten`, `NothingLost`, `StreamSpec`;
`HeldIsLive`, `RulesAgree`, `EveryNewReported`; `FlowsOnLiveProc`, `TrafficExact`,
`TablesAgree`; `TableBounded`, `RowsAgree`, `ListFollows`, `NewestKept`;
`NoStaleDecisions`; `Settled`; `NothingLeft`, `BootKept`, `ClosedUnused`, `NeverRefused`;
`RecordsInOrder`, `JobHasWorker`; `AnswersMatch`, `StateFollows`, `ConfFollows`,
`QuotaAlerts`; `AddressDecided`, `ProgramDecided`, `ZonesInDriver`, `ZoneFlagsAgree`;
`GroupsInTable`; `PoolSound`, `AsleepEmpty`, `NotStranded`. The theorems are about each
component's own specification; a run of several components takes one of them at a time.

**Only model-checked**: liveness (fairness and ENABLED are beyond the prover's reach).
Every invariant and every action property of a passing run is proved as well. Recursive
definitions are functions throughout, since RECURSIVE operators take the SMT backend from
every module that reaches them; that such a function exists is itself proved, as for the
groups (`ClassExists`, `LoopExists`, `MeansExists`).

The theorems of the library that prove by induction take a predicate as a parameter and
cannot be used; where a lemma about sequences needs induction it is by the least
counterexample, from the well-foundedness of the natural numbers (`SequenceLemmas`), or
over a set of numbers (`NatSetInduction`).

## 6. What the code does that it should not

Shown by runs that find a violation; the quoted lines are in `PROJECT.json`.

- `buffer_ip_record`: `FORT_LOG_SIZE_MAX` is not the largest record; a blocked-IP record
  may be written up to 16 bytes past the end of the client's buffer.
- `apps_end_times`: `updateAppEndTimes` reads the wrong columns (`confmanager.cpp:872`);
  a program that is allowed until some time is not blocked by the driver then.
- `groups_place`: `moveAppGroup` and `removeAppGroup` leave the `order_index` of the
  groups behind as it was (`firewallconf.cpp:191`), and rules are written to the driver
  with it: programs get the state and the limits of another group.

Met while modelling. No line of the repository promises otherwise, or the promise is no
property; where a property would be violated, it names the case it leaves out.

*Driver*

- Two overlapping replacements of the configuration lose a block (`overlapped` in
  `NoLeak`). They occur because the device can be opened while the cleanup of the last
  client still runs (`fortdev.c:81`), which then clears the new one's configuration too.
- The log timer may report a process before the callback that added it has written its
  PROC_NEW record (`fortcout.c:103`); the UI logs a mismatch and drops the bytes
  (`raced`). So does a switch of `log_stat` with unread records.
- `fort_stat_clear` frees processes while it goes through the hash table
  (`fortstat.c:277`); a refcount is 16 bits wide (`fortstat.c:45`).
- A stream list with packets of two flows is taken apart wrongly by
  `fort_defer_list_flow_get` (`fortpkt.c:207`): a packet that is taken out stays linked
  from one before it that stays, and taking the last sets the tail to NULL (`PoolSound`
  and `NotStranded` are about one fragmented flow).
- The stream callout of a flow decides to defer, the transport callout of the same flow
  flushes and marks it, the packet is then deferred and waits until the whole list is
  flushed, when the power goes off (`StreamRace` in `NotStranded`); likewise when a
  later packet is refused (`refused`).
- An ACK whose deferral was decided before the power went off sleeps with the system
  (`overtaken` in `AsleepEmpty`).
- Removing a limit flushes the list of the other direction (`fortdev.c:141`): ACKs that
  were deferred for it stay in theirs.
- A group with an outbound limit only: its flows are marked for an inbound limit
  (`ConfFlags`), the inbound limit is 0, so every ACK is deferred, and the timer never
  finds the group below it.
- A provider transaction that fails leaves the new flags with the old filters, and the
  next reauthorization compares new with new (`faulty` in `Settled`); reauthorizations
  that overlap leave the log timer as the one that ends last has read it (`Overlaps`).
- `period_update` writes group bits for the configuration it read, which may have been
  replaced since (`fortcnf.c:480`); the index of a new program's node wraps at 65,536
  (`fortcnf.c:209`).
- A request cancelled while it is completed may be completed twice (`fortdev.c:110`;
  `CompletedOnce` names the case).
- A device that could not be created is deleted nonetheless (`entry = "crashed"`). A call
  that began in the session and still runs when the driver is unloaded finds closed what
  it uses: parts are closed before callouts and callbacks are unregistered, and the work
  item is freed while it may be queued (`fortdev.c:354`, `late`). A transaction that
  fails in the session leaves the filters of the flag before (`told = "unknown"`).

*Rules and lists*

- A record that is read after its rule was replaced makes a row the driver does not act
  by, until the configuration is written again (`apart` in `RulesAgree`).
- `addApp` writes to the driver first and to the database second, `deleteApp` the other
  way round: when the second fails they differ until the next whole write (`failed`).
- `updateAppBlocked` does not start the timer of end times.
- A save of groups that fails half-way forgets which groups were edited
  (`confmanager.cpp:333`), and the repeated save does not write them (`torn` in
  `GroupsInTable`). The bits of enabled groups are kept by place: after groups were moved
  or removed without a change of flags they are another group's.
- Of two ranges with the same first address the last wins (`ip4range.cpp:90`, `Lost`);
  after a range that ends with the last address the next one is hidden from the search
  (`ip4range.cpp:175`, `Hidden`).
- Folders are ordered by UTF-16 units and searched by bytes, which are signed in the
  driver's build (`fortconf.c:195`, `fortconf.c:9`): folders in two scripts, or that end
  in an ASCII letter and in another, may not be found (`Disordered`); of nested folders
  either is found, or none (`Nested`); a path that begins a folder's matches it
  (`fortconf.c:167`, `Short`).
- A line `**`, which means every path, is taken for a folder with an empty path and
  ignored (`confutil.cpp:434`); patterns are tried in the order of their characters, not
  of their lines.

*User interface and service*

- A reader that has announced its request but not made it misses a cancellation, and the
  UI waits in `cancelAsyncIo` until the driver has a record (`driverworker.cpp:43`,
  `escaped`). A log manager that is closed while active reads again at once
  (`logmanager.cpp:103`).
- Jobs that come while the last workers leave wait for the next job
  (`workermanager.cpp:84`, `missed`).
- The answer to a call that timed out is taken for the next one's (`rpcmanager.cpp:340`,
  `call.stray`); a change between a client's load and its introduction is not heard of
  (`rpcmanager.cpp:414`, `missed`); checking a password sends no result
  (`rpcmanager.cpp:502`); ten clients are accepted for nine (`controlmanager.cpp:114`).
- A client sets flags in its own configuration before it calls (`trayicon.cpp:306`) and
  keeps them when the service refuses them or the call times out: until the service
  serves the call, or tells of a later change, the client shows what is not in force
  (`Asked`, `refused` in `ConfFollows`).
- The timer of tasks is set for the task that ran, and may leave others overdue
  (`taskmanager.cpp:134`). An aborted run sends only the zones it has come to and removes
  the files of others; data are paired with bits by ascending ids (`confutil.cpp:190`);
  a flag switched during a run is overwritten at its end; a free id is used again with
  the file of the zone before (`odd`).
- When the driver does not take the zones at the end of a run (`confmanager.cpp:1164`,
  `fortdev.c:225`), or the row of a downloaded zone cannot be updated, the files are new
  all the same and the driver keeps the old zones until the next run that it takes (`cut`
  in `odd`). The flag of a zone is set in the driver before the row is written
  (`confmanager.cpp:962`): when that fails they differ (`unsaved` in `ZoneFlagsAgree`).
- `deleteConnBlock` forgets the range of a table when one row is left
  (`statmanager.cpp:706`, `oneLeft`); the list deletes by rows it was told of earlier
  (`connectionspage.cpp:280`, `gone`).
- The quota of a month is saved under another key of the `.ini` file than the one it is
  read from (`inioptions.h:51`): one that the user sets never alerts.
- The bytes of a day or month before the first record of a start are counted for the next
  one (`statmanager.cpp:183`); a change of the month's first day is applied to the next
  month only; the shortest retention removes rows that are current. When the driver
  does not take the saved options, `StatManager` is not told of them; the quota in them
  is in force after the next start, with the alert of the old quota still in the `.ini`
  file, so that a quota that was raised gives no alert on that day (`quotamanager.cpp:69`).
  `flawed` in `QuotaAlerts` has these cases. A month that comes again, when its first day
  was changed twice, is told of again: a new month has begun in between (`told`).

## 7. What is not modelled

- *Pure I/O, presentation, generated or vendored code*: forms, models (but for the list
  of connections), windows, logger, utilities, vendored libraries, the user-mode stubs of
  the kernel (`um_fwpsk.h`, `um_fwpmk.h`).
- *Address groups and services* of a configuration, which are saved as groups are, and
  speed limits per group beyond the one of `FortDefer`.
- *Application information*: a third client of `WorkerPool` with a cache in a database;
  the pool is modelled, the cache is as `HostInfo`'s but for its table.
- *Data inside of records and configurations*: addresses, ports and times are abstracted
  to what the control flow looks at, except where a search is the subject.

More than half of the implementation's lines are headers of constants, forms, models and
vendored code, so the share of lines that `map` covers stays low even with every
component above modelled.

## 8. Plan

Done in the first step: `FortBuffer`, `LogStream`, `FortBufferStream`, `FortConfRef`,
`FortStat`, `StatSession`, `FortDefer`, `FortDevice`, and the first proofs of section 5.
Since then: `FortApps` and `ConfApps`, `LogReader`, `WorkerPool` and `HostInfo`, `Rpc`,
`AddressList`, `ProgramList` and `WildMatch`, `Tasks`, `StatDb` and `StatQuota`,
`FortProv` and `FortDriver`, `ConfEnds` and `ConfGroups`; and the proofs about the order
of records, rules, tables, the driver's life, the threads of the UI, the service, lists
of addresses, zones, the pool of deferred packets, the session of driver and UI, groups,
programs and patterns.

Left, in the order of importance:

1. `AppInfo` as a second client of `WorkerPool`, with the table of its cache.
