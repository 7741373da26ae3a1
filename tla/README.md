# Verification of munin-node-win32

TLA+ models of munin-node for Windows, the TLC runs that check them on small instances, and TLAPS proofs
of their most important properties for every value of the constants. Paths below are relative to the
repository: `core/X` stands for `src/src/core/X`, `plugins/X` for `src/src/plugins/X`, and so on.

Contents: [1 the system](#1-the-system) · [2 plan](#2-plan) · [3 the modules](#3-the-modules) ·
[4 the runs](#4-the-runs) · [5 fairness](#5-fairness) · [6 the proofs](#6-the-proofs) ·
[7 what the runs found](#7-what-the-runs-found) · [8 not modelled](#8-what-is-not-modelled)

## 1 The system

munin-node is a Windows service. A munin master opens a TCP connection on port 4949 and asks, line by
line, for the list of plugins, for a plugin's configuration (what to draw) and for its values. The node
has one thread that accepts connections, one thread per connection, and plugins that read the machine's
state; all connections share the plugins.

Each component below: its state; its operations; who it interacts with; what is hard; what makes it
correct.

**Server, clients and their thread objects** (`core/JCThread.h`, `core/MuninNodeServer.cpp`,
`core/MuninNodeClient.cpp`, part of `core/Service.cpp`).
State: per object a reference count under a critical section, a thread state and a "started" flag; the
listening socket; the client the accept loop is busy with.
Operations: Run, Stop, TestDestroy, AddRef, RemoveRef; open, accept, close; the life of a session.
Interactions: the service's thread makes, stops and lets go of the server; the server makes clients and
holds a reference on each while it starts; each client holds one on the server, because the plugin
manager lives inside it.
Hard: the object deletes itself when the last reference goes, on whichever thread that is; Stop may
overtake any step of the server thread, from before its socket exists; `_beginthread` is not checked.
Correct: no use after the deletion, one deletion, no leak; no connection accepted after Stop; Stop ends
the server thread; starting a client does not hold the accept loop up.

**Plugin locking** (`core/MuninNodePlugin.cpp`, `core/MuninPluginManager.cpp`).
State: one critical section per plugin that says it is not thread-safe.
Operations: GetConfig, GetValues, GetName and IsLoaded through the wrapper.
Interactions: client threads call it; inside it the SMART plugins take the reader's critical section.
Hard: two levels of locks; IsLoaded goes past the wrapper's lock.
Correct: one user at a time inside a wrapped plugin; no deadlock.

**SMART reader and the plugins on it** (`plugins/disk/SmartReader.cpp`, `HDMuninNodePlugin.cpp`,
`plugins/disk/SMART/*.cpp`).
State: a table of 32 drive records, a map of readings, the count of drives, the time of the last refresh.
Operations: UpdateSMART (at most once a minute), ReadSMARTValuesForAllDrives, ReadSMARTInfo; the plugins'
loop over the drives.
Hard: ten plugins with ten locks share one table; the clock may be set back; drives come and go; one of
two device calls may fail.
Correct: an answer mixes no two refreshes; no reading is older than a minute; a reading is reported for the
drive it was taken from.

**Motherboard Monitor** (`plugins/mbm/`). State: a handle and a mapped view of another program's memory, one
pair in each plugin of the family. Operations: open, config, values. Hard: opened by IsLoaded, without
the lock; a mapping that fails ends the process. Correct: mapped once.

**External plugins and the console pipe** (`plugins/external/`).
State: the child's process handle, two pipe ends, the listener's thread handle, the output buffer, a count of polls.
Operations: Execute (pipes, CreateProcess, CreateThread), IsChildRunning, Break, GetOutput, Cleanup, the
listener's loop, the destructor.
Interactions: the thread that answers a request, a listener thread working on an object on the former's
stack, cmd.exe, and the script, which inherits the pipe.
Hard: four parties; both threads clean up; the listener is ended by TerminateThread; timeouts; terminating a
process takes its time, and may fail.
Correct: the answer is the whole output of a command that has ended; a command given up is terminated; no handle
is left open; Run returns.

**Service control, installation and removal** (`core/Service.cpp`, `core/munin-node.cpp`).
State: m_status, m_dwThreadID, the message queue, and what the service control manager (SCM) knows.
Operations: Init, ServiceMain, Run, Handler, SetServiceStatus, Install, Uninstall, IsInstalled.
Hard: the handler runs on another thread and shares m_status without a lock; requests arrive at any time;
several programs install and uninstall; every call of the SCM may fail.
Correct: the reported state goes forward only; a stop request is heard; Uninstall returns, and does not
delete a service that is on its way down before it is.

**Configuration file** (`extra/iniFile.cpp`, `core/MuninNodeSettings.cpp`).
State: parallel vectors of section names and sections, each of parallel vectors of value names and values,
and comments.
Operations: ReadFile, WriteFile, Find*, Set*, Get*, Delete*, Add*, Erase, the comments.
Hard: four vectors in step; a section may appear twice; case; a read inserts its default; several threads.
Correct: it is a dictionary; what is written reads back.

**Plugin manager** (`core/MuninPluginManager.cpp`). State: the list of plugins and the table by name.
Operations: the constructor (which plugins the configuration enables), AddPlugin, LookupPlugin, the
debug build's test thread. Hard: the order of construction and the destructor on a client's thread.

**Client session** (`core/MuninNodeClient.cpp`). State: what was received. Operations: RecvLine and the
commands list, config, fetch, version, nodes, quit. Interactions: it calls the plugins, of which an external one runs a
command for as long as that takes. Hard: lines arrive in pieces, answers leave in pieces, a line may fill the buffer, the
master may be gone, a plugin may not come back or may not end its answer.
Correct: what a master reads after a request is its answer; a listed plugin is known; a complete request is answered and a
thread whose master is gone ends, as far as commands let them.

**Sockets** (`core/JCSocket.cpp`). State: the socket's number, which stays when it is closed, and the
process-wide count of users of Winsock. Hard: the number may have become another connection's; the count is
not locked. Correct: nobody closes another's socket; Winsock is up while a socket is open.

**SpeedFan** (`plugins/speedfan/`). State: a UDP socket, a listener thread, the last broadcast's values.
Operations: OpenSocket, Entry (receive and reopen), ProcessBuffer, Stop, GetConfig, GetValues. Hard: Stop
against OpenSocket; the table is written by the listener and read by the plugin; packets of other devices, and packets
that are no message.
Correct: the listener ends and leaves no socket; the table is the last message the configured SpeedFan has sent and the
listener received, whatever others have sent; an answer comes from one message.

**Performance counters** (`plugins/PerfCounterMuninNodePlugin.cpp`, one plugin for each section of the
configuration). State: a PDH query, its counters and their names, two regular expressions. Operations: OpenCounter
(expand a path with wildcards, keep what IncludePaths matches and ExcludePaths does not, add a counter for
each), GetConfig, GetValues, the destructor. Hard: every call of PDH may fail, in the middle of the list too; two
parallel lists; with English names, a part of what the filters see of a path without an instance was never written.
Correct: a counter is reported exactly when the author of the filters means the text they are asked about; a value is
fetched under the label that was declared for its counter.

**deelx regular expressions** (`plugins/deelx.h`). State: the compiled elements; per call a context with a stack, a stack of
captures and its index. Operations: Compile, MatchExact. Hard: a backtracking matcher in which each element undoes what it
did by hand, pushing and popping integers whose number depends on the way taken.
Correct: it matches what the expression means, in the order of preference of the syntax; after each attempt the groups
are those of the match it is at.

**Gauges** (CPU, disk, disk time, uptime, network, memory, processes). State: the CPU plugin's static variables of the
last reading; the drives found at construction; the disks and counters of the disk time; the uptime's counter. The
others keep nothing. Hard: two readings in one tick, and a reading that fails; drives that come and go between config
and fetch; two parallel lists of disks; a loop over the instances that is sure of their names. Correct: a load is that
of the time since the last reading; what is fetched was declared, and read from what its label names.

The rest - the SMART and registry plugins (the first does nothing, the second is never made), JCQueue,
JCEvent and JCRefCount (no user), the event log, registry, version and string wrappers - keeps no state of its
own that the program's logic depends on.

`PROJECT.json` lists, under `hazards`, the places where each of these is hard to test, with the property
that covers it or the reason why none does yet.

## 2 Plan

Done in this order, the most important behaviour first:

| | module | on | abstract specification |
|-|-|-|-|
| 1 | `NodeServer` + `NodeServerProofs` | - | `Ownership`: what a shared object promises |
| 2 | `ExternalPlugin` + `ExternalPluginProofs` | - | - |
| 3 | `SmartReader`, `Plugins` + `PluginsProofs` | `Plugins` extends `SmartReader` | - |
| 4 | `Service` + `ServiceProofs` | - | - |
| 5 | `IniFile` + `IniFileProofs` | - | `ConfigMap`: a dictionary |
| 6 | `XapMessage`, `SpeedFan` + `SpeedFanProofs` | `SpeedFan` extends `XapMessage` | a well-formed message, and what any packet says, in `XapMessage` |
| 7 | `Session` + `SessionProofs` | - | - |
| 8 | `DeelxContext`, `Deelx`, `DeelxBuilder` | each extends the one before | - |
| 9 | `Search`, `Regexp` | `Search` extends `DeelxContext`; `Regexp` extends `Search` and `DeelxBuilder` | `Ways` in `Regexp`: what an expression matches |
| 10 | `PerfCounter` | extends `Search` and `PluginAnswer` | `PluginAnswer`: what config and fetch say to each other |
| 11 | `Gauges` | extends `PluginAnswer` | `PluginAnswer` |
| 12 | `Answers` + `AnswersProofs` | extends `PerfCounter` and `Gauges` | - |

Left out of the plan after a closer look: two threads inside GetValue of g_Config, and the count of Winsock's users. Both are
changed by several threads without a lock, so that nothing one would want of them holds, and the repository claims
nothing of them that a run could refute (section 7).

`Search` and `DeelxContext` are modules of their own so that `PerfCounter` and the proofs reach no recursive operator:
the compiler and the matcher are recursive on the pattern, and stand in `Deelx`, `DeelxBuilder` and `Regexp`, which
only the runs use. Every safety property is proved (section 6) except what compiler and matcher compute of an
expression (SearchIsRight, TakenBack, GroupsOfPreferred, VisitsInOrder), which stays with the run `plugin_answers`, as
liveness stays with the runs.

Conventions of all modules: a label `pc[p]` names the next step of a thread; a step is one critical section
or code that no other thread can see; constants are assumed as weakly as the code allows; definitions
marked *mutant* are plausible bugs, each substituted for the operator that follows it to see that a
property breaks; `PROJECT.json` maps every definition to the lines it models.

## 3 The modules

**`NodeServer`** has a process for CService::Run (`main`), the server thread and one for each connection.
`refCount`, `state` and `started` are JCThread's members, `life` says whether the object exists, `sock` is
the listening socket, `cur` the client in the accept loop's hands. Actions: `RunBegin`, `RunPoll`,
`RunRelease` are JCThread::Run in the thread that starts another; `ThreadAddRef`, `ThreadMark`,
`ThreadStopSelf` and `ThreadRemoveRef` the new thread's frame around Entry; `DestroyClient` and
`DestroyServer` the destructors, wherever they run; `Server*` the accept loop, `Client*` the session;
`NewServer` .. `ReleaseServer` CService::Run. A connection is one accept: its number in `Clients` is used
once. **`Ownership`** is what the server object must look like to those who use it: a set of owners,
to which only an owner adds, and a deletion that happens exactly when it is empty. `NodeServer` maps
`owners` to the places in its threads that hold a reference (`Owners`), not to the count.

**`SmartReader`** is the table: `count`, `driveIndex` and `values` with the drives' behaviour `hw` (absent,
answering without attributes, attributes without thresholds, or both), a wrapping `clock`, and the number
of the `refresh` a value came from, which stands for what the attributes say. **`Plugins`** adds the
threads' requests: `Ask`, `EnterWrapper`, `EnterSmart`, `Update`, `Loop` once per drive, `LeaveSmart`,
`LeaveWrapper`; `owner` says who has each critical section. `MbmTest`, `MbmOpen`, `MbmMap` are mbm::open
with, and for `list` without, the wrapper's lock; `MbmMapFails` is the dereference of a view that is NULL, which ends the
process and with it every thread.

**`ExternalPlugin`** is one call of ExternalMuninNodePlugin::Run: the runner (`Open*`, `Launch`, `StartListener`,
`KeepHandle`, the polls, `CheckChild`, `Break`, `GetOutput`, `Destroy`, `Cleanup`), the listener (`ListenerRead` ..
`ListenerNotify`, then the same `Cleanup`), cmd.exe and the script. For each of the four handles `field` says whether
the member holds it and `closes` counts CloseHandle: Cleanup tests, closes and clears in separate steps, so that both
threads may be in it. `life` follows the destruction of the object on the runner's stack; a virtual call on what is
left of it is `PureVirtualCall`. TerminateProcess either begins to end cmd.exe, which is then *ending* until
`CommandEnds`, or fails (`refused`), which Break does not look at.

**`Service`** has the service thread, the dispatcher thread inside Handler, the tools that install and
uninstall, and the SCM, which is external and modelled from what the calls return: `db` is its entry, `scm`
the state it knows, `status` the program's own. Each call of Install and Uninstall may fail, the query in Uninstall's loop
too (`UninstallPollFails`). SetServiceStatus is two steps, an assignment to the shared
status and its report. `queue` is the thread's message queue, which exists from GetMessage at the latest.

**`IniFile`** is CIniFile's state, a record of sequences like its vectors, and one action per public
operation; reading a file is line by line with any line next. A word is a pair (its folded form, how it is
written), so that two names can differ in case only. **`ConfigMap`** is a dictionary: a set of sections and
a set of entries with one value each. `IniFile` maps to it by folding the names and taking the first of
the sections with one name, which is where FindKey looks.

**`XapMessage`** is ProcessBuffer as a fold over the lines of a packet, and next to it, in terms of the lines alone,
what a well-formed message is (its lines and its blocks) and what any packet says (`Says`: which lines name a block,
and which data is that block's). A last line without a newline loses its last character in the code (`Chop`); a brace
survives that, and so does a header, of whose name the parser looks at four characters. The asserts on the order of
blocks are taken to be compiled out, as in a release build. **`SpeedFan`** has the thread that constructs and destroys
the plugin, the listener and the client threads. Numbers of sockets (`Handles`) are given out by the system again and
again, to the listener and to `Others`: `handle` keeps the number of a closed socket, as m_hSocket does, and `closing`
the one Stop has read and not yet closed. `last` and `strays` are the history of what was received, kept by what was
sent and not by how it is parsed: the last message of the configured SpeedFan, and the packets since then that were no
message. `Reports(answer, n)` says that an answer has the readings of the first n blocks, each once and in their
order.

**`Session`** is one connection: the client thread, the master, and both directions of the stream in between. A line
or an answer is a sequence of parts; recv and send move any number of them. `buffer` is RecvLine's, `out` what
SendLine has still to send. `AnswersTo` is the table of commands; `Constructed` the lists of plugins the manager's
constructor may end up with, in which two plugins may have one name, and each knows whether it runs a command.
`Dispatch` is the call of a plugin of the node's own; `Call` enters an external one, which comes back by `Return`,
with an answer that may lack its end (`CutShort`), or by `Abort`, the pure virtual call of `ExternalPlugin` that ends
the process, or never. The master asks when it has read the answer before, as munin does: a master that sends two
requests at once may lose the second, because RecvLine resets its buffer after the first line end.

**`DeelxContext`** is the context of a match and what an element does to it without calling another: the stack of
integers (`Push`, `Top`, `Pop`), the groups as they lie in their buffer and the index from a number to its latest
group, `PushGroup` and `CheckCaptureIndex`, the two ways of a bracket, of a string and of a back reference,
`Independent` and `Possessive` once the inside has answered, the frame of a greedy repetition and `GivenUp`, which
throws it away. **`Deelx`** is the matcher on it: `Match` and `MatchNext` of each kind of element as recursive
operators on the elements. **`DeelxBuilder`** is the compiler, CBuilderT: the window of three tokens, the flags that
inline options change, sets of characters, quantifiers, groups, lookarounds, conditions and recursion, and the
elements they make. Both are sequential, so that a call is an operator and not a behaviour.

**`Search`** is one call of MatchExact, a match at a time: `MatchExact` finds the first, `GoOn` each one after it,
until one spans the whole text or `WentOn` gives up. The compiler, the matcher and what an expression means are its
constants `Built`, `FirstMatch`, `NextMatch` and `Means`, since the loop sees of them no more than the context they
hand back. **`Regexp`** has the operators that the run gives for them. Its `re` is the expression its author means, a
tree; `Printed` writes it as a pattern, which goes through the compiler as it stands; `Ways` says what a tree matches,
and with which groups, in the order of preference, without a stack or a position to come back to.

**`PluginAnswer`** is what config and fetch of any plugin say to each other: fields by their places, each with what it
is declared for and what it was read from. **`PerfCounter`** is the plugin of one section: `OpenQuery`, `Expand`, then
for each path the two filters, each a call of `Search` (`Include`, `Exclude`, `Matching`), then `AddCounter` or
`Continue`, and `OpenFails` wherever PDH may refuse; `GetConfig`, `GetValues`, the destructor. A path is [object,
instance, counter], as the code takes it apart; `SeenAs` is what the filters may be asked about for it, and `asked`
remembers what that was. `attached` is what PDH holds for the query. **`Gauges`** has the processor's two static
variables and the clocks of the system that run in between, the drives and the answers of one that is silent,
OpenCounter of the disk time, and the uptime. GetSystemTimes may fail unnoticed (`Unread`, and `lost` for the readings
that spoils) or not exist; the disk time takes a name of one letter for the end of its list (`TakesFirst`), and
without a name to drop reads past its vectors (`Crash`). **`Answers`** puts one of them, `subject`, into the place of
the object that is asked; they share nothing, so that one at a time is all there is to see. `MCAnswers` puts `Answers`
and `Regexp` together.

**`MCIniFile`**, **`MCSpeedFan`**, **`MCSession`** and **`MCAnswers`** hold word lists, packets, names, and
expressions and texts for TLC; the other modules are checked as they are. The modules that end in `Proofs` hold the
theorems of section 6.

## 4 The runs

Runs that pass:

| run | checks | shows |
|-|-|-|
| `node_server` | TypeOK, NoUseAfterDelete, DeletedOnce, NoLeak, NoAcceptAfterStop, ServerIsShared, StopEndsServer, AcceptLoopResumes | three connections, `_beginthread` free to fail (48 thousand states) |
| `plugins_locks` | WrappedPluginsExclusive, ReplyIsSnapshot, FreshAfterUpdate, RequestsDrain | two threads, two plugins on the reader and Motherboard Monitor (135 thousand states) |
| `external_pipe` | CommandHasCompleted, TimedOutIsTerminated, PipeHandlesClosed, ListenerFindsChild, RunReturns | one Run with any interleaving and failure (185 thousand states) |
| `service_control` | DeletesStopped, StatusForward, StopIsHeard, UninstallReturns | an installation, two uninstallations, two starts, any call of the SCM failing (228 thousand states) |
| `ini_file` | ValuesFound, RoundTrip, IsConfigMap | any sequence of calls and lines (22 thousand states) |
| `speedfan_listener` | TableIsMessage, AnswerIsTable, ClosesOwnSocket, NothingLeft, StopEndsListener | the listener from construction to deletion, two clients, sixteen kinds of packets (236 thousand states) |
| `session_answers` | AnswersInStep, ListedIsKnown, RequestAnswered, SessionEnds | any requests, cut in any way, a master that leaves at any time, a command that hangs or forgets its end (67 thousand states) |
| `plugin_answers` | FilteredAsMeant, SearchIsRight, TakenBack, GroupsOfPreferred, VisitsInOrder, FetchedIsDeclared, LoadIsOfInterval | about a thousand expressions on every text of up to three letters, all pairs of six filters on a list of paths, and every gauge (268 thousand states) |

Runs that end in a counterexample, each for one claim of the repository's own comments or documents
(section 7): `plugins_drive`, `plugins_mbm`, `external_output`, `external_listener`.

The bounds, and why they are enough:

- Connections (`Clients`): a client interacts with the server and the accept loop, with other clients only through the
  server's count. Two let one come while another ends; the third lets both others be in destructors. They are
  symmetric. The proofs need no bound.
- `_beginthread` may fail in this one run. A failed start blocks the accept loop for ever, because JCThread::Run waits
  for a thread that never comes: StopEndsServer and AcceptLoopResumes say so in their premise (`StartFailed`) and
  claim nothing then.
- Plugins: the conflicts are between two threads, on the same plugin or on two plugins over one reader; two drives let
  one answer and its neighbour not. `Wrap` = 4 times of the clock, of which a minute is one, make it go forward within
  a minute, past it, and back; two refreshes let a first be mixed with a second.
- Console pipe: with a pipe of two chunks and three to write, the script is blocked by a full pipe, the listener can
  lag behind, and output can come in several reads; timeouts of one and two polls and none.
- SpeedFan: two numbers let one be reused while the other is open; messages of another source, of another class, with
  no reading and with one or two, of temperatures and of fans, each ended by a newline or not; packets with a reading
  before the header, with a second header that has lost its last character, cut in the middle, and of another device
  without its end.
- Session: two plugins of one name, of which the second runs a command, and one of another, any of them disabled or
  not loaded, and a name nobody has; with a timeout and without; a buffer of three parts for lines of two, and one
  line that does not fit.
- Service: the entry can be created, marked and removed between two tools' steps; the second start meets what the
  first left. `MaxStarts` bounds nothing else.
- Configuration: two sections can have the same name, names that differ in case, or none; two value names likewise;
  indexes go one past the end. `MaxSections` and `MaxComments` cap the vectors; sections interact only when their
  names agree, for which two are enough.
- Regular expressions: each repetition, with each of the three modes and counts at which its loops turn (none, one,
  two, no limit), over bodies that match in more ways than one, and behind it something that sends the search back
  into it; lookarounds, atomic groups, conditions and groups in groups. Two letters, one of them a capital, and texts
  of up to three: an element that forgets to undo a step shows when a later one fails once. Left out are expressions
  whose meaning in deelx is known to be its own (section 7): repeated bodies that match nothing, possessive
  repetitions with a fixed count, and references to a group that the iterations of one loop could have left at
  different places. Matching to the left is met in lookbehinds, the only way to it from a section's pattern.
- Performance counters: paths with an instance and without, with English names and with the system's own; what was
  never written is either empty or a character that `.` does not match.
- Gauges: up to three drives, silent and answering in turn, and up to three instances of a counter, none among them,
  and names of one letter. `MaxTime` = 5 ticks of the clocks leaves room for three readings with none, one or two
  ticks in between. The proofs need no bound.

Deadlock is checked in `plugins_locks`, `plugins_drive`, `plugins_mbm` and `ini_file`. The other systems
may really stop: the program ends, Run returns, a machine has no service left.

## 5 Fairness

Only what the scheduler of the machine gives is assumed: a thread that can take a step does, sooner or
later (weak fairness of each thread's own steps). Nothing is assumed of

- masters: that they connect, send, or leave (`NodeServer`); a connection may stay for ever;
- the service manager and its users: that they start, stop, install or uninstall (`Service`);
- requests: that they come (`Plugins`); critical sections are not assumed fair either: `RequestsDrain`
  claims only that, once no more requests come, those under way end;
- SpeedFan and other devices: that they send, and that a receive fails while the socket is open (`SpeedFan`);
- the master in `Session`: that it asks, or ends a line it has begun; it reads what is sent to it until it leaves;
- the command: that it writes or ends (`ExternalPlugin`); `RunReturns` therefore claims a return only with
  a timeout, or when the command ends. `Session` takes over just that: `Run`, the call of an external plugin, is fair
  only with a timeout. RequestAnswered and SessionEnds except, by name, a thread that is in a command for ever
  without one (`InCommand`), and RequestAnswered a master that waits for the end of an answer a command did not end
  (`WithoutEnd`). That a command says where its answer ends at most once is the one thing presumed of it;
- failures: that any call fails (`UninstallPollFails` is not needed for UninstallReturns).

`Answers` states no fairness: its properties are about what an answer says, and that a search ends is part of
VisitsInOrder (each attempt is a later one of finitely many).

Three more: the system calls of the node's own plugins return; in `NodeServer`, accept returns once its socket is
closed, as Winsock's does; in `Service`, time passes, as Uninstall's timeout presumes.

## 6 The proofs

TLAPS checks the following for every value of the constants within the named assumptions.

**`NodeServerProofs`**, from ClientsAssumption (any finite set of connections whose names are not those of other
processes) and BeginThreadAssumption (a Boolean). None of NoUseAfterDelete, DeletedOnce and NoLeak is inductive: they
speak of a moment at which an object goes, and hold because of counts built up before. The inductive invariant adds to
the types *StartInv* (who starts a thread and how far that thread may be), *ServerLife* and *ClientLife* (which
objects exist, tied to the labels of those who own them), *RefInv* (each count is the number of the object's owners,
the threads' places that hold a reference), and *DoomInv* (the thread that brought the count to zero is the only one
in the destructor). The work is in RefInv: a step adds one owner and one to the count, or removes one of each, and
lemmas on the cardinality of the set of owners give the rest. With the same invariant every step adds one owner of the
server by the hand of an owner, drops one, deletes the object when the last is gone, or leaves owners and object
alone, which is `Ownership`. NoAcceptAfterStop has an invariant of its own, *StopInv*.

**`PluginsProofs`**, from ThreadsAssumption, DrivesAssumption (1 to 32 drives, the size of the table),
KindsAssumption and ClockAssumption. Invariant: *LockInv* (a thread's label says which critical sections
it has), *TableInv* (the table's refreshes are not of the future; past Update it is at most a minute old)
and *ReplyInv* (the readings collected so far are of the current refresh while the reader is locked).
WrappedPluginsExclusive, ReplyIsSnapshot and the step property FreshAfterUpdate follow.

**`ServiceProofs`**, from ToolsAssumption and StartsAssumption. Invariant: *PhaseInv* ties m_status and what
the SCM knows to where the service thread and the handler are, in three phases (starting, running,
stopping), and *WaitInv* says why an uninstallation that waits and sees the service stopped is right.
DeletesStopped and the step property StatusForward follow.

**`ExternalPluginProofs`**, from the assumptions on chunks, pipe and timeouts that `ExternalPlugin` names. Nothing here is
inductive alone: CommandHasCompleted rests on what the runner sees of the child, and that on who may have closed the
child's handle. Invariant: *ClosedInTurn* and *MembersHold* (how far each thread is in Cleanup says which handles are closed,
and a member is cleared only after its handle), *ListenerOutlivesCommand* and *ChildSeen* (the listener reaches its own
Cleanup only when nobody can write to the pipe, so that the runner sees a running child), *StartIsSafe* (a listener that has
not begun is terminated before anything is taken from it).

**`SpeedFanProofs`**, from `SpeedFan`'s assumptions on handles, readers and packets and those on texts in
`XapMessage`. Two invariants. Of the listener's life: *Counted* (the reference count is the sum of the three
references by their labels), *LastDeletes* (who may be in the deletion, and that the other is then through), *Sockets*
(the number the member holds is the listener's as long as the other sockets of the node come and go). NothingLeft and
ClosesOwnSocket follow. Of the table: *TableOK* (what is stored, and what is parsed and about to be stored, are the
blocks of the message they came in, or said by a packet that came since and was none: `Came`) and *ReadersOK* (an
answer under way reports the blocks its reader has passed, and who is past the first one has the lock, so that nobody
replaces the blocks meanwhile). TableIsMessage and AnswerIsTable follow. What TableOK needs of the parser is
MessageParsed: a message of any number of readings, its last line ended or not, is parsed as its blocks. It is shown
by induction over the readings (`ParseReadings`): when the loop is at the end of a reading, the finished blocks and
the one at hand are those read so far. Of a packet that is no message PacketSaysBlocks shows, by induction over any
lines, that each block is one its lines say.

**`IniFileProofs`**, from WordsAssumption, ValuesAssumption and BoundsAssumption: any words, values and bounds.
ValuesFound is not inductive: it says what a search finds, and a step moves what is searched. The invariant is *Good*:
*Vectors* (the parallel vectors are of one length and typed) and *Unique* (no two names in a section compare equal,
and of two sections whose names compare equal only the first has values). Unique is what makes the search and the
place agree, whatever AddKeyName has appended; DeleteKey keeps it because the section it takes out is the first of its
name, so that what is left of that name is empty. For the refinement each call is shown to be one of *Puts* (one entry
of the dictionary set), *Adds* (a section), *Keeps* (nothing changed) or an erasure, of entries read off every place
(`EntriesOf`), and that in good vectors these are the entries a search finds (`AllFound`); `PutIs`, `AddIs` and
`OtherIs` turn them into the steps of `ConfigMap`. RoundTrip is a statement about two folds over what the vectors
hold: WriteFile flattens the lines of the sections, ReadFile takes one after the other. It is shown by induction over
the sections: *Copied* says that the first k are there again, `SectionRead` reads the next (its name, then its
comments, then its values, each by an induction of its own), and the comments are counted along with them. A section
whose name was there before is the case that needs Unique: its values are none, and its comments are counted to the
first.

Induction in these two modules is over sets, since the library's induction theorems take an operator: a set of numbers
that has 0, and n + 1 with n, has them all, because a least number outside it would exist (`LeastNumber`), and that
follows from the library's theorem that strict inclusion is well founded on the finite subsets of a set. FoldLeft and
FlattenSeq are recursive functions in the community modules; `ParseGoes`, `ReadGoes`, `SumGoes` and `FlattenGoes` show
by that induction that the functions they choose exist, and so what they compute.

**`SessionProofs`**, from NamesAssumption and BufferAssumption: any plugins, a buffer of two parts or more. Invariant:
*Phases* ties the master's state to the thread's; *Carried* says which parts of the request have arrived and which are
under way, *Told* the same of the answer, in three places. AnswersInStep and ListedIsKnown follow. The work is in
showing that moving any number of parts from one place to the next changes nothing in Carried and Told, and that a
line put together from all its parts is the request.

**`AnswersProofs`**, from ListsAssumption (any drives and instances) and SectionsAssumption (any lists of paths), for
clocks that run for ever and *any* compiler and matcher. The first part is the plugins. Invariant *AnswersInv*: of the
gauges *GaugesInv* (the last reading and what the clocks counted since make the present times; config and fetch go by
lists that do not change once they are made), of a section *PerfInv* (*PathsInv*: the paths still to do are the end of
the listing, and each counter is kept with its name; *SearchInv*: a search under way is of the filter and the path the
plugin is at; *RepliesInv*: an answer was given after OpenCounter, which changes nothing any more). LoadIsOfInterval
and FetchedIsDeclared follow, the latter whatever the filters answer. FetchedIsDeclared is about every field that
fetch gives: *DiskInv* says of a silent drive's field that its numbers are those of a drive declared before, or
nobody's (`NumbersAre`); of LoadIsOfInterval *CpuInv* keeps track of the readings a failed one has spoiled.

For the filters there are two theorems. `FilteredAsFoundHolds` has no premise at all: for any compiler and matcher,
any lists of paths and any unwritten memory, the counters a plugin reports are those of the paths that IncludePaths
was found to match and ExcludePaths was not, each once and in PDH's order, where *found* speaks of matches the
compiled filter comes to one after the other (`IsWalk`) until one spans the text or it gives up. The invariant is
*AskedInv*: of each path done so far, what the filters were asked about is one of the texts it may be seen as, and its
counter is there if and only if that text was let through; since a walk is determined by its beginning (`WalksAgree`),
a text cannot be both let through and turned away (`AnsweredOnce`). `FilteredAsMeantHolds` then says that where each
section's own filters are right about the texts of its own paths (*FiltersAreRight*, a premise about constants), what
is reported is what the filters' authors mean. The run checks FilteredAsMeant without that premise, on filters that
deelx gets right.

The second part is what backtracking rests on: each element takes back what it has done. The elements call each other
through the stack and the groups only, so that the theorems are about contexts. *WellFormed* says of one that every
group in use is found from the index of its number, at its place or after it, and is either open or closed as its
counter says; MatchExact's loop starts with such a context (`PreparedIsWellFormed`), so that the theorems speak of
contexts there are, and giving groups back by the size alone, as every element does, keeps it (`WellFormedKept`).
*SameMatch* says that two contexts are the same to whatever is matched next: position, text, stack and the groups in
use, but not the index, which CheckCaptureIndex repairs when it is read (`IndexOf`). `BracketTakenBack`: an opening
bracket pushes a group or counts one that is open again, a closing one closes the latest open one, and MatchNext of
each leads back to the same match; this is where the repaired index must find the latest group of a number and no
other, for any nesting of groups of one number. `StringTakenBack` and `BackrefTakenBack`: characters are given back in
both directions. `KeptIsForgotten` and `AssertedIsForgotten`: an independent group, a possessive repetition, an
assertion keeps the sizes it began with, and what the elements inside leave on the stack is cut off with them.
`FrameIsRead`, `GreedyLeavesFrame`, `GreedyKeepsFrame`, `GreedyGoesBack`: a greedy repetition leaves a frame of sizes,
a list of ends of any length, its beginning and its count; it reads each where it put it, hands the beginning on from
one iteration to the next, and goes back to it when it gives the last one up. What the elements inside do is a
hypothesis there (*BeganAt*: they have left what was on the stack and among the groups before); that all of a
pattern's elements together fulfil it is an induction over the pattern, which stays with TakenBack and SearchIsRight
in the run. Not covered: the context's own count of closed groups (`z`), which is never taken back, and which entry a
back reference reads, since MatchBackref takes the index unrepaired.

The type invariants of `Service` and `Plugins` are parts of the inductive invariants and proved; no run checks them on top.

Only model-checked: every liveness property (StopEndsServer, AcceptLoopResumes, RequestsDrain, RunReturns,
StopIsHeard, UninstallReturns, StopEndsListener, RequestAnswered, SessionEnds), which needs fairness and ENABLED; and
of the regular expressions SearchIsRight, TakenBack, GroupsOfPreferred and VisitsInOrder: compiler and matcher are
recursive operators on the pattern, which the provers do not take, and what they compute for every pattern is an
induction over it.

## 7 What the runs found

1. `plugins_drive` - ReadSMARTInfo can return TRUE without having filled a drive's record; the record then
   names another drive (at first drive 0), whose reading is reported (`plugins/disk/SmartReader.cpp:71`).
2. `plugins_mbm` - two threads that list the plugins open and map Motherboard Monitor's memory twice,
   because IsLoaded opens it and the wrapper passes IsLoaded on without its lock (`plugins/mbm/mbm.h:204`).
3. `external_output` - the output of an external plugin is taken when its process has ended, not when the
   listener has read it all: the end may be missing (`plugins/external/ExternalMuninNodePlugin.cpp:95`). With
   the line that ends the answer missing, the master waits for it in vain.
4. `external_listener` - the listener clears its own handle and then goes on using the pipe object, which
   Run's destructor therefore no longer waits for (`plugins/external/ConsolePipe.cpp:581`).

Met while modelling, without a run of their own: `OnlineMuninNodePlugin` declares its label as `_hdd_%i_` and gives
its values as `_hdd%i_`; SetValueI, SetValueF and SetValueV ignore their argument `create`; CIniFile::SetValue by
index returns false even when it has set the value; and a stop request that arrives before the service thread has a
message queue is lost, which is why StopIsHeard speaks of one that meets a queue. CService::Run waits for no thread,
so that the service reports itself stopped while client threads may still serve (`core/Service.cpp:173`, against the
comment at line 80). Uninstall deletes a service that refuses to stop because it is only starting, and reports success
(`core/Service.cpp:237`). ProcessBuffer never deletes the blocks of a packet it has no interest in, and the listener
never those of the last one. A packet of the configured SpeedFan that is no message (cut short, or with another header
behind the first) replaces the table like a message (`plugins/speedfan/SpeedFanNodePlugin.cpp:247`): TableIsMessage
says that this alone can, and what the table then is. mbm::open dereferences the view of a mapping that failed
(`plugins/mbm/mbm.h:210`). Break does not look at whether TerminateProcess succeeded
(`plugins/external/ConsolePipe.cpp:39`), so that a command may be left behind; and the runner and the listener, both
in Cleanup, may close one handle twice, which PipeHandlesClosed allows: it says that none of the three is left open.

Shared without a lock: g_Config, whose GetValue inserts the default of a value it does not find, so that one client's
question grows the vectors another's is searching (`extra/iniFile.cpp:226`); and JCSocket's count
(`core/JCSocket.cpp:26`), whose `++` on the server's thread and `--` on a client's may lose one another, after which
the last client to leave shuts Winsock down under the listening server, or nobody ever does.

Met in the performance counters and gauges: `DropTotal` is documented (`munin-node.ini:65`, `README.rst:139`: set to
1, the last instance is dropped) and never read, so that a section without a suitable ExcludePaths reports the total
like any other instance; FilteredAsMeant is about the filters, which are all that decides. With English names, the
filters are asked about a path put together of its object, the buffer for its instance and its counter, and of a path
without an instance, like that of the shipped uptime section, nobody writes to that buffer
(`plugins/PerfCounterMuninNodePlugin.cpp:219`, `:230`): whether such a counter is reported may depend on what the
stack held, and FilteredAsMeant promises what the filters' author means only of the text that they then saw. The
destructors pass the address of the member to PdhCloseQuery, not the query
(`plugins/PerfCounterMuninNodePlugin.cpp:77`, the disk time's line 37, the uptime's line 52), so that no query is ever
closed. When its first buffer is too small, GetPdhCounterLocalizedName deletes it, fills another that an inner
variable of the same name holds, and returns the deleted one (lines 104 to 118). A drive that does not answer is
reported with the numbers of a drive before it, or with what the stack held when none before it answered
(`plugins/disk/DiskMuninNodePlugin.cpp:85`); FetchedIsDeclared names this as its one exception, and bounds it: never
with those of a drive after it. The disk time's loop takes an instance whose name is one letter long for the end of
the list (`plugins/disk/DiskTimeMuninNodePlugin.cpp:79`) and then drops the last disk it has, a real one; when the
list is empty it pops an empty vector (line 90). CalculateCpuLoad does not look at whether GetSystemTimes has given it
times, nor whether the system has that function (`plugins/cpu/CpuMuninNodePlugin.cpp:66`); two readings in one tick
divide 0 by 0. The uptime's plugin is listed although its counter may not have been added, and then answers every
fetch with an error.

Met in `plugins/deelx.h`: `X{n}+` with a fixed count is not possessive; `a{,2}` matches nothing but the empty text;
what follows an unmatched `)` is ignored; a repetition whose body can match nothing stops too early, so that
`(?:ab|)*abc` misses "abc" (line 4186).

## 8 What is not modelled

- What plugins measure and how their answers are formatted: SMART attributes are abstracted to the refresh
  that read them, outputs to numbered chunks, values of the configuration to model values.
- Windows 9x branches (SetupConsole, Term), and code without a caller (StopCmd, SendCtrlBrk,
  SendChildInput, JCThread::Pause and Resume, JCQueue, JCEvent, JCRefCount).
- The debug run `-run`, which calls CService::Run without the SCM, and message boxes and the event log.
- The C runtime's own locks: that TerminateThread may hit the listener inside the heap is named as a
  hazard, and out of the model's reach.
- Several threads inside the configuration at once, and Winsock's count: see sections 2 and 7.
- The network, memory and process plugins: each answer is one question to the system, formatted; nothing is kept
  from one call to the next.
- CRegexpT::Match, Replace and the questions to a MatchResult other than whether it matched: no caller in this program.
- UDP packets that are lost: nobody on the node can tell; the table is about what was received.
- Paths of performance counters longer than the buffers of MAX_PATH that they are taken apart into.
- Wrappers of single system calls.
