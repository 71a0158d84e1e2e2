# A formal model of wfde

wfde is an FTP server as a C++ library (`src/wfde`, `include/wfde`) with a small
daemon around it (`src/wfded`). This directory holds TLA+ models of its core,
the TLC runs that check them and TLAPS proofs about them. Everything is
translated from the code; `PROJECT.json` maps every definition to its lines.

## 1. The system

| Component | State it keeps | Operations | Interacts with |
|---|---|---|---|
| FTP session (`ftp/WfdeFtpSession.*`) | FTP state, control socket, data socket, pending PORT/PASV, abort function, reply buffer, flags for closing | `ProcessCommands`, `OnCommand`, `Reply`, `StartTransfer`, `TransferFile`, `SendFile`, `ReceiveFile`, `DoPort`, `DoClose`, `StartTls` | two coroutines share it; commands, files, sockets, session manager |
| FTP input (`WfdeFtpSessionInput`) | buffer, position in it, bytes left over | `FetchNextCommand` | control socket, session |
| FTP commands (`ftp/wfde_ftp_commands.cpp`, `ftp_protocol.h`) | none of their own; each declares conditions | one class per command | session (calls back into it) |
| Listings (`ftp/WfdeFtpList.h`, `file_listing.h`, `FileListIterator.h`) | directory stream, current entry, sub-mounts, output buffer | constructor, `++`, `List`, `Read` | driven by a transfer; the directory, which others change |
| File (`WfdeFile.*`) | position, mapped region, file size, tracked end | open, `Read`, `Write`, `SetBytesWritten`, `Close` | driven by a transfer |
| ASCII file (`WfdeAsciiFile.*`) | a File and a buffer | conversion of line ends | wraps a File |
| Session (`WfdeSession.*`) | current directory, permissions, idle time | `GetPath`, `SetCwd`, `OpenFile`, `Rename`, ..., `Touch`, `Close` | commands, session manager |
| Paths and permissions (`WfdePath.*`, `WfdePermissions.*`) | a table of entries | `NormalizeAndSplit`, `GetPath`, `CreateSubpath`, `Merge` | session |
| Session manager (`WfdeSessionManager.*`) | a table of sessions; per thread a stub and a timer | `CreateSession`, `CloseSession`, `OnThdTimer` | threads of the pool, interface, FTP session |
| Interface and protocol (`WfdeInterface.*`, `WfdeProtocol.*`) | acceptor, `running_` | `Start`, `Stop`, `Accept`, `HandleConnection` | session manager |
| Server, host, entity tree; configuration; daemon | built once | - | - |

What is hard here:

* **Interleaving.** A session is two coroutines on one thread. Wherever one
  waits (a read, a write of a reply, an accept, a handshake) the other one runs,
  on the same FTP state, the same reply buffer and the same abort function.
  Directories and files are changed by other sessions and other programs.
* **Failure and abort at any stage.** A transfer may be aborted, time out, or
  lose either connection while it connects, accepts, negotiates TLS, moves data
  or shuts down, and has to answer, clean up and leave the session usable.
* **Lifetime.** Weak pointers, captured references and tasks that outlive what
  they refer to.
* **Arithmetic at boundaries.** Files grow by whole regions and buffers, and the
  real end is kept by taking back what was not filled; the bytes left over after
  a line are counted in an unsigned integer; entries of a listing must fit.
* **Sequences.** State that one command leaves for the next: PORT/PASV, RNFR,
  REST, TYPE, LIST -a, the current directory.

`PROJECT.json` lists each such hazard at its line, with the properties about it.

## 2. The modules

| Module | Models | Checked by | Proved in |
|---|---|---|---|
| `FtpCommands` | the commands and the conditions that `OnCommand` tests | (extended by `FtpSession`, `FtpDialogue`, `SessionFiles`) | |
| `FtpSession` | one session: both coroutines, housekeeping, client, network | `MCFtpSession` | `FtpSessionProofs` |
| `FtpService` | the abstract specification: what a session promises its client about transfers | (instantiated by `FtpSession`) | `FtpServiceProofs` |
| `FtpInput` | `FetchNextCommand` and its buffer | `MCFtpInput` | `FtpInputProofs` |
| `DirLister` | a directory listing, entry by entry and batch by batch | (extended by `FtpDialogue`) | `FtpDialogueProofs` |
| `FtpDialogue` | the settings of the next transfer, the commands that set them, and the transfer that uses them, with its listing | `MCFtpDialogue` | `FtpDialogueProofs` |
| `WfdeFile` | a file on the disk and the WfdeFile, or WfdeAsciiFile, of each transfer of it | itself | `WfdeFileProofs` |
| `SessionManager` | the threads, their queues and timers, the stubs, the table, the interface | itself | `SessionManagerProofs` |
| `Paths` | virtual paths and the lookup of entries, as operators | `MCSessionFiles` | `PathsProofs` |
| `SessionFiles` | the commands on files and directories, with the disk | `MCSessionFiles` | `SessionFilesProofs` |

### FtpSession

`ctl` and `xfr` say where `ProcessCommands` and `TransferFile` are; `cop` and
`xop` say what became of the operation each waits for. An action is everything
a coroutine does from the completion of one operation to the start of the next
(for example `OnTransfer` is the gate in `OnCommand`, the command, and
`StartTransfer`). A function that may or may not yield, such as `Reply` on a
closed socket, leaves the operation `"now"`: the same coroutine goes on and
nothing else may run. A completed operation keeps its result even if its socket
is closed before the coroutine runs, as in asio. The operating system and the
client are the actions `CtlCancelled`, `XfrCancelled`, `CtlWritten`,
`XfrWritten`, `ConnectReturns`, `AcceptFails`, `ClientActs`, `ClientConnects`
and `ClientTransfers`. `SessionTimeout` is the close that housekeeping does.
Undefined behaviour is recorded in `ub` and the behaviour ends there: `"abort"`
(the abort function refers to a local that is gone), `"yield"` (a coroutine
waits with the other one's context), `"touch"` (the session is gone in
`TransferTouch`).

Left out: the contents of commands, replies and files; for a command with an
argument the outcome (accepted, refused, exception) is a choice.

### FtpService

What remains if coroutines, sockets and operations are hidden: a transfer begins
only for a client that has logged in and set up a data connection, is announced
before it connects, ends only after a final reply or when the client is lost,
gets two final replies at most and only after it had a data connection, and its
data is protected only in a protected session. It is not a copy of the session
with fewer variables: it says nothing of which commands there are and in which
order failures come. The refinement mapping is at the end of `FtpSession`:
`job` is computed from where the transfer coroutine is and whether it has a data
socket, `lost` from the control socket and the failed replies, `told` counts the
final replies of a transfer that runs. `ImplementsService` is checked by TLC as
a property and proved.

### FtpInput

The buffer holds positions of the stream instead of bytes, so that a byte that
is lost, doubled or moved to the wrong place is told from every other one.
`Scan` is the search for the first CR or LF; `Minus` is subtraction in a
`size_t`. The stage `"wild"` is the call of `memmove` with a length that has
wrapped; nothing is said of what it does.

### DirLister and FtpDialogue

A step of the lister is one look at the directory (`readdir`, one sub-mount that
the constructor looks for) or one entry that is printed; between any two, others
create and remove files (`ChangeDir`). Names that were created or removed while
the listing is made may be in it or not, as POSIX says. `TakeVpath` pops the
name the iterator still refers to: the name read later is the right one or
anything (`garbled`).

In `FtpDialogue` a command runs when no transfer is in its own control flow,
that is when there is none or it waits; how coroutines interleave in between is
the subject of `FtpSession`. The histories `given` and `offset` record what the
client has set since its last transfer and the offset it was promised;
`SettingsFresh` says that just this is in force, from when it is set until the
transfer that uses it has ended. The code has one exception, which is part of
the property: a REST that is refused drops the offset promised before.

### WfdeFile

Several transfers use one file, one after the other as the clients see it; each
has its WfdeFile, driven as `SendFile` and `ReceiveFile` do. Sizes of pages,
regions and growth are constants. A WfdeAsciiFile is a flag and the order of the
calls: it has a buffer of its own while an upload waits, asks the File for room
when the data is there, and gives back what the conversion dropped (any number
of bytes). Of the contents the model keeps, for each upload, how many bytes from
the start of the file are what the client expects there (`sound`), and to which
lengths the files of other transfers have been cut meanwhile (`cuts`): a
destructor may cut a file that another transfer has extended, and `Close` of that
one extends it again, with zeros. Bytes that are stored behind the end of the
file on the disk are taken to be lost (the real store would be to pages that the
file no longer has). Left out: transfers that overlap on one file (the server does not
synchronise them) and errors of the disk.

### SessionManager

One queue of tasks per thread of the pool. `CreateSession`, `CloseSession` and
`OnThdTimer` are parts of tasks, which are atomic: a thread runs one at a time,
and what threads share is only the table, under its lock. The sessions of a stub
are a set: their order decides only the order of the tasks that a tick posts, so
a tick posts them in any order. `Stop` is two steps of a thread outside the
pool.

### Paths and SessionFiles

Virtual paths are sequences of characters, because the code that normalizes and
looks them up goes over characters, and that is what the properties are about.
The alphabet has the characters the code tells apart and two letters. The disk
is a function from paths to kinds; a path on the disk is a root and parts. A
command that fails changes only which command was the previous one.

The lookup compares characters, so with an entry `/b` the path `/ba` is taken for
`a` below `/b`, and `/b.` for the part `.` below `/b`. Both are in the runs: on
the disk, a part `.` stands for the directory it is in (`Place`).

The roots of the entries are labels of separate directories, while the shipped
configurations have roots inside one another. `ReadOnlyKept` is therefore about
what the session does under a root by that root's entry: a read-only directory
that is also inside the root of a writable entry can be changed through that one.

The properties about paths say exactly what the code does, where it is not what
its comments say too. `PermissionsAgree` defines which entry answers by the parts
of the path, the continued names among them. `CwdStable` says when the current
directory resolves to itself: when no name in it is `.` or has a dot at its end
before a slash, and the entry that answers covers it. Neither assumes anything of
the names that clients send.

## 3. The runs

| Run | Question | Result |
|---|---|---|
| `ftp_session` | Do the FTP state, the coroutines, the sockets and the abort function stay in step in every interleaving, is data protected as PROT asked when its connection came up, and does the session implement `FtpService`? | holds |
| `ftp_session_live` | Does a session, or a transfer, whose socket was closed come to its end? | holds |
| `ftp_dialogue` | Does a setting last until its transfer has ended and no longer, is the type honoured, is a listing exact, batch by batch, while the directory changes, and does it show hidden files only on demand? | holds |
| `ftp_input` | Is every command one line, whatever the reads, is no line held back, and when exactly does the count of left-over bytes go wrong? | holds |
| `wfde_file` | Do buffers fit, is the end tracked exactly, does a complete upload leave its length and all its bytes, but for those behind another destructor's cut, and how much can a failed one leave? | holds |
| `session_manager` | One timer per stub, table and stubs in step, no task without its stub; are idle sessions closed and empty stubs given up? | holds |
| `session_files` | Do paths resolve as by their parts, which entry answers, when does the current directory resolve to itself, does everything stay below its root and what is under a read-only root unchanged? | holds |
| `auth_during_transfer` | "Control connection only!" of `yield_` | violated |
| `reply_buffer` | `reply_strings_` is "the actual data to send" | violated |
| `late_close` | a file is closed once | violated |
| `rest_applied` | "Restarting at n. Send STOR or RETR." | violated |
| `crlf_split` | a command may arrive in pieces | violated |

The violated ones are disagreements between the code and a comment, a reply or a
document; `PROJECT.json` quotes the line and describes the behaviour.

Every property of a run that holds has a mutant: a plausible bug in one
definition under which TLC finds the property violated. The definitions named
`...Mutant` in the modules are those bugs, and nothing else uses them.

Deadlock is not checked where the system may stop: an FTP session or its input
ends, files have a bounded number of transfers, connections a bounded number of
sessions, and a dialogue whose listing is under construction may have nothing
left to look at.

### Bounds

* `ftp_session`: a client that uses 12 commands, one of every kind that the
  session tells apart (login, both ways to set up a connection, both
  directions, ABOR, AUTH, PROT, QUIT, one without effect, one that may throw);
  the others have the same effect as one of these. There is no bound on the
  number of commands, transfers or failures. `ftp_session_live` and
  `reply_buffer` use the seven that concern data connections.
* `ftp_dialogue`, `rest_applied`: a directory that can have a dotted file and a
  name that is also a sub-mount; a buffer that two entries nearly fill, so that
  a third begins a batch; one offset besides 0; OPTS MLST with one fact or none.
  There is no bound on the number of commands, transfers and changes.
* `ftp_input`, `crlf_split`: a buffer of 6 bytes, all streams of three lines of
  up to five characters, and all streams of six bytes, line or not: lines that
  fill the buffer, empty lines, terminators alone or the wrong way round, and
  every division into reads. `Wrap` is 100 instead of 2^64; the proofs need only
  that it is more than twice the buffer.
* `wfde_file`, `late_close`: pages of 4 bytes, regions of 2 pages, growth by one
  region, two transfers, 8 bytes received: buffers are filled to every degree,
  files end inside and at the end of a page, and cross a region and a growth
  step. The real numbers are 4096, 8 and 128; the proofs hold for all of them.
* `session_manager`: two threads, one of which accepts, and three connections:
  a thread can lose its last session, give up its stub and get a new one while
  a task or timer of the first is still around.
* `session_files`: four entries, added in another order than that of their
  virtual paths: a read-only root, a home directory, an entry for itself only
  inside it, and an entry inside that. `MaxNodes` lets two things be made, so
  that a directory can have something in it and be moved. Commands are sent with
  9 paths, among them names that end with a dot (`a.`, `/b.`) and one that
  continues an entry (`/bba`, which `/b` answers as `/b/ba`); the properties look
  at the resolution of more than 50, in every current directory.

### Fairness

* `FtpSession`: strong fairness for each coroutine, since the pipeline is a
  first-in-first-out queue: a coroutine that is ready gets its turn although the
  other one keeps running (being ready is interrupted whenever the other one is
  between two operations). Weak fairness for completions that the operating
  system owes: a cancelled operation ends, the write of a short reply ends, an
  attempt to connect ends. Nothing is assumed of the client, of data transfers
  or of the timeout of the session.
* `SessionManager`: threads run their queues and timers expire. Nothing is
  assumed of connections, sessions or `Stop`.
* The other modules state no fairness: what their programs do in the end is up
  to the client.

## 4. The proofs

TLAPS checks these for every value of the constants that the named assumptions
allow.

**FtpSession** (`FtpSessionProofs`; `ClientCommandsAssumption`: the client's
commands are commands of the table). The safety properties are not inductive:
that a transfer can be interrupted depends on the acceptor, the acceptor on what
the control coroutine may still do, and so on. `IInv` adds to them where the
control coroutine can be (`ControlInv`), what PORT and PASV left (`PendingInv`),
what the abort function refers to stage by stage (`AbortInv`), how many final
replies were given in each stage (`FinalsInv`), who may use data connections and
when they are protected (`LoginInv`: what PROT was when the data connection came
up is remembered in the history `protThen`, since PROT may be given again while
the transfer runs). It is shown to hold initially and to be kept by each action,
first for the types, then for the rest. From it follow `TypeCorrect`, `Consistent`,
`PasvStaysUsable`, `AlwaysInterruptible`, `AbortStaysInScope`, `Guarded`,
`ProtIsHonoured`, and, as a property of steps, `EveryTransferAnswered`.
`TypeCorrect` includes that no transfer gets more than two final replies; two do
happen.

**The refinement** (`FtpServiceProofs`, `SessionImplementsService`). Every action
of the session is, through the mapping, one step of `FtpService` or a stutter:
most are stutters, those that reply to a transfer are `Answer`, those that end
one are `End`, those that lose the control connection are `Lose` or `Finish`.
Besides `IInv` the argument needs `ReleasedInv`: a session the manager has let
go of has no open control socket, so that an expired session is one whose client
is lost.

**FtpInput** (`FtpInputProofs`; `SizeAssumption`, `StreamsAssumption`,
`WrapAssumption`). Between two commands the bytes left over are in the buffer,
right behind the line that was returned, and are the next bytes of the stream
(`IdleInv`); while it reads they are at the front (`LocalInv`). Lemma
`ScanKeepsInv` says that the search for a terminator goes from the second to the
first. The exception is the count that has wrapped: the theorem
`SpecWrapsOnlyInTerminator` says that this happens only after a read that ended
between the two terminators, so every other division of the input is safe.

**DirLister and FtpDialogue** (`FtpDialogueProofs`; `NamesAssumption`,
`SizesAssumption`: a formatted entry is shorter than the buffer). `ListerInv`
says where each name is that nobody touched: not yet read, at the iterator,
among the sub-mounts, printed, or rightly left out (`NamesInv`); when nothing is
left to read, it has been printed once. One lemma for each of the lister's
operations shows that it is kept. The dialogue adds which stage of the transfer
goes with which stage of the lister, what the hidden files go back to
(`ShowInv`), and why no entry shows other facts than the one before it
(`FactsInv`); one lemma per command composes the two. `SettingsFresh` is part of
the invariant, as equalities: what is in force is what the histories say.

**WfdeFile** (`WfdeFileProofs`; `SizesAssumption`: positive sizes, pages of more
than one byte, at least two pages per region). Lemmas give what the arithmetic
computes: the region holds the position, an enlarged file has room for two more
pages, a buffer to write is a whole page, a buffer to read is not empty and
inside the file. The invariant `HandleInv` relates position, last buffer,
tracked end and file size of every transfer in each stage. From it follow
`TypeCorrect`, `EofIsExact`, `BuffersFit`, `ExcessIsBounded` and `AsciiIsCut`.
`UploadIsExact` is about bytes as well as length and needs a second invariant,
`ContentInv`: while an upload runs, all that was received is in the file, or the
destructor of another WfdeFile has cut the file at or before the first byte that
is not; the file is as long as the upload believes, unless it was cut to less.

**SessionManager** (`SessionManagerProofs`; `AcceptThreadAssumption`). That a
stub outlives the tasks that refer to it rests on the order of its thread's
queue: a tick posts them before the timer is armed again, so each is in front of
the next tick, and a stub is given up only by a tick that finds it empty. `IInv`
states that order (the tasks that close a session come before the tick that is
in the queue, if any) beside `OneTimer`, `SessionsAgree`, and that a connection
handed to a thread is in its queue once and has no session yet. Lemmas about
posting and taking tasks keep sequences out of the main argument; one lemma per
part of the invariant shows it is kept, and `StubsOutliveTasks` is a property of
steps that follows.

**Paths** (`PathsProofs`; no assumption on constants). The operators of `Paths`
are recursive functions over the characters of a path. The prover cannot use the
induction theorems of its library, which take a predicate; the first lemmas give
what is needed with a set in its place: `Least` (a nonempty set of numbers has a
least element), `Induction` and `SeqInduction` (a set of sequences that has the
empty one and is closed under `Append` is all of them), `Recursion` (a function
defined by its predecessor exists and stays in a family of sets). Then
* `DoSplitConcat` and `DoSplitToVpath`: splitting and joining are inverse to each
  other, and a path is split at any slash;
* `Boundary`: where the characters of a path begin with those of an entry, its
  parts begin with those of the entry, or the entry ends within a part
  (`GoesOn`);
* `Piece` and `NormalizeType`: each name that the walk takes is a piece of one
  part of the path, so that any set of names closed under pieces is kept;
* `NormalizeOrdinary`: for paths without backslashes, double dots in names and
  dots at their end, of every length and from every directory, the walk gives
  what the parts give one by one. The invariant of the walk (`StandsAt`): the
  parts behind it, resolved one by one, give what it has come to, and what is
  ahead begins a part of its own;
* `NormalizeClean`: from names without backslashes and without two dots in a row
  the walk loses only names `.` and a dot before a slash. The parts are made of
  the names in their order (`Taken`), and they are the same just when no name
  loses anything (`Tidy`);
* `NothingLeadsUp`: what `GetPath` gives is a root and parts below it, none of
  them empty, `..` or with a slash in it, for every path, all entries and all
  current directories without two dots in a row, and the result is such a
  directory again. The lookup by characters may cut a name anywhere, so the
  argument is about adjacent dots (`Clean`) and not about parts.

**SessionFiles** (`SessionFilesProofs`; `EntriesAssumption`, `PathsAssumption`,
and `FilesAssumption`: the disk is a tree at first; entries have different
virtual paths and roots, and nothing is assumed of the paths that are sent).
`Inv` says that the current directory and the pending rename are `/` and names
without a backslash and without two dots in a row (`VpathsInv`), and that the
disk is a tree below the roots. That the tree is kept is shown for each change of
the disk (`AddTree`, `RemoveTree`, `MoveTree`: a rename takes all that is below
with it, and no two paths to one). `NextDisk` sums up all commands: a step leaves
the disk alone or adds, removes or moves something in an entry that allows it
(`DiskStep`). From these follow `SpecTypeOK`, `SpecConfined`,
`SpecNormalizeAgrees` and, for steps, `SpecReadOnlyKept`. `SpecPermissionsAgree`
rests on `LookupAgrees`: among the entries that match by characters, which by
`Boundary` are those that cover the path or are continued by it, the last in the
order of the index is the longest. `SpecCwdStable` has both directions. If the
names are tidy, the walk gives them back, and the entry that covers them gives
the directory itself. If they are not, the walk gives fewer or shorter names, and
what the lookup makes of them is never the directory again: an entry that covers
them adds nothing, and one that is continued cuts a name in two, which does not
bring back what was lost (`NotJoined`).

Only model-checked: liveness (`ControlEnds`, `ClosedTransferEnds`,
`IdleIsClosed`, `StubIsReleased`), since fairness is beyond the prover. Every
other property of a run that holds is a theorem.

## 5. Observations

Behaviour that the models have and that is worth a look, although no sentence in
the repository excludes it:

* An ABOR without a transfer, or while the preliminary reply of one is written,
  gets no answer of its own.
* A transfer that waits for a passive connection when housekeeping closes the
  session is not aborted (`DoClose` aborts only while the session exists); it
  may wait for ever.
* A transfer may get two final replies: a read that completed just before an
  ABOR, then the failure on the closed socket.
* An abort may leave `abort_transfer_` referring to a local socket if the system
  refused an accept; `AbortInScope` says that this is the only way.
* A binary upload that fails leaves its file longer than what was received, up
  to the step the file grows by (`ExcessBounded`). An ASCII upload does not.
* A refused RNFR counts as the previous command: RNTO then renames what an
  earlier RNFR named, or the current directory.
* A dot at the end of a name is kept, but a dot before a slash is taken for a
  part of its own (`WfdePath.cpp:299-363`): after MKD and CWD of `a.` and CWD of
  `b`, PWD says `/a./b`, and a CWD to that goes to `/a/b`.
* The lookup finds "the longest mathing recursive parent path"
  (`WfdePermissions.cpp:66`) by characters (`:82`): with an entry `/b`, the path
  `/ba` is answered by it as `/b/a`, with the permissions of `/b`, although it is
  no parent of `/ba`. An entry for itself only hides those above it: what is below
  it is not found at all. With both, after CWD of `/bba` with entries `/b` and,
  for itself only, `/b/b`, the session is in `/b/ba`, which does not resolve.
* A REST that is refused drops the offset that an earlier one has promised
  (`wfde_ftp_commands.cpp:544`).
* A destructor cuts its file at the end it knows, whatever another transfer has
  written behind that meanwhile (`late_close`, and after a failed upload too).
  When that transfer is complete its length is right, but the bytes behind the
  cut may be zeros (`UploadExact`).
* `IsEnabled` compares a masked bit with 1, so only the fact SIZE is ever shown,
  whatever OPTS MLST selects.
* `IsSameParentDir` compares a path with itself and is never true: a rename in
  one directory needs the permission to create too, which `wfde.h:979-983` says
  it does not.
* `WfdeProtocol::Stop` clears a flag and closes the acceptors; sessions and
  transfers go on.
* `GetVpaths` tests the character before the place where the separator would be
  (`WfdeSession.cpp:353`), so only the listing of `/` shows sub-mounts.
* A session found idle is closed although its client has acted before the task
  that closes it ran.

## 6. What is not modelled

* A restart of an interface (`Start` after `Stop` has no caller) and the data
  race of `Stop` with the accept coroutine: `SessionManager` has `Stop` in two
  steps and takes the acceptor to be safe. Address resolution.
* `Permissions::Merge` and the walk up the entity tree. The daemon builds
  permissions per user (`wfded/AuthManager.h:126`) and merges those of the host
  into them at login (`WfdeSession.cpp:57-63`); the shipped configuration uses
  that. `Entries` stands for the table that results: `Merge`, like `AddPath`,
  leaves out an entry whose virtual path or root is there already, which is what
  `EntriesAssumption` says, in any order. `GetSessions` has no caller. The tree
  itself is built once before anything runs.
* The search of strings in `GetVpaths`: in `DirLister` the sub-mounts of a
  directory are a set.
* SIZE, MDTM and MLST, which only read, and the name that STOU makes up.
* Formatting of listings, dates and replies, logging, configuration, the command
  line: no state that any of this depends on.
* The bytes on sockets and the TLS protocol: libraries.
* The file listing for Windows.

## 7. State of the work

Done, in the order of the plan: the session with its transfers; files; the
session manager; paths and file commands; the input; ASCII transfers; the
settings of transfers and listings; the abstract service and its refinement; the
proofs of all components, the path algorithms among them.

Dropped from it: the restart of interfaces, which has no caller, and a run for
the promise of `wfde.h` about renames, whose behaviour is under Observations.

What would add most from here: a composition of `FtpSession` with
`SessionManager` in which the housekeeping of the one is the `SessionTimeout` of
the other (today `SessionTimeout` may come at any time and `SessionEnds` too,
which allows more than the composition would); overlapping transfers of one
file, each step of which would become one of the operating system's; and the
entity tree with `Merge`.
