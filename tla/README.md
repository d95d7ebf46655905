# asem in TLA+

asem runs coding agents as *Sessions* in the panes of a terminal multiplexer
(herdr, tmux, rmux, zellij) and lets them send each other *Messages*. Its state
is one SQLite file, `~/.asem/state.db`, which every process of a user opens: each
CLI command, the MCP server of each agent, the TUI. There is no daemon and no lock
between them but SQLite's. This directory holds TLA+ models of that system, the
TLC configurations that check them, and proofs for TLAPS.

    tlc -workers 2 -config ws_panes.cfg MCWorkspace.tla
    tlapm Workspace_Proofs.tla

## 1. Inventory

Paths are below `src/packages/`.

| Component | State it keeps | Operations | What makes it correct | Modelled by |
|---|---|---|---|---|
| **store** `store/src` | tables `sessions`, `messages`; one connection per process; `inTransaction` | scoped insert/get/list/update/delete, `listMessagePage`, `withTransaction` | a statement is atomic, nothing larger is unless in `withTransaction`; sequence numbers are never used again; a page is a prefix of what matches | `Store`, `MessagePage`, `PageLoop` |
| **store, migrations** `store/src/migrations.ts` | `user_version`, the schema | `migrate` on every open | an open store is complete; the version never falls; old rows are numbered in order | `Migration` |
| **ops, life cycle** `ops/src/operations/{create,close,delete}-session.ts` | none of its own: rows, panes, files under `.asem/sessions` | `createSession`, `closeSession`, `deleteSession` | no row without an agent, no pane without a row, no live row deleted, links form a forest | `Workspace` |
| **ops, registration** `init-session.ts` | token file, `.asem/current-session.json` | `initSession` | a borrowed pane is never closed; the pointer finds its token | `Workspace` |
| **ops, messaging** `send-message.ts` | rows of `messages`, text in panes | `sendMessage`, `reportParent`, `deliver` | persisted before notified; the outcome is truthful and comes | `Workspace`, `Sequence` |
| **ops, inbox** `list-messages.ts`, `wait-messages.ts`, `../message-cursor.ts` | none: the reader holds a cursor | `listMessages`, cursor `latest`, `waitMessages` | each Message once, in order, none skipped | `Inbox` |
| **ops, liveness** `liveness.ts` | `status` | `refreshLiveness(All)` in list and get | never overwrites what is final | `Workspace` |
| **ops, context** `../context.ts` | none; reads the environment, the pointer, the rows | `resolveContext`, the authentication ladder | an agent acts only as itself; a refusal has a cause | `Surfaces` |
| **ops, project** `init-project.ts` | `.asem.yaml`, `.gitignore` | `initProject` | nobody's edit is lost, the config means what was selected | `Files` |
| **ops, the rest** `peek`, `doctor`, `workspace-snapshot` | none | read | | `Sequence`, `Cockpit`, in part |
| **runtime** `runtime/src` | captures of a running sequence | `SequenceEngine.run`, builtin templates, interpolation, redaction | stops at the first error that is not ignored; a timeout kills; the sequences of a template fit together | `Sequence` |
| **tui** `tui/src` | view state, activity strip, key queue, renderer | keys, ticks, dialogs, refresh, attach | an action hits the Session the user saw; the screen catches up; the terminal is given back | `Cockpit` |
| **mcp** `mcp/src` | a line buffer | one request after the other | one answer per request, in order | `Surfaces` |
| **cli** `cli/src` | none | route, parse, run one operation, render; adapters for files and processes | the words mean one thing; the exit code tells the truth | `Surfaces`, `Files` |
| **profiles** `profiles/src` | files of two directories | lookup | the project's before the user's, and one profile whole | `Files` |
| **integrations** `integrations/src` | config files and Skill documents of agents | `mcp add`, `skills add` | merging keeps what is foreign; one definition of asem | `Files` |

How they interact: cli, mcp and tui call one function of ops; ops calls the store,
the sequence engine (which runs shell commands against the multiplexer) and the
file system, with an `await` before each. Two processes share the tables, the
panes and the files of a worktree, and nothing tells one about the other: every
value an operation read before an `await` may be stale after it. This is where
the behaviour is hard:

* operations of several processes interleave between any two of their awaits;
* a create is eight steps over three resources (pane, files, row), each can fail,
  and only some of the exits clean up;
* panes die on their own; processes are killed; SQLite can refuse a write;
* commands fail, hang, die by signals, or act on the pane after they have ended;
* cursors are held by readers for as long as they like, while Messages and
  Sessions are deleted;
* an old database may be opened by two processes at once;
* config files are read, merged and replaced while other programs write them;
* in the TUI, keys, ticks and operations interleave on one view state;
* who may act is decided over several awaits, from a pointer and rows that change.

`PROJECT.json` lists the hazards line by line, with the properties that cover each.

## 2. Modules

| Module | Models | Extends |
|---|---|---|
| `Store` | the two tables and the statements of `SqliteStore` that write them, as operators | |
| `Workspace` | the life cycle of Sessions and the push side of messaging: 28 actions of any number of processes, the panes, and the faults | `Store` |
| `Workspace_Proofs` | the lemmas about steps; theorems about the table of Sessions, about records of what was done, and about panes and their rows | `Workspace`, `TLAPS` |
| `MessagePage` | what `listMessagePage` returns, as an operator on sets | |
| `PageLoop` | the loop that computes it | `MessagePage` |
| `MessagePage_Proofs` | lemmas about sums and the order of rows | `MessagePage`, `FiniteSetTheorems`, `WellFoundedInduction`, `TLAPS` |
| `ReliableInbox` | abstract: what the Message protocol promises an agent | `MessagePage` |
| `Inbox` | the pull side: rows, cursors, `list_messages`, `wait_messages` | `MessagePage` |
| `Inbox_Proofs` | the theorem about cursors, and that `Inbox` implements `ReliableInbox` | `Inbox`, `MessagePage_Proofs` |
| `Migration` | processes that open an old database | |
| `Sqlite_Proofs` | theorems about the two parts of the store that run in steps, `Migration` and `PageLoop` | `Migration`, `PageLoop`, `MessagePage_Proofs` |
| `Templates` | a step of a command sequence, the builtin multiplexer templates, variables | |
| `Sequence` | the engine, its child processes, and the operations that run sequences on one Session | `Templates` |
| `Sequence_Proofs` | theorems about the engine and the builtin templates | `Sequence`, `TLAPS` |
| `CockpitView` | view state, selectors, reducer, key map and frame of the TUI, as operators | |
| `Cockpit` | its loop and its host, beside a store that others write | `CockpitView` |
| `Cockpit_Proofs` | theorems about dialogs, badges, the tree, the cursor and the strip | `Cockpit`, `FiniteSetTheorems`, `TLAPS` |
| `CommandLine` | from the words of an invocation to a command, a help page or a usage error | |
| `Surfaces` | one process from its first word to its exit: CLI, MCP server, and the ladder that decides for whom it acts | `CommandLine` |
| `Surfaces_Proofs` | the theorems about verdicts, ports, the words of a command and the lines of the MCP client | `Surfaces`, `MessagePage_Proofs`, `SequenceTheorems`, `TLAPS` |
| `FileFormats` | the contents of the shared files and what asem does to them, as operators | |
| `Files` | processes that read and replace them | `FileFormats` |
| `Files_Proofs` | theorems about what is in the files | `Files`, `TLAPS` |
| `MCWorkspace`, `MCInbox`, `MCCockpit`, `MCSequence`, `MCSurfaces`, `MCFiles` | instances for TLC | |

The components meet at narrow places, and are modelled on either side of them. In
`Workspace` a command sequence is one step that succeeds, or fails with or without
its effect; `Sequence` is that step from the inside, and shows of the builtin
templates what `Workspace` takes for granted: a pane that was started can be closed
with the variables at hand, and what is recorded as delivered was submitted. In
`Surfaces` an operation that has been let through is one step with any outcome;
`Workspace`, `Inbox` and `Files` have its steps. In `Cockpit` a mutation is one step on
the store.

### Workspace

| Variable | In the code |
|---|---|
| `rows`, `msgs` | the tables, restricted to one Workspace (every query of the store is) |
| `ids`, `drawn` | UUIDs already given (`idGenerator.nextId`) |
| `pane[i]` | the multiplexer pane of Session `i`: `open` (a shell), `boot` (about to run `launch.sh` by itself), `agent`, `host` (borrowed by `init-session`) |
| `script`, `launched`, `typed` | `launch.sh` on disk; run; Messages whose text reached a pane |
| `tokens`, `pointer` | files `.asem/tokens/*`, `.asem/current-session.json` |
| `op[p]` | the operation process `p` is in: the step it is at, and the row it read before (`row`), which is what it uses after an await |

Each `await` that changes something shared is a step. Steps that only read and
then decide are merged with the step before the next write: what they saw is kept
in `op[p].row`, and as anything may happen before the next step, no interleaving is
lost. So the name check, the parent lookup and the drawing of the UUID in
`createSession` are one action (`CreateBegin`), and an early error return is no
action at all, for it changes nothing. Names are a set of model values; the bodies
of Messages, prompts, models and profiles are left out.

What a multiplexer's template does is reduced to what makes a difference to the
properties: `AutoStart` (its create sequence runs the launch script: zellij) and
`QuietClose` (its close sequence ignores errors: zellij). `"none"` has no transport.

`Faults` bounds what goes wrong in an instance. A fault is a disjunct that is
always there, so that the proofs cover all of them.

`Probed` is what the `LivenessProbe` port may answer. The probe that ships
(`cli/src/runtime/adapters.ts:410`) answers the status of the row it is given, which
is `Probed = {}`: the update of `liveness.ts:42` is then never reached, and `ClosedIsFinal`
says that no other operation revives a row. `ws_lifecycle` uses `{"exited"}` so that this
update, and deletes of Sessions that were never closed, happen. With such a probe
`ClosedIsFinal` would be false: the update has no guard.

### MessagePage, PageLoop, Inbox

A page is defined once, without a loop, as a set of sequence numbers (`Page`);
`PageLoop` runs the loop of `listMessagePage` for all inputs within bounds and shows
that it returns that set. `Inbox` then uses the operator. A cursor is its position
and the query it is bound to. The store keeps nothing about a reader, so a lost
answer needs no action: the reader still holds its old cursor, and calls again.
The protocol asks an agent to synchronise once and then go on from its last
cursor; that is what readers of `Inbox` do, with cursors of all their queries at
hand (`Starts`), the one they should not use included: `Binds` refuses it.

`ReliableInbox` is the promise: what is recorded for a reader is received in order,
each Message once, except what is deleted before it is read or skipped with
`latest`. `Inbox` refines it with `inbox[r]` mapped to the rows behind the cursor
of `r` and `last` to the highest sequence number.

### Migration

`migrate` reads `user_version` once and then runs a transaction for each version
above it. Versions 1 to 4 fail when they run a second time (`create table`,
`add column`); version 5 renames, rebuilds and renumbers `messages`, and can run any
number of times. Messages are numbered by their rank in `(created_at, id)`; `LegacyOrder`
says so of every time it runs.

### Templates and Sequence

A step keeps its type, the variables it interpolates, what it captures, `on_error`,
whether it has a timeout, `background`, and what its command does to the pane: open
or kill it, type a text, submit the line. The four builtin multiplexer templates are
written out in these terms. herdr's `inject` puts the text on the line *after* its
command has ended, which is why the template pauses for 200 ms.

| Variable | In the code |
|---|---|
| `plan[c]` | the operation of caller `c`: create (with a prompt to paste or not), send, close, peek, or a sequence of a user's own template |
| `row`, `ref` | the Session's row, and the `mux_ref` stored in it: which variables it has and which step each came from |
| `engine[c]` | `SequenceEngine.run`: step, `ctx`, `captures`, `handles`, the final stdout; `stage` says which sequence of the operation it is |
| `log[c]` | outcomes of the steps of the current sequence |
| `did[c]` | the child process has acted on the pane |
| `late` | effects still to come: injected text, background commands, what a killed shell had started |
| `pane` | whether it is there, its input line, the lines it submitted |

A child process acts at some moment of its life, then exits with a code, dies by a
signal (`code ?? 0` makes that exit 0, `adapters.ts:482`), fails to spawn, or runs into
its timeout, where only the shell is killed. `ResultMeetsDefinition` compares the
engine, which goes step by step, with a definition over the whole log.

### CockpitView and Cockpit

| Variable | In the code |
|---|---|
| `v` | `CockpitApp.state` (`CockpitState`): snapshot, filter, tab, selection, baseline of seen Messages, expanded Messages, dialog, activity strip |
| `notice`, `op`, `why`, `loaded` | the rest of `CockpitApp`: the notice, the effect carried out, what a refresh is for, the first half of a snapshot |
| `queue`, `renderer`, `closed` | `OpenTuiCockpitHost`: keys waiting, the renderer, whether it was closed |
| `frame` | the view that was drawn last: what the human sees |
| `pc` | the await that `CockpitApp.run` is at |
| `asked` | history: the Session under the cursor of `frame` when the dialog was opened |
| `store` | the tables; `Others` changes them |

`CockpitView` translates the pure core: the reducer of `view-model.ts` is one operator
per action on the record `v`, with the effect it returns. Sessions and Messages are
numbers in `created_at` order. The tree is given as paths and their preorder, without
recursion through children. In `Cockpit` a snapshot is two reads, keys queue while the
loop awaits something else, and the refresh timer runs only while no dialog is open. A
key that is bound to nothing leaves even the notice alone. A store that refuses is an
error on the screen; one that throws, in a load, in a mutation or in the read before an
attach, ends the loop.

### CommandLine and Surfaces

| Variable | In the code |
|---|---|
| `argv`, `route`, `readonly` | the words, and what `main.ts` makes of them before they are parsed |
| `call` | the operation under way: whose origin it has, which checks of the ladder are left (`todo`), the reference resolved, the actor found |
| `world`, `creds` | `.asem.yaml`, pointer and rows; `AS_SESSION_ID` and `AS_SESSION_TOKEN` |
| `seen`, `verdict` | history: the worlds since the call began, and how it ended |
| `script`, `cut`, `pipe`, `buffer`, `open`, `answers` | the MCP client's lines, written in fragments and read in chunks; the responses |
| `exit`, `attach` | how the process ends; whether an attach follows |

A word is its text and whether it looks like an option. `ParseFlags` goes through the
words as the code does; `Meant` says what they mean, without going through them.
`Ladder` lists the checks an operation makes, and each lookup is a step, so that the
pointer and the rows may change between them.

### FileFormats and Files

A file is its items: the lines of `.gitignore`, the tables and keys of a TOML file, the
servers of a JSON file, the scalars of `.asem.yaml` with their quotes. A directory of
profiles is the sequence of its files.

| Variable | In the code |
|---|---|
| `files` | the contents: `.asem.yaml`, `.gitignore`, the config file and Skill document of each Integration Target, both profile directories |
| `temps[p]` | the temporary file of `writeFileAtomic` and `writeTextFileAtomic` |
| `jobs[p]`, `procs[p]` | what process `p` was asked; where it is, what it read, what it will write; of a launch also the directory it reads (`source`), the files in it still to come (`names`) and the profiles got so far (`got`) |

Jobs are `init` (the wizard included), `mcp add`, `skills add`, and the part of
`createSession` that reads config and profiles before its first side effect. Every system
call on a shared file is a step: whether a config or a target is there and then reading
it; whether a directory of profiles is there, listing it and reading its files one by
one. Anybody may replace or remove a file between two steps, and what was there may be
gone when it is read. A process may be killed, or fail to write before or after it has
made its temporary file, and is run again.

The header of a TOML table is a line in one of two spellings: the plain one
(`[mcp_servers]`, `[mcp_servers.asem]`) and one with a comment behind it, which stands for
every spelling that TOML takes for the same and `codex.ts` does not.

## 3. Runs

| Run | Shows | Bounds |
|---|---|---|
| `ws_panes` | `PaneAccounted`, `RowsWereLaunched`, `ClosedIsFinal`, `TypeOK` | 3 Sessions (one closed, one being deleted, one being created), 2 processes, 2 names so that names collide, tmux; faults: `run`, `pane` |
| `ws_lifecycle` | `TreeAcyclic`, `PointerHasToken`, `NoRowComesBack`, `OnlyDeadRowsDeleted`, `HostPaneUntouched` | 2 Sessions, 2 processes, three kinds of multiplexer, every fault of the life cycle, crashes |
| `ws_messages` | `DeliveredWasTyped`, `OutcomeRecorded` (fair) | 2 Sessions, 2 processes, 1 Message: the properties are about one Message at a time |
| `page_loop` | `PageIsExact`: the loop returns the page, and `hasMore` is exact | every set of at most 4 rows; sizes nothing, small, all and more than all of the budget; limits from none and 0 to above the maximum |
| `inbox` | `ReceivesReliably`, `InsertsAheadOfCursors`, `WaitHandsOver` (fair) | 2 Sessions, one of them a reader with two queries, 2 Messages, pages of 1 and 2, pages of 1 for `latest`, 1 nap |
| `mig_concurrent` | `OpenMeansLatest`, `VersionNeverFalls`, `LegacyOrder` | 2 processes that may die, databases of every earlier version, 3 Messages |
| `cockpit` | `ScreenIsCoherent` (cursor, tree, badge and terminal agree with the snapshot), `MutationsHitWhatWasAsked`, `BadgesAreEarned`, `StripTellsEveryChange`, `ScreenCatchesUp` and `CloseEndsTheLoop` (fair) | 4 Sessions, one exited, one a child and one created later; 1 Message; 12 kinds of keys, 3 presses, 1 in the queue; 1 change by others, 1 failure; a strip of 3 rows |
| `sequence` | `TemplatesFitTogether` (the variables suffice, a failed start leaves no pane), `ResultMeetsDefinition`, `LinesAreWhole`, `DeliveredIsSubmitted`, `TimedSequencesEnd` (fair) | 2 operations on one Session, every builtin multiplexer, rows of init-session with and without the refs, 2 sequences with every step option; 2 commands that go wrong |
| `surfaces` | `VerdictsHaveACause` (who is let through was vouched for, who is refused is told why), `WordsMeanOneThing`, `PortsSuffice`, `AnswersFollowTheLines`, `EveryRequestAnswered` (fair) | every command with up to three words from its options and some strays (two for the three commands with the most options); 2 Sessions in 2 Workspaces, every kind of pointer and credentials; MCP scripts of up to three lines, cut anywhere; 1 change by others |
| `files` | `FilesAreWhole`, `CompletedInitHolds`, `InstalledHolds`, `ConfigSaysWhatWasSelected`, `LaunchFollowsOneProfile`, `KeepsForeign` | 2 processes, every target and scope alone, pairs that share a file, TOML files of up to 3 lines of every kind; 1 edit by others, 1 crash or failed write |
| `ws_leak` | violates `PaneAccounted` | as `ws_panes`, one Session, with the faults the code does not clean up after |
| `init_yaml` | violates `ConfigSaysWhatWasSelected` | an id `2024`, and a selected zellij template |

Two processes are enough to have any stale read: one operation between another's
read and its write. Two Sessions make a link, and a cycle if there could be one
(the proof covers longer ones); the third of `ws_panes` lets a name be used again
while a close and a create are under way. Readers share nothing but the store, so one
is enough for `inbox`. The fourth Session of `cockpit` is created while it runs, below
the second root, so that rows move under the cursor; three keys open, fill in and
confirm a dialog, and one change fits between any two steps of that. Two faults in
`sequence` let a step and then its cleanup fail. In `surfaces` one change is enough to
make the two reads of the pointer, or the pointer and the row, disagree. In `files` one
edit fits between any read and the write that follows it.

Bounds are constants named as such (`MaxMessages`, `MaxStamps`, `MaxPolls`, `MaxKeys`,
`MaxQueue`, `MaxChanges`, `MaxFailures`, `MaxFaults`, `MaxEdits`, `Kinds`, `Faults`,
`Plans`, `Refs`, `Scripts`, `Scenarios`, ...). The systems may always stop when
identifiers, keys or jobs are used up, or when a command never ends, hence
`CHECK_DEADLOCK FALSE` - but for `surfaces`, where deadlock is checked: a process that
has not ended can always go on.

Some properties have conditions that are not for convenience:

* `PaneAccounted` holds only under the faults the code cleans up after, and
  `RowsWereLaunched` only for multiplexers that start nothing by themselves (see below).
* `LinesAreWhole` speaks of one sender and of commands that work: nothing keeps two
  sends out of one pane, so their texts may share a line. What still holds then is
  `DeliveredIsSubmitted`, except for a command that dies by a signal.
* `TimedSequencesEnd` speaks of sequences whose commands have `timeout_ms`. No builtin
  template sets it.
* `MutationsHitWhatWasAsked` says that the target is right. A key typed ahead can still
  confirm a dialog that the human has not seen.
* `InstalledHolds` leaves out files that define asem under a TOML header in a spelling
  that asem does not see (`Hidden`): `[mcp_servers.asem] # note`, or `[mcp_servers] # note`
  with an `asem` key below it. The code compares whole lines
  (`integrations/src/mcp/codex.ts:55,67`), takes them neither for its table nor for an
  unsafe form, and appends a second definition. `TidyFiles` exempts the same files.
* `KeepsForeign` speaks of a file nobody changed between read and rename; an edit in
  between is lost.
* `PortsSuffice` leaves out command lines in which some word asks for help: a
  `message send s1 --body help --json` gets the read-only dependencies from `main.ts`,
  runs as a command all the same, and throws at the withheld store.

### What the repository says and the code does not do

| Run | Statement | What happens |
|---|---|---|
| `ws_leak` | "If any step before the insert fails, ... makes a best-effort attempt to run the mux `close` sequence" (`create-session.ts:17`) | the cleanup after a failed create sequence (`:474`) runs with variables that lack the mux refs each builtin `close` names, and closes nothing; a launch script that cannot be written (`:514`) and an insert that throws (`:602`) attempt no cleanup. The pane stays, with no row |
| `init_yaml` | "Quote a workspace id as a YAML scalar only when it needs it" (`init-project.ts:36`) | an id such as `2024`, which the wizard proposes in a directory of that name, is written bare and read back as a number: every later command ends with `invalid_config`. A string with line breaks is put raw between double quotes |

Met while modelling, without a run of their own. Where a definition states it, adding it to
the cfg of its module (and the command line in question to `McCommandLines`) shows it.

| Stated by | Statement | What happens |
|---|---|---|
| `Workspace!RowsWereLaunched` with one Session, `Mux`, `AutoStart` and `QuietClose` = `{"zellij"}`, no faults | "insert the Session row — only after a successful start" (`create-session.ts:15`) | zellij runs `launch.sh` as the command of the pane it creates, maybe before step 7 has written it; its `run_in_pane` is empty, and the row is inserted although nothing was started |
| `Workspace!NothingDangles` | "Forced parent deletion clears direct child parent links" (`delete-session.ts:21`) | a row (or a Message) written after the delete, from a lookup before it, names the deleted Session |
| `Workspace!ClosedStampedOnce` | "do not re-stamp `closed_at`" (`close-session.ts:145`) | two closes that overlap stamp it twice |
| `Migration!AppliedOnce` | "already-applied versions are skipped" (`migrations.ts:160`) | version 5 is applied by both of two processes that read version 4, and numbers the Messages anew while the first may already hand out cursors |
| `Surfaces!HelpReachesEveryPage` | "Run `asem session <subcommand> --help`" (`usage.ts:87`) | `asem session peek --help` is a usage error: the table of `parse.ts:987` lacks `peek`, whose page exists (`usage.ts:645`) |
| | "leaving all other TOML (including comments) untouched" (`codex.ts:7`) | comments between the asem table and the next header are dropped with the table (`:72`) |
| | "an existing `.asem.yaml` is not overwritten" (`docs/designs/init-wizard-design.md:40`) | of two inits that run at once, the second replaces the config of the first |

Smaller things the models show and nothing promises otherwise: a create with the default
parent by an agent resolves the pointer twice; a profile that is moved from the user's to
the project's directory between the two reads is found in neither; a temporary file stays
behind when a write fails.

### Fairness

* `Workspace!FairSpec`: weak fairness on `Resume(p)`, a step of an operation that is
  under way. The event loop of a process resumes an operation whose await settled, and
  promises of the store and the file system settle; that a multiplexer command ends is
  an assumption here, as no default timeout is configured for it. Nobody is obliged to
  begin an operation, and no fault is obliged to happen.
* `Inbox!FairSpec` has the same for the two calls with a loop, `tailSequence` and
  `waitMessages`.
* `Sequence!FairSpec` does without that assumption: the engine and its timers go on, and
  late effects land or are lost, but no command has to end.
* `Cockpit!Spec`: the loop goes on with whatever it awaits, the refresh timer fires, the
  renderer comes up and goes down. Nobody has to press a key, change the store or
  detach. The fairness of the loop is written with `Ready`, which says when a step of it
  can be taken; it is weak fairness of those steps in a form TLC evaluates faster.
* `Surfaces!Spec`: an operation and the server go on while they can. The client need not
  close stdin, and nobody edits anything.

`Files` and `Migration` state safety only: a killed process need not be run again.

## 4. Proofs

Every theorem holds for all values of the constants that satisfy the assumptions of its
module: any number of processes, Sessions, Messages, names, multiplexers, keys,
command lines, templates, jobs and file contents, and every number of faults, edits and
changes by others. The assumptions of the modules say what kind of values the constants
are, with three exceptions that say something of the code: there is a token file per
Session, and it holds that Session's token (`SurfacesAssumption`); the id of a Session is
drawn by the one create that makes it, and only user templates bring steps of their own
(`PlansAssumption`). TLC evaluates each of them in the runs.

| Theorem | Statement | Assumed besides |
|---|---|---|
| `TypeCorrect` | `[]TypeOK` | |
| `TreeStaysAcyclic` | `[]TreeAcyclic` | |
| `GoneIsForever` | `NoRowComesBack` | |
| `BorrowedPanesSurvive` | `HostPaneUntouched` | |
| `DeletedWereDead` | `OnlyDeadRowsDeleted` | no probe reports a live status |
| `NoPaneIsLost` | `[]PaneAccounted` | `Tidy`: the faults the code cleans up after, and no probe that reports a dead status |
| `ClosedStaysClosed` | `ClosedIsFinal` | no probe reports anything but `running` and `closed` |
| `RowsStandForLaunches` | `[]RowsWereLaunched` | no multiplexer starts the script by itself |
| `DeliveryIsEarned` | `[]DeliveredWasTyped` | |
| `PointerIsGood` | `[]PointerHasToken` | |
| `VersionRises` | `VersionNeverFalls` | |
| `OpenedIsComplete` | `[]OpenMeansLatest` | |
| `LegacyKeepsOrder` | `LegacyOrder` | |
| `CursorsNeverSkip` | `InsertsAheadOfCursors` | |
| `InboxKeepsPromise` | `ReceivesReliably`, a refinement | |
| `PagesAreExact` | `[]PageIsExact` | |
| `EngineMeetsDefinition` | `[]ResultMeetsDefinition` | |
| `DeliveryIsSubmission` | `[]DeliveredIsSubmitted` | `BuiltinPlans` |
| `TemplatesHold` | `[]TemplatesFitTogether` | `BuiltinPlans`, `OneTemplate` |
| `LinesStayWhole` | `[]LinesAreWhole` | `BuiltinPlans`, `JobsLook` |
| `MutationsAreAsked` | `[]MutationsHitWhatWasAsked` | |
| `BadgesStayUntilSeen` | `BadgesAreEarned` | |
| `ScreenStaysCoherent` | `[]ScreenIsCoherent` | `FiniteTables` |
| `StripIsComplete` | `StripTellsEveryChange` | `FiniteTables` |
| `VerdictsAreCaused` | `[]VerdictsHaveACause` | |
| `PortsAreThere` | `[]PortsSuffice` | |
| `WordsAreUnderstood` | `[]WordsMeanOneThing` | |
| `AnswersAreInOrder` | `[]AnswersFollowTheLines` | |
| `FilesStayWhole` | `[]FilesAreWhole` | |
| `CompletedInitsHold` | `[]CompletedInitHolds` | `TidyFiles` |
| `InstalledStands` | `[]InstalledHolds` | `TidyFiles` |
| `ForeignIsKept` | `KeepsForeign` | |
| `ConfigsSayWhatWasSelected` | `[]ConfigSaysWhatWasSelected` | `PlainNames` |
| `LaunchesFollowOneProfile` | `[]LaunchFollowsOneProfile` | |

The assumptions are not for convenience; without them the code does something else:

* `DeletedWereDead` fails for a probe that reports a Session live between the test of
  `deleteSession` and its transaction, and `ClosedStaysClosed` for one that calls it
  starting, exited or missing while another process closes it, as the update of a status
  has no guard. `NoPaneIsLost` fails for each fault left out of `Tidy` that leaves a pane behind
  (`ws_leak`). The shipped probe, `Probed = {}`, meets all three. `RowsStandForLaunches`
  fails for zellij (section 3).
* `FiniteTables`: a store holds finitely many rows. The order of an infinite set of rows is
  not defined, in the model as little as in a list.
* `BuiltinPlans`: a user's own template need not submit what it types. `OneTemplate`: the
  row names the template, and every operation on the Session looks it up by that name.
  `JobsLook`: a sequence a user brings types nothing at the pane; one that does shares the
  input line with whatever is being sent.
* `PlainNames`: the names written to `.asem.yaml` are none that the loader reads as
  something else. The run `init_yaml` is what happens otherwise.
* `TidyFiles`: no `.gitignore` that is found or edited has a runtime rule twice, and no TOML
  file two definitions of asem. asem removes neither; it only adds what is missing.

`MCSequence` and `MCFiles` assume the last five (`BuiltinPlans` to `TidyFiles`) of their instances, so that TLC confirms
that there are plans and files of that kind: those of the passing runs.

Why they hold, and what had to be added to make the invariants inductive:

* *Links form a forest.* A row is inserted with a parent looked up many steps before,
  which may be gone, and links to deleted Sessions survive (`NothingDangles`). `TreeInv`
  adds that all UUIDs in the tables have been drawn, that the UUID of an insert under
  way has no row and no children (`Childless`), neither in the table nor among the
  inserts under way, and that no two inserts share one. A row is therefore always
  added as a leaf (`LeafKeepsTree`), and everything else only cuts links
  (`CutsKeepTree`). `StepShape` says what a step can do to the table: draw a UUID,
  insert, update, remove, or nothing; the 28 actions are looked at there only.
* *Panes.* Between reading a row and touching its pane, an operation relies on the
  owner of the pane. `AloneInv` (nobody else works on a Session that is about to be
  inserted) and `OwnerInv` (row, pane and the row each operation holds agree about who
  owns the pane) make that safe. For `PaneAccounted`, `AccountInv` adds that a close or
  a delete that is about to give up the row has no pane left; a step is then shown to
  be `Careful`: it makes no pane, leaves the row of a pane live, and does not end a
  create before its pane.
* *Deletes.* `DeadInv`: a Session whose delete is under way is still dead. No row of it
  can be inserted meanwhile (`AloneInv`), and no update makes it live.
* *Records.* `MessageInv` and `TokenInv` add what is known at the step before the
  record is made.
* *Migrations.* `VersionInv`: exactly the versions up to `user_version` were applied, and
  no process believes in a higher one. A transaction that does not clash therefore
  raises the version by one, except version 5, which ends at 5.
* *Cursors.* `AheadInv`: no row, cursor or call is ahead of the autoincrement counter.
  That a page ends at one of its rows (`EndOfPage`) needs a largest element, taken from
  the well-foundedness of `<`.
* *The inbox keeps the promise.* A sequence that rises through a set is the set in order
  (`RisingIsInOrder`), so a row above all others is appended (`InOrderAppends`), a start of
  the set is a start of the sequence (`InOrderSplits`), and what is deleted leaves the
  order of the rest (`InOrderWithout`). A page is a start of what is pending for the reader
  (`PageStarts`), as bytes and rows only add up. `HoldInv` adds to `AheadInv` that a call
  that waits holds the cursor it began with.
* *Pages.* `PageInv`: the loop has taken the first so many of the rows that match, all but
  the first of them within the budget, and where it ends it had to. A row's place is the
  number of rows up to it (`PlacesFill`), so the first rows the loop took are the rows up
  to one of them (`StartLists`), in the same order (`StartInOrder`, `OneList`). The sum
  the definition speaks of does not depend on the order of the adding (`SumTakes`) and
  only grows (`SumGrows`).
* *The engine.* `EngineInv`: at every step, what the engine has gathered (captures, last
  stdout, handles) is what the definition says of the outcomes logged so far, and none of
  them was fatal. One more outcome adds to each (`Gathers`), and the outcomes end where
  the definition says.
* *What is delivered was submitted.* `DeliveryInv` follows the text of a send from the
  command that types it, over an effect that may come late, to the pane; the template is
  only asked for its last three steps (`Sends`), so the argument is the same for all
  four. That others type, submit and kill at the same pane does not matter, for a text on
  the line leaves it only by being submitted or with the pane (`Grows`).
* *Lines are whole.* `LineInv`: whoever types at the pane is alone, the creator before there
  is a row and the one sender after. Between two texts the line is clear and nothing but
  looks may still come late; from the command that types to the one that submits (`Half`),
  one text is on the line, or the line is empty and that text is still on its way
  (`Awaits`). What makes the way end before Enter is the pause of the template, during
  which the text arrives (`PauseEnds`). And Enter is never left out for want of a
  variable, for it names none that the text did not (`NamesEnter`): a text typed and then
  not submitted would be the start of the next line.
* *The variables suffice.* `VariablesFit` is about a template alone and is shown for each of
  the four; `VarsInv` adds that a sequence has what its stage was given, `RowKeepsRefs` that
  a row asem made keeps every ref of its template, `CleanInv` that a cleanup has killed the
  pane by the end of its first step, and that nobody makes a new one meanwhile.
* *The cockpit.* `DialogInv`: a dialog is open only while the loop draws or waits for a
  key; a send dialog is about the Session that is selected, a confirmation about its
  target, and that is the one the cursor was on. No refresh happens between the press
  that confirms and the mutation, and a key that opens no dialog changes none
  (`PlainKeys`).
* *The screen.* The way down to a Session is well defined because a parent is created before
  its children (`WaysDown`). Compared from their first fork on (`FirstFork`), two ways are
  never each before the other (`NotBothWays`) and the order chains (`PreOrderChains`), so the
  rows before a row, counted, fill the places from the first to the last (`RanksFill`); and
  between a way and one that goes on from it there are only ways that go on from it too
  (`BetweenGoesOn`): the tree is right (`TreeShown`). `ViewFits` is what every action of the
  reducer keeps, keys (`PressKeeps`), snapshots and errors alike. `ScreenInv` adds that the
  tables and what is in flight are well formed, that no row has another parent than the one
  it was created with, and that a draft and the keys that wait are no more than the keys
  that were pressed.
* *The strip.* The fold of the property is unfolded item by item (`ToldOneByOne`): after `k`
  items the statuses are the new ones where one of them tells it, and the old ones elsewhere
  (`AllTold`). Each item tells a status of the new snapshot, a removal too, and each status
  that changed has its item (`DiffTells`), for a list in created order has every member of
  its set (`SortedHasAll`); so the order of the items does not matter. That the strip ends
  with all of them although it was cut is `NewEnd`.
* *Verdicts.* `CallInv` relates a call to the worlds seen since it began: the actor was
  vouched for in one of them. The delicate part is a reference that was read and not yet
  compared with its row (`Compares`): the row may appear meanwhile, and then vouches for
  the reference itself; only a token of the environment can be wrong.
* *Ports.* The first words for which `main.ts` withholds the ports are looked at one by
  one; if they begin a command path at all, the command needs none of the ports
  (`WithheldIsPortless`). Nothing is said of the options behind them, so no induction over
  the words is needed.
* *Words.* The fold of `parseFlags` is unfolded into the states after each word
  (`ParsedByPass`). After `k` words the state is `Parsed`: wrong if one of them is an option
  nobody knows, else the values that are paid for, the booleans, the plain words in their
  order, and the option that waits for its value (`Debt`). A word is a value exactly if the
  word before it is a bare value option and no value itself (`ValueAfterOption`); that is
  what makes the parity of the run of options in `Meant` the same as the memory of one word
  in the pass. At the end nothing may be owed, and the plain word of each place is found by
  counting (`RankReaches`). The options of each command are checked to be `Sound`: none both
  takes a value and takes none.
* *Lines.* The fragments of all lines of a script, one line's behind the other's, are a table
  with an offset for each line (`Laid`). `LinesInv`: there is a line up to which everything
  was handled, buffer and pipe are what the table has from its offset on, but for what the
  client cut off (`Placed`), and the answers are those of the lines up to there, in turn
  (`Spoken`). A newline in the buffer therefore ends the next line and no other, and what is
  left in the buffer when the stream ends is the last line.
* *Files.* `FilesInv` says of each path which forms its content has (`Holds`), and the same
  of every draft that is about to replace it; a temporary file may be torn, the file never
  is. `WrittenInv` is why two processes of asem do not undo each other: what asem puts into
  a file meets a condition that depends on the path alone (`Written`), so the other's write
  keeps it, and edits by others end the claim. That upserting a table leaves one definition
  (`UpsertReplaces`) is shown with the first and the last header of the file, without
  induction over its lines. `ConfigInv` keeps that the draft is what the selection renders
  to; `LaunchInv` that the ids of a source, and of the files of one that were read so far, are
  distinct, so that the profile used is the project's if there is one.
* *What is not asem's.* `KeptInv`: whatever is about to replace a file keeps what its process
  read of it, so a rename over a file that was not changed since keeps what is there. For
  JSON one member of one object changes. For TOML the new table is put behind all lines
  (`AppendedKeeps`), or in place of the lines from its header to the next one
  (`SplicedKeeps`): no header lies between them, so every other line stays under its own
  header, and its place moves by the same number as that of every line behind the splice.

Only model-checked is all liveness: `OutcomeRecorded`, `WaitHandsOver`, `ScreenCatchesUp`,
`CloseEndsTheLoop`, `TimedSequencesEnd`, `EveryRequestAnswered`. Fairness and `ENABLED` are
out of the prover's reach. Every invariant and every action property of the passing runs is
proved.

The induction theorems of the library take an operator as a parameter and cannot be used.
Where a proof needs induction, over numbers (`LeastNumber`) or over finite sets
(`SumTakes`), it goes by a least counterexample.

That the variables of `Migration` and `Files` have their types is proved on the way
(`MigrationTyped`, `InvFilesAreWhole`).

## 5. Not modelled, and why

* The texts: what `render.ts`, `usage.ts` and `view/*` print, the wording of errors and
  prompts, colours and layout. No property is about them. For the same reason redaction
  (a replacement of substrings), shell quoting and schema messages.
* `doctor`, and the discovery of git repositories and processes: they read and report.
* Regular expressions of captures: one finds its text or does not.
* Transactions that share a connection with other operations of the same process
  (`sqlite-store.ts:410`). Only `deleteSession` calls `withTransaction`, and no surface
  runs two operations of one process at once: the CLI runs one, the MCP server
  one after the other (`Surfaces`), the cockpit one effect at a time (`Cockpit`).
* The ANSI fallback host of the cockpit (raw mode, decoding of key bytes), the mouse, a
  renderer that cannot be created, and the actions no key is bound to (`select`,
  `setTab`, `setFilter`).
* In the cockpit, a close or a send that fails after it changed the store: to the screen
  it looks like a change by another process, which is there.
* In `Sequence`, that 200 ms are always enough for herdr to inject its text: taken as given.
* The permissions of a file that is replaced.
* Tools of the MCP server whose name is one of an object's prototype, and the schemas of
  arguments, which fit or do not.

## 6. Plan

1. *Done*: all modules of section 2, and the theorems of section 4.
2. `SessionLife`: an abstract life cycle of one Session that `Workspace` implements.
3. `Connection`, should a surface ever run two operations in one process.
