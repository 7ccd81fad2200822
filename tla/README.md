# Verification of vaultviewer

TLA+ models of vaultviewer, the web application that serves a vault of notes
and secrets (a Go server under `internal/` and `cmd/server`, an MCP server under
`cmd/mcp-server`, a React front end under `web/`). TLC model-checks them on
small instances; TLAPS proves theorems about them for all instances. Everything
is translated from the source; `PROJECT.json` maps every definition to the lines
it models.

## 1. Inventory

| Component | State | Operations | Talks to | Hard behaviour | What makes it correct |
|---|---|---|---|---|---|
| **Audit recorder** `internal/audit/memory.go` | entries in memory, JSONL file, set of subscriber channels, one mutex | Record, Entries, Subscribe, unsubscribe, replay of the file at start | called by every storage engine; feeds the WebSocket handler | sends outside the lock to channels that may be closed; failed, cut-short or unsynced writes; restart | file and memory tell one order; what was synced survives; a subscriber gets each later entry once unless its channel is full; Record ends |
| **Vault contract** `internal/storage/engine.go` | the notes, the audit trail | Save, Read, Delete, Rename, List, Search, CreateNamespace | implemented by three engines | what "atomic" means under concurrent callers and failures | each call changes one note as a whole; the audit trail accounts for every note none of whose entries was lost |
| **Local engine** `storage/local` | files and directories | the same, as system calls | audit recorder | check-then-act between calls, truncate-then-write, parent directories that come and go | implements the contract for requests on different notes; one name per file; empty only while a save is under way |
| **Git engine** `storage/git` | working tree, index, HEAD, a mutex | the local engine's change, then add, diff, commit; bootstrap at start | local engine, `git` | the change is outside the lock; it may break halfway; any git command may fail | a commit holds its own paths only, is never empty, nothing stays uncommitted unless its request ended before the commit, authors |
| **Kubernetes engine** `storage/k8s` | Secrets with resource versions | Get, edit, Create/Update; Delete of a Secret | API server, audit recorder | optimistic concurrency, answers lost after the write was applied | implements the contract, the audit trail included |
| **Search and walk** `storage/search.go` | none | WalkFiles, MatchSnippet | List and Read of an engine | the vault changes under a scan; any list or read may fail; lower-casing changes widths | a scan misses nothing that stayed and could be read; an excerpt shows the match |
| **Teams store** `internal/teams` | JSON file, map in memory | Open, Get, Set | settings route, logins | death between write, rename and publication; Sets that overlap share one temporary file | until Sets overlap, and again once one ran alone: what returned is durable, the file is whole |
| **Login throttle** `internal/auth/throttle.go`, `api/auth_routes.go` | per-name failures, last failure, locked-until | Allow, RecordFailure, RecordSuccess | login handler, LDAP | logins of one name overlap; arithmetic of the wait; forgetting | schedule follows the failures; waits are capped and never shortened; Retry-After suffices |
| **Sessions and roles** `auth/session.go`, `middleware.go`, `role.go` | signing key | Issue, Verify, ResolveRole | every route, the audit stream | roles are fixed at login; times cut to seconds; fields joined by a bar; restarts under another key | a session lasts as long as configured; a route runs only for a role the directory granted |
| **LDAP** `auth/ldap.go` | none | Authenticate: search, bind, groups | directory, teams store | directory and map change between its steps; any step fails | no token without a granted role |
| **Backup syncer** `internal/backup` | the pass: date, files left | Run, syncOnce, needsUpload | file system, S3 | edits during a pass, failing uploads, errors of the walk, midnight | a pass mirrors what it did not log as failed or passed over; nothing is deleted; it heals |
| **S3 permissions** `internal/s3iam` | policy documents and declaration of the last start | fold, Resolve, drift Check | status card, S3 backend | documents only partly expressible; DNs spelled differently; backend and files change after the start | the card leaves nothing out in silence; a report can be relied on |
| **OPA, Trino** `internal/opa`, `internal/trino` | none | ResolveTeams, Resolve; CheckConnection | status cards, OPA, Trino | OPA changes between two cards; the cancel of a test statement is lost | two cards say the same; nothing stays on the coordinator |
| **Ontology** `internal/ontology` | none | Build | scan of the vault | notes change while they are read; link resolution | edges and phantoms are true of what stayed |
| **Integrations API, router, main** `internal/api`, `cmd/server` | wiring | handlers, start-up, shutdown | all of them | | |
| **MCP server** `cmd/mcp-server` | one token under a mutex | login, do, tools | REST API | shared token, retry after 401 | a change is carried out once and reported as it went |
| **Web** `web/src` | React state, vault index cache | load, save, rename, live audit list | REST, WebSocket | answers out of order, reconnects, partial saves | what is on the screen is what was asked for |

How they interact: a route of `internal/api` verifies the session, calls the
engine; the engine changes the vault and then calls `Record`; `Record` appends
to file and memory and hands the entry to the channels of the WebSocket
handlers. The backup syncer reads the local vault's files behind the engine's
back. The MCP server is a client of the REST API like the browser.

`PROJECT.json` lists each hazard at its line with the properties aimed at it, or
a note saying why none is.

## 2. Modules

| Module | Models | Role |
|---|---|---|
| `AuditRecorder` | `audit/memory.go` | recorder goroutines, channels, file, crash and replay |
| `AuditRecorder_proofs` | | its theorems |
| `Vault` | `storage/engine.go` | abstract specification of an engine |
| `LocalEngine` | `storage/local/local.go` | system calls; refines `Vault` |
| `K8sEngine` | `storage/k8s/k8s.go` | Get and Update of Secrets; refines `Vault` |
| `GitEngine` | `storage/git/git.go` | working tree, index, HEAD |
| `LoginThrottle` | `auth/throttle.go`, `api/auth_routes.go` | concurrent logins and a clock |
| `TeamsStore` | `teams/teams.go` | temporary file, rename, cache, restart |
| `Sessions` | `auth/session.go`, `role.go`, `middleware.go`, `ldap.go`, `api/auth_routes.go`, `audit_routes.go`, signing key of `main.go` | extends `TeamsStore`: logins, tokens, streams, a clock; its steps are steps of the store |
| `VaultGraph` | `storage/search.go`, `ontology/ontology.go`, List and directory renames of `local.go` | scans among edits |
| `S3Access` | `s3iam/policy.go`, `access.go`, `attachments.go`, `drift.go` | documents, declaration, backend |
| `Dashboard` | `api/integrations.go`, `opa/client.go`, `trino/client.go` | extends `S3Access`: pages with their cards |
| `BackupSyncer` | `backup/syncer.go` | one pass after another among edits, faults, days |
| `MCPClient` | `cmd/mcp-server/main.go` | tool calls sharing a token |
| `LocalEngine_proofs`, `K8sEngine_proofs`, `GitEngine_proofs`, `Sessions_proofs`, `VaultGraph_proofs` | | the theorems of those components |
| `Logins_proofs` | | the theorems of `LoginThrottle` and of `MCPClient` (logging in, from both ends) |
| `S3_proofs` | | the theorems of `Dashboard` with `S3Access`, and of `BackupSyncer` |
| `MC*` | | constants and symmetry for TLC |

Definitions whose comment begins with "Variant:" are not part of any
specification: each is a plausible bug of the definition it stands before, kept
to show that a property would notice it (`PROJECT.json`, "mutants").

### How state and actions correspond to the code

**AuditRecorder.** A recorder is a goroutine in `Record`; its `pc` stands
between the statements: `Lock` (`mu.Lock`), `AppendToFile`, `Publish` (append
to `r.entries`, copy of the subscriber set, unlock), one `Send` per channel,
`Return`. A line of the file is the number of its entry, or `Corrupt` for text
that `json.Unmarshal` refuses. `eol` says whether the file ends with a newline;
a `Write` that fails can leave nothing, a piece, or the text without its newline
(`WriteFaults`). `Crash` empties the memory; `LoadLine` and `Loaded` are the
replay. `since`, `dropped`, `synced` and `clean` are history.

**Vault.** `store` maps a path to a content. A request is in `req` from its
call to its end; `effect` is the change it has made and not yet recorded; `log`
is the audit trail, `lost` the changes never recorded. `AtomicSaves = FALSE`
admits `Partial` for the moment in which a file is truncated. `CreateNamespace`
is a request that changes no note and is recorded all the same; a delete names
in `gone` the notes it takes, none if its path is an empty namespace.

**LocalEngine.** Names stand for inodes, so a rename moves a file under a save
that has it open. Each system call is an action: the stat, `MkdirAll`, the open
with `O_TRUNC`, the write, the unlink, the rename. `Abort` ends a request at any
of these points, as a failed call, a crash of the server or a panic in `Record`
does. A namespace is a directory that any request may create or remove. Only
notes are renamed here; `VaultGraph` renames directories, in one step.

**K8sEngine.** `version` is the resource version; `Update` is accepted only at
the version the copy was read at. `Error` is every failure before the write is
applied, `TimedOut` one after it. A delete of a whole Secret carries no version.

**GitEngine.** The change of the working tree is one step outside the mutex
(`LocalEngine` takes that step apart). `by` is who really wrote a version;
`waiting` in a commit is the users whose requests stood at the mutex when it was
made. A request can end without its commit at every point: `ChangeFails` before
it changed anything, `ChangeBreaks` with a file emptied (`Cut`) or with the whole
change made and a panic in `Record` after it, `AddRefused` where git knows one
of its paths neither in the tree nor in the index, `CommandFails` and `Restart`
anywhere. What it wrote is then marked `left`. `CommandFails` and `Restart` set
`faulted`.

**LoginThrottle.** `Arrive` is `Allow` with its answer, `RecordFailure`,
`RecordSuccess` and `Unavailable` the three ends of an attempt. Time is in ticks,
`Second` of them to a second, so that the rounding of Retry-After shows.
`streak` remembers when the failures since the last success happened.

**TeamsStore.** `path` and `tmp` name inodes; `Open` truncates, `Write` writes,
`Rename` moves, `Publish` replaces the map in memory. Several goroutines may be
in `Set` at once, for no lock covers the write and the rename. `acked` is the
map of the last `Set` that returned; `maybe` those of sets a crash cut off after
the rename; `alone` is the `Set` that has had no other beside it, and
`overlapped` says that two have run at once and none alone to its end since.

**Sessions** extends it. `LookUp` is the part of `Authenticate` before the bind
as the user, `EndLogin` the rest up to the answer, so that the directory and the
map of teams may change in between. A token is the record `Issue` signs; its
key stands for its signature. The directory is whatever `LookUp` finds. Time is
`now` seconds and `part` parts of one, because the expiry is cut to seconds. A
department is the sequence of its parts between bars, because `Verify` splits
the token at bars. `Put` is the settings route: it begins a `Set` of the store,
`SetStep` carries it on. `Stop` and `Start` end all logins and streams and choose
a key again; browsers keep their tokens.

**VaultGraph.** `walk` is one scan: `todo` holds the directories to list and
the files to read, `notes` what was read. `List` and `Read` are single calls of
an engine, `Edit` any change of the vault between two of them. Either call may
fail for another reason than a file that has gone (`errors`): a `Read` is passed
over, a `List` ends the scan. A content is its frontmatter fields, each a
sequence of values with the links in each, its body links, and its text as
characters with a width in bytes and a width in lower case, since `MatchSnippet`
finds in one and cuts in the other; where the cut is beyond the end the search
ends as `panicked`. `Nodes` and `Edges` are `Build`, and of a value it takes the
first link (`Found`). `touched`, `seen` and `vanished` are history.

**S3Access.** What an action or a resource means to the backend is in constants
(`Matched`, `Covers`); what the code makes of it in operators named after the
functions. `mirror` is what the running server read at its start, both halves or
`None`; files and backend change without it. `report` is the answer to the last
drift request, with what was compared as history.

**Dashboard** extends it with pages. A page's Trino request goes through
`Submit`, `Accept` or `Refuse`, `Answer`, `Cancel` and then the question to OPA;
the OPA card is a request of its own. `Leave` is the browser closing, which
cancels the context of both. `queue` is what the coordinator holds.

**BackupSyncer.** `BeginPass` fixes the date, `Visit` is one step of `WalkDir`,
`VisitFails` one with an error, which passes over a file or all of a directory
(`unseen`) and is counted nowhere; `Check` is `needsUpload`, `Put` and
`PutFails` are `FPutObject`. Around them go `Edit`, `Midnight`, `Restart`.

**MCPClient.** `token` is the cached one, `held` the local variable of a call.
`Discard` empties the cache after the first 401; the call then logs in itself.
Every error of an engine is answered 400, so a "refused" request may have been
carried out.

## 3. Runs

| Run | Question | Bounds |
|---|---|---|
| `audit_log` | Do file, memory and stream tell one story, under crashes and all three kinds of failed write? Does Record end? | 2 recorders, 1 channel of capacity 1, 3 entries |
| `k8s_engine` | Do concurrent edits of Secrets implement the contract, with an audit log that balances for every note none of whose entries was lost? | 2 clients, 2 Secrets of 2 keys, 2 contents, 4 calls |
| `local_apart` | Do clients with notes of their own see the contract, while namespaces come and go around them? | 2 clients, 4 notes, 1 namespace and the root, 4 calls |
| `local_shared` | What holds when clients share notes? | 2 clients, 2 notes, texts of 1 and 2 blocks, 4 calls |
| `git_engine` | What does the history show, with changes that break halfway, failing commands and restarts? | 2 users, 2 notes (one there before git), 2 texts, 4 calls |
| `login_throttle` | Is the schedule a function of the failures, capped, and its header honest? | 2 logins of one name, 14 ticks (beyond one decay), 7 failures |
| `sessions` | How long, for which requests and for whose role is a session good? Is the map of teams durable and whole? | 1 browser that is the administrator, 2 requests that set the teams, 2 groups (one listed for two roles), 2 maps (one department with a bar), 3 sets (the second in the first second of the clock, the third before it moves: `SetsEarly`), 3 seconds of 2 parts, sessions of 1 second, 1 key made at a start |
| `backup` | Does a pass mirror what it should, and does the bucket catch up? | 2 files, 2 texts (one too large for an ETag hash), 2 days, 2 edits, 2 faults |
| `mcp_client` | Is a change carried out once and reported as it went? | 3 calls, 4 tokens |
| `dashboard` | Are the cards and the drift report true of the documents, the backend and OPA, and is Trino left clean? | 2 users, 2 policies, 4 directories, 5 declarations, 3 attachments, 3 OPA documents, 1 page, 1 change |
| `vault_graph` | What must a search or a graph contain, and when may it fail, while the vault changes? | 2 directories and the root, 3 names, 2 contents, 3 vaults, 2 edits and 1 item that cannot be read during a scan |
| `audit_closed_send` | "must never fail (or even just look like it failed) the create/update/delete it's describing" (`memory.go:99-101`): does a `Record` always get through? | violated |

The bounds are where the interesting cases first exist. Two actors suffice for
every check-then-act window in this code, since each is one actor's step between
two steps of another. A third entry of the audit log can follow a spoiled line.
Capacity 1 makes a channel full at once. Two texts of different length can leave
a tail behind. In `login_throttle` the delays double once, meet the cap, and
decay within the clock, seven failures in it. Four tokens let three calls expire
and log in against each other. In `sessions` a token can outlive its time by a
second, the half it was issued in shows, and a login can span a set, an expiry
and a restart. Two sets can overlap there, and a third repair what they left; a
set that begins later meets nothing that depends on the clock, so `SetsEarly`
keeps the states few. In `vault_graph` one edit can remove what a scan has
listed and another put something in its place, and one error can hit a file or a
directory. In `dashboard` one change suffices, since each property compares two
moments; the documents have every kind of statement the fold distinguishes, and
the spellings of a DN differ between directory, declaration and backend.
Symmetry is used for safety runs only; the runs with liveness (`audit_log`,
`backup`) use none. Runs end in a deadlock when their bounds are spent, so
deadlock is not checked; that requests end is what `RecordEnds` and
`EventuallyMirrored` are about.

### What they show

*Recorder.* Whole lines of the file are in the order of memory, whatever is
interrupted. Every subscriber gets each later entry once, in order, unless its
channel was full at that moment. A synced entry that got a line of its own
survives every restart. `Record` ends, whatever the readers of the stream do,
unless it panics.

*Engines.* The Kubernetes engine implements the contract in full. Its audit log
balances for every note none of whose entries was lost with an answer or is
still to be made, unless a deletion of a whole Secret swept the note away. The
local engine implements it as long as requests are on different notes. On shared
notes two names never mean one file, and an empty note is one whose save is
under way or was cut off. The git engine commits each operation's own paths
while no command has failed, and nothing empty. What HEAD lacks is owed by a
request under way, or was left by one that ended before its commit; a commit
that holds someone else's change was made while he waited at the mutex, or takes
in what such a request left.

*Sessions.* A token is good for the configured time to the second, under the key
it was made with; a request gets past a route's check exactly if the directory
granted a role that suffices when the login asked; an audit stream belongs to
someone who was an administrator when he opened it, under the key of the running
server. A `Set` that returned survives every restart until two overlap;
from then on nothing is promised until one has run alone to its end.

*Scans.* What a scan collects was in the vault while it ran; it has every file
nobody touched and every read of which succeeded; only a directory that went
away or could not be listed fails it. Body links and the first link of each
frontmatter value between such notes are edges to resolved nodes, links to paths
that stayed free are edges to phantoms. A search that ends shows every such file
with the query; it panics only over a text that changes its widths in lower case.

*Cards.* What the documents permit is in the rows or warned of; a row is never
made up. A user whose card differs from what the backend enforces has an item in
the report, unless one of his DNs is a user's on one side and a group's on the
other (`Misfiled`). The two cards about catalogs agree unless OPA changed or
failed between them.

*The rest.* See the comment above each property.

### Disagreements between code and text

One is a run of its own, `audit_closed_send`: `unsubscribe` removes and then
closes a channel that a `Record` has already collected; its send panics, and the
operation the entry is about fails although it was made.

The others show as a condition in a property that holds; without the condition
it does not. `PROJECT.json` lists those that contradict a text ("findings").

| Where | What the code does | Condition in |
|---|---|---|
| `local.go:154` | between the stat of the target and `os.Rename` another request can create the target; the rename replaces it | `ImplementsVault` (clients with notes of their own) |
| `git.go:114` | two users change a note before either commits; the first commit holds both changes under one name, the second finds nothing to commit | `WrongAuthorsWereWaiting` (`waiting`) |
| `git.go:110` | a change after which the inner engine fails or panics is not committed; a later commit of the note takes it under its own author | `CommittedUnlessPending`, `WrongAuthorsWereWaiting` (`left`) |
| `git.go:149` | after a failed commit paths stay staged and the next commit takes them | `OnlyOwnPaths` (`~faulted`), `CommittedUnlessPending`, `WrongAuthorsWereWaiting` (`left`) |
| `git.go:148` | `git add` refuses both paths of a rename if the old one is not known to it any more | `CommittedUnlessPending` (`left`) |
| `session.go:55` | a department with a bar makes a login issue a token every request refuses | `SessionIsHonoured` |
| `teams.go:103` | two `Set` calls at once share one temporary file: a torn file is renamed into place, or disk and memory end with different maps | `SetsAreDurable`, `FileIsWhole`, `CacheIsFile` (`overlapped`) |
| `syncer.go:87` | a pass that runs over midnight writes over the snapshot of the day it began on | `PassMirrors` (the prefix of the pass); `EarlierDaysAreFrozen`, which no run checks, does not hold |
| `search.go:75` | a directory that goes away or cannot be listed fails the whole search or graph | `WalkIsTrue` (`vanished`, `errors`) |
| `search.go:34` | an index of the lower-cased text cuts the original; where it lies beyond the end, a panic ends the search of the whole vault | `SearchIsTrue` (`KeepsWidth`) |
| `search.go:43` | the excerpt ends a radius behind the length of the query as typed; a query that is longer than that in lower case is cut | `SearchIsTrue` (`TextAssumption`) |
| `ontology.go:200` | an unquoted `[[name]]` in the frontmatter is taken for a list and lost | `GraphIsTrue` |
| `ontology.go:218` | of a frontmatter value with several links only the first becomes an edge | `GraphIsTrue` |
| `drift.go:149` | a subject that is declared with one policy and has another one at the backend is "unapplied" | `DriftTells` |
| `drift.go:109` | a group declared as a user is in sync with the same DN as a group at the backend | `DriftTells` (`Misfiled`) |
| `policy.go:155` | a wildcard action is shown as far as the table goes, without a warning for the rest | `CardIsHonest` |
| `integrations.go:73` | without an answer from OPA an account with teams gets the general catalogs | `CardsAgree` (`upset`) |
| `trino/client.go:73` | the cancel goes with the page's request and is lost with it | `NothingLeftQueued` (`lost`) |

Met while modelling, and contradicting no text:

- A write cut short without its newline is not repaired: the next entry is glued
  to it and lost at the next start although it was synced (`HistorySurvives` in
  `AuditRecorder` does not hold; `SyncedEntriesSurvive` is what does).
- A bootstrap that stops after `git init` is never finished: the next start sees
  `.git` and goes on.
- A file or directory the backup's walk cannot read is passed over with a line in
  the log; the pass counts it neither as uploaded nor as failed (`unseen`).
- The policy mirror is that of the last start; editing the mounted files changes
  neither the cards nor the drift report until then.

### Fairness

`AuditRecorder` assumes weak fairness of each recorder's own steps: a goroutine
that can run does, and nothing waits for ever for the mutex because its holder
is fair too. Nothing is assumed of the readers of the channels; a browser may
stop reading. `BackupSyncer` assumes weak fairness of the syncer's goroutine.
Edits, faults, restarts and days are free but bounded, so they stop eventually;
this is the "once faults and edits are over" of the property. No other run uses
fairness.

## 4. Proofs

All theorems are checked by `tlapm` for any number of processes, any capacity
and any bounds, from the named assumptions on constants only
(`RecorderAssumption`, `ThrottleAssumption`, `LocalAssumption`,
`K8sAssumption`, `GitAssumption`, `TeamsAssumption`, `SessionsAssumption`,
`BackupAssumption`, `ClientAssumption`, `S3Assumption`, `DashboardAssumption`,
`VaultAssumption`, `TextAssumption`). Most of what these say is that the values
a model uses for "none" and "absent" are no others' values; what they say of the
code is named below.

**AuditRecorder_proofs.** `TypeCorrect`, `FileOrder` (`FileOrderIsMemoryOrder`),
`StreamIsSound` (`DeliveredOnceAfterSubscribe`), `StreamIsComplete`
(`OnlyFullChannelsMiss`) and `SyncedSurvive` (`SyncedEntriesSurvive`). None of
these is inductive. The invariant under them says, part by part: while the file
is loaded no recorder runs and no channel exists (`QuietBoot`); only one
recorder is between lock and unlock, and the mutex is held exactly then
(`OneInside`); no number is in two places, neither in memory twice nor in the
hands of two recorders (`Numbering`); the whole lines of the file are a
subsequence of memory plus at most the one in the critical section (`FileInv`);
an entry still to be sent to a channel is in memory, younger than the
subscription and not in the channel yet (`PendingInv`), and an unused channel is
empty (`FreshInv`); a clean entry is on a line of the file and, once the scan
has passed it, in memory (the invariant of `SyncedSurvive`). The
argument for the stream needs the numbering: a send after the unlock may come
late, and only because each entry is sent by one recorder, once per channel, is
nothing doubled.

**K8sEngine_proofs.** `TypeCorrect`, `Refinement` (`ImplementsVault`) and
`TrailBalances` (`AuditBalance`), for any number of requests on any Secrets. The
mapping lets a change happen in `Vault` at the moment the API server applies it.
The invariant says what a goroutine between its Get and its write may rely on
(`Placed`): it holds a copy, and it has chosen the action that this copy calls
for (`Chosen`). That is a statement about the copy; the step from it to the
Secret is `Current`: an update is accepted only at the version the copy was read
at, so the copy is then what the Secret holds (`UpdateIsTheChange`). A delete of
a whole Secret carries no version and needs none (`DropIsTheChange`). The
balance is an induction of its own (`Books`), by cardinalities of sets of
positions in the log and in the list of what was lost: each step of the contract
adds one entry, and the note it is about appears or goes with it. `Counted` then
takes it to the log alone, for a note with nothing lost or pending. Where a
delete of a whole Secret swept the note away the trail does not say which keys
it had, hence the other condition.

**LocalEngine_proofs.** `TypeCorrect`, `NamesAreApart` (`OneNamePerFile`),
`EmptyMeansCut` (`EmptyOnlyDuringSaves`), and, assuming `Apart` (no note is
named by requests of two clients; namespaces are), `Refinement`
(`ImplementsVault`). `EmptyOnlyDuringSaves` is not inductive for notes, since a
rename moves a file that a save has open; the invariant `EmptyFiles` says it of
files, whatever their names. `LocalAssumption` takes the empty text out of
`Contents`, because a save of nothing looks like one that was cut off. For the
refinement the invariant adds `Steady`: what a request found by `os.Stat` is
still so when it acts on it. It holds because another client's step leaves this
client's notes and the files behind them alone (`OthersStay` and the lemma after
it), which needs `OneNamePerFile` as well as `Apart`. Without `Apart` it is
false, as the finding about `local.go:154` shows.

**VaultGraph_proofs.** `TypeCorrect` (`VaultTypeOK`), `ScansAreTrue`
(`WalkIsTrue`), `GraphsAreTrue` (`GraphIsTrue`) and `SearchesAreTrue`
(`SearchIsTrue`), for any number of changes of the vault between the steps of a
scan and any number of errors. The invariant has four parts. `ListedOnce`: a
directory is listed once, so what was found in it is not found again.
`Witnessed`: what was read was there, and still is if its path is untouched; a
directory still to be listed is there unless it went away meanwhile. `Covered`:
an untouched file whose read has not failed is in the notes, or still to be
read, or its directory is still to be listed, or the root is. `Ended`: how a
scan ended has its reason, a directory that could not be listed or a text whose
cut is beyond its end. The truth of the graph follows from these and from what
`Nodes` and `Edges` are (`EdgesAre`, `NodesAre`, `LinksAreEdges`). For the
excerpts, the bytes before each character are a recursive function; that it
exists, grows with each character and is determined by the widths is proved by
least counterexamples (`SumExists`, `SumGrows`, `SumIsOne`), and `SnippetIs`
then places the two cuts around the first match; `PanicsAreExplained` says that
no cut is beyond the end of a text that keeps its widths. `TextAssumption` says
that a character has at least one byte, and that a match in lower case is not
longer than the query by more than the radius: `search.go:43` adds the length of
the query as it was typed, which may be shorter in bytes than what it matches.

**GitEngine_proofs.** `TypeCorrect`, `CommitsAreOwn` (`OnlyOwnPaths`),
`CommitsAreNotEmpty` (`NoEmptyCommits`), `NothingStaysUncommitted`
(`CommittedUnlessPending`), `AuthorsWaited` (`WrongAuthorsWereWaiting`). The
argument: one request is between lock and unlock (`OneInside`); while no command
has failed, what is staged is either on the paths of that request or the
bootstrap's (`Staged`), and the one about to commit has seen a difference
(`Seen`). A version that HEAD does not have, or that differs from what is staged,
was left behind or is owed by its author (`Ahead`); what the request inside has
added is the tree's text, or whoever changed it since waits for the mutex or has
left it (`Added`); and what is staged was left or is owed too (`Authors`). That
a request which ends without a commit marks all it wrote, and nothing of the
others, is `LeftBehindIs` with `GivesUp` and `BrokenLeft`.

**Sessions_proofs.** First the store on its own, for any number of requests that
set the teams: `TypeCorrect`, `AlwaysWhole` (`FileIsWhole`), `Durable`
(`SetsAreDurable`), `CacheFollows` (`CacheIsFile`). Nothing in the store keeps
two sets apart, so the last three are about the time before any have overlapped,
and the time since one ran alone. The invariant says that the two names never
stand for one file (`Apart`), that a `Set` with no other beside it is the only
one there is (`Company`), what the temporary file holds at each step of such a
`Set` (`Writing`), and that without an overlap the published file is the last
acknowledged map or one whose `Set` got as far as its rename (`OnDisk`). The
proof parts a step of a `Set` that runs alone (`QuietSet`) from one in a crowd
(`Crowded`), of which only `Apart` is asked. Then `SessionsUseTheStore`: every
behaviour of `Sessions` is one of `TeamsStore`, so the store's theorems hold
among logins and requests. Last `SessionTypes`, `SessionsLast`
(`SessionIsHonoured`) and `RolesAreGranted` (`ActsWithinAGrant`), from an
invariant that ties the expiry and the role of a token to the moment and the
groups it was issued for.

**Logins_proofs.** Of the throttle: `TypeCorrect`, `WaitsAreCapped`
(`WaitIsCapped`), `ScheduleIsSound` (`ScheduleFollowsFailures`),
`RetryAfterIsEnough` (`RetryAfterSuffices`), `NeverShorter`
(`FailuresNeverShortenTheWait`). The invariant ties the kept entry to the
streak, and bounds every time in it by the clock. `WaitsAreCapped` is about both
what is kept and what is told: no lock lies further ahead than the cap, and no
client is told to come back later than the cap and the second the header rounds
up by. That no failure shortens the wait rests on the cap being no longer than
the decay, an assumption on the constants that the code's values meet, and on
the delay growing with the count. Of the MCP client: `ClientTypes`
(`ClientTypeOK`), `CarriedOutOnce` (`OnceAndAsReported`) and `RefreshWorks`
(`RefreshIsTransparent`). The invariant says where a request that was carried
out can be found: only a call that was last answered 200 or 400 has had its
request carried out, and a second attempt follows a 401 only. A call on its
second attempt holds a token issued after it began.

**S3_proofs.** Of the cards: `DashboardTypes`, `CardsAreHonest`
(`CardIsHonest`), `DriftIsTold` (`DriftTells`), `QueueIsCleared`
(`NothingLeftQueued`), `CardsAlwaysAgree` (`CardsAgree`). The first two
properties about S3 are lemmas about the operators, for any documents: a
statement without a warning is folded whole (`Said`), each pair lands in a row
and each capability of a row comes from one (`PairIsShown`, `RowIsFolded`); two
sides alike under a DN hold the same policies kind by kind unless it is misfiled
(`SameKind`). They need of the constants that an action of the table means
itself, and that a resource with a bucket part is about buckets that part stands
for (`S3Assumption`). The invariant `Told` says of two cards of a page that the
one that came first is what OPA says now, or the page is upset. Of the backup:
`SyncerTypes` (`TypeOK`), `Mirrors` (`PassMirrors`) and `KeepsEverything`
(`NothingIsDeleted`). The invariant extends `PassMirrors` to a pass under way:
every file the walk has behind it is mirrored, failed, passed over by the walk
or changed, and the file it is at is no longer to be visited.

**Only model-checked:** liveness (`RecordEnds`, `EventuallyMirrored`), since
fairness and ENABLED are beyond the prover. Every other property of a passing
run is the statement of a theorem; `RecordNeverFails` is false.

**Only proved:** `WaitIsCapped`, `NoEmptyCommits`, `FileIsWhole`, `CacheIsFile`
and `NothingIsDeleted` hold by theorem and are in no run; the properties of the
runs are the ones that are harder to see.

## 5. Not modelled, and why

- **The web front end** (`web/src`). Its pages keep state of their own: loads
  that answer out of order, a rename that rewrites other notes from a cached
  index, a snapshot merged with a stream. The hazards are listed in
  `PROJECT.json`; what the server does with each of their requests is modelled,
  the pages are not.
- **Configuration and wiring**: reading the environment, choosing an engine,
  routing, CORS, static files, JSON, charts, examples and the policy generator.
  They keep no state while the program runs.
- **The protocols of other programs**: how LDAP, OPA, Trino, S3, the Kubernetes
  API and git answer is an outcome, chosen among those the code distinguishes.
  How long they take is any time; a deadline is one more failure.
- **Sizes and bytes.** A content is a value: two interleaved writes of one file
  never mix bytes except in `TeamsStore` and `LocalEngine`, whose texts are block
  sequences. The
  length of a log line and the growth of the throttle's map with new names are
  left out.
- **Listings beyond `VaultGraph`**: the vault of a scan is one level deep, since
  every directory is listed in the same way. The other engines' listings are
  outcomes of the same state.
- **A draining shutdown**: `Stop` in `Sessions` ends everything at once, as a
  kill after the ten seconds does; a request that is drained is one that ended
  before.

## 6. What is left

1. The note editor and the audit page as modules of their own, the latter
   composed with `AuditRecorder`. Abstract specification: what is shown is what
   was asked for, and the list is the log, newest first.
2. Theorems across components: `Vault`'s balance of the audit trail for the local
   engine through its refinement, and the local engine under the git engine.
