# A TLA+ development of blitzcrank

blitzcrank is a support bot for a private media server. Members ask it for help in Discord,
Fluxer or Seerr; a **host** (`src/packages/host`) admits each message, queues it as a *run* of
its thread, lets an agent work on it, and posts the answer. The agent's tools are offered by a
separate **MCP server** (`src/packages/mcp`), which reads from and writes to Sonarr, Radarr,
SABnzbd, Seerr and Jellyfin. Both are TypeScript over the Effect library, one process each;
the host keeps a SQLite journal, so that work survives its death. The repository has no tests.

What makes the system hard is what it promises across failures: a message is answered by at
most one message, a write that may have happened is never repeated, nobody's run acts with a
standing they have lost, and a thread's runs follow one another whatever dies in between.
These modules model the code that keeps those promises, one level at a time, check it with
TLC on small instances, and prove the most important promises for all of them with TLAPS.

Line numbers are those of the files under `src/`. `PROJECT.json` maps every definition to the
lines it models, and lists components, runs, mutants, hazards, findings and theorems.

## 1. Inventory

### Host (`src/packages/host/src`)

| Component | State | Operations | Interacts with | What makes it correct |
| --- | --- | --- | --- | --- |
| Journal, `jobs.ts` | jobs (status, payload), actions (intent or result) in SQLite | create, mark*, requestCancel, actionEffect, runEffect, pending | everything that must survive | an action that may not repeat lands once; results and ends are final |
| Queue, `queue.ts` | waiting tasks, running threads, fibers | enqueue, ahead, close, drain | thread work, shutdown | one run per thread, bounded, no idle slot beside a startable task, order |
| Thread work, `thread-work.ts` | the fibers of notices, the admitted jobs | enqueue, restore, recoverCancellation, run | journal, queue, gateways, runner | order in a thread across restarts; only confirmed senders; no message left over |
| Runner, `agent/runner.ts` | the run's status message | run, cancel | gateway channel, durable turn, journal | one message, a reply that stands, no stale status |
| Durable turn, `agent/durable.ts`, `session.ts` | a document per run: policy, failure, operations | runDurableTurn, gate, execute, beforeRequest | Pi Durable, write gate, MCP client | a write at most once; no model request past an unknown outcome; no cross-run work |
| Write gate, `agent/write-gate.ts` | verdicts, held in a row, held in all | check, settled | judge model | nothing unreviewed runs; limits hold |
| Host lifecycle, `index.ts`, `server.ts` | admission latch, listening scope, shutdown flag | start, gatewayLost, shutdown | all of the above | nothing admitted before recovery; a drained exit |
| Chat admission, `gateways/chat-admission.ts` | known places | admit, accept, open | triage and helper models, platform, intake | strangers cost nothing; a thread and its run come together |
| Fluxer socket, `gateways/fluxer/client.ts` | session, sequence, heartbeat | connect, resume, identify | platform | no lost session, paced reconnects |
| Fluxer audit, `gateways/fluxer/audit.ts` | expected and seen guilds, findings | feed | socket | one verdict on the whole burst |
| Seerr gateway, `gateways/seerr/*` | posting semaphore | webhook, commenter, post, edit | Seerr | who wrote a comment; which comment is the bot's |
| Discord and CLI gateways | none of their own | adapt messages | discord.js, stdin | - |
| Web tool, `web/firecrawl.ts` | none | pages of a text | agent | reading on shows everything once |
| Other tools, config, auth, logs, texts | none | - | - | - |

### MCP server (`src/packages/mcp/src`)

| Component | State | Operations | What makes it correct |
| --- | --- | --- | --- |
| Server, `server.ts` | none (stateless per request) | tools/list, tools/call | a client that leaves does not cut a write |
| Writes, `tools/writes.ts` | keys of active writes | resolve, write, verify | a write goes out against what it resolved; its caller hears what happened |
| Kept reads, `tools/kept-reads.ts` | copies, write marks | keptRead, dropKeptReads | a kept copy never hides an answered write |
| Listed releases, `services/arr/releases.ts` | releases a search listed | list, grab | a grab names a release some search listed |
| Service writes, `services/*/writes.ts` | none | resolve, write, verify of each tool | nothing changes that its review did not show; what it announces happens; "confirmed" is so |
| Lists, `tools/results.ts` and the reads on it | none | a page, and where the rest starts | reading on lists everything once, and ends |
| Media probe, projections of records | none | parsing | - |

Components interact by direct calls within a process (host: gateway -> thread work -> queue
-> runner -> durable turn -> tools), by the journal and Pi Durable's files between one process
and the next, and by HTTP between the host, the MCP server and the services. The hard
behaviours are therefore: fibers of one run that interleave (queue notice, step follower, turn,
publication); process death between any two steps; calls whose answer is lost, to a gateway,
to the MCP server or to a service; and Pi Durable driving old work when a conversation opens.
`PROJECT.json` lists them as hazards, each at its line with the properties that cover it.

## 2. The modules

| Module | Models | Abstract view of |
| --- | --- | --- |
| `JobStore` | `jobs.ts` | - |
| `ThreadQueue` | `queue.ts` | - |
| `QueueAhead` | what `ThreadQueue.ahead` promises (with history) | - |
| `RunContract` | what the host promises of a run to the thread that asked for it | - |
| `ThreadWork` | `thread-work.ts`, `agent/runner.ts` over journal and queue, process after process | implements `RunContract` |
| `DurableTurn` | `agent/durable.ts` over Pi Durable | the turn that is one state of `ThreadWork` |
| `WriteGate` | `agent/write-gate.ts` | the review that is one step of `DurableTurn` |
| `ChatAdmission` | `gateways/chat-admission.ts` | what comes before `ThreadWork`'s `Accept` |
| `HostLifecycle` | `index.ts`, `gateway.ts`, over `ChatAdmission` | the life of the process `ThreadWork` runs in |
| `SessionFeed` | what a gateway socket promises its listener | - |
| `FluxerSession` | `gateways/fluxer/client.ts` with the server it talks to | implements `SessionFeed` |
| `Permissions`, `StartupAudit`, `FluxerGateway` | `gateways/fluxer/permissions.ts`, `audit.ts`, `gateway.ts`, over `SessionFeed` | - |
| `SeerrGateway` | `gateways/seerr/*` on one issue | - |
| `McpWrites` | `tools/writes.ts`, `tools/kept-reads.ts` | the service calls `DurableTurn` makes |
| `ArrDownloads`, `ArrLibrary`, `OtherServices` | the writes of Sonarr and Radarr, SABnzbd, Jellyfin and Seerr: what each announces, does and reads back | - |
| `ServiceWrites` | one such write from its review to its confirmation | what a write of `McpWrites` is about |
| `ListedReleases` | `services/arr/releases.ts` | - |
| `PagedReads` | `tools/results.ts`, the reads built on it, `web/firecrawl.ts` | - |
| `...Proofs` | theorems about the module of that name; `HostProofs` about `HostLifecycle` and `QueueAhead`, `GatewayProofs` about `FluxerSession`, `FluxerGateway` and `SeerrGateway`, `ToolCallProofs` about `WriteGate` and `ServiceWrites`, `McpServerProofs` about `McpWrites`, `ListedReleases` and `PagedReads` | - |
| `MC...` | the small instance TLC checks | - |

Operators named `Bug...` are slips the code could have made, kept beside the operator they
would replace; `PROJECT.json` names, for every property, one that TLC refutes. They are part
of no specification.

### JobStore
A job's `status` and, per action key, a `row`: `NoRow`, `Intent` (started, no result) or the
result. `call` and `landed` say what an action in flight has done outside, which the code cannot
see. `BeginAction`/`LandAction`/`RecordAction`/`FailAction` are the steps of `actionEffect`
(146-191): the intent is written first, the effect runs, the result is written; a row that is
there already replays (`Replays`) or refuses (`Uncertain`). The marks are the five
`UPDATE ... WHERE status IN` statements. `LoseCalls` is the death of the process: rows stay,
calls in flight are forgotten, and one that did not land never does.
Assumption: no two concurrent calls of one key (the callers never make them).

### ThreadQueue and QueueAhead
Tasks are arrival numbers. `Enqueue` and `Finish` contain the `startWaiting` loop they call:
`StartWaiting` states its result, the set of tasks it starts, as the oldest eligible ones as
long as slots are free (87-95). `Lose` is process death; it is a step of the queue in
`ThreadWork`, while the queue's own run watches one process. `QueueAhead` adds a history
variable to compare what `ahead` answered at admission with what really stood before the task.

### RunContract and ThreadWork
`RunContract` knows no process, journal, queue or message: a run is accepted in order, shows a
line, may come to answer, answers or withdraws the line, may be revoked, and ends. What it says
is in the guards: only in its turn, only once, never after being revoked or having ended. A
death and a whole recovery are no step of it. `ThreadWork` implements it with `fate` and `sees`
(`Fate`, `Sees`) computed from the journal's rows and from what is visible outside, so a mark
that overwrites an end, a replay that acts twice, or a recovery in the wrong order is no step of
the contract. It is not stated that `ThreadWork` refines `JobStore` and `ThreadQueue`: it is
built from their operators, and that would hold whatever they say.

`ThreadWork` is the composition that matters most. It holds the journal's and the queue's
variables, using their operators through `INSTANCE`, and adds for each job where its run is
(`pc`), the fiber that posts the queue notice (`notice`), the step follower (`step`), the marker
the run holds (`marker`) and what is visible outside (`shown`). Every gateway call is three
steps, begin, land, end, and the host may die between them. Admission is `Accept` (81-98), which
includes `admit` (138-162): forking the notice and queueing the run. The run follows
`runner.ts:70-222`; recovery follows `restoreEffect` (36-79) and `recoverCancellation`
(201-233); `Opens`, `Closes`, `Exits` are the host's life (`index.ts`), `Restart` the service
manager's (`nix/module.nix:339`).

Abstractions: the turn is one state that ends in a reply, an empty reply or a failure; a
message is its kind; a gateway's answer about a sender is chosen freely; the prompt action and
the abort of a cancelled conversation are folded into `CancelRefused`. Assumptions: a gateway
call does not land after its own timeout or in the next process; a post returns the id of the
message it posted. Both can fail in rare cases (Seerr infers the id of its comment,
`seerr/client.ts:64`), and are listed as hazards.

Left out: `runOnceEffect`, the CLI's single run; a queued job that has ended already, which the
code skips and no path produces; events refused while a cleanup is pending (they leave no state).
A failing `authorizeEffect` stops the start-up and is a crash here; so is a shutdown that reaches
its deadline with runs in flight.

### DurableTurn
The runs of one conversation in sequence. Pi Durable is a library and is modelled as an
adversary that does as little as the code relies on: from the moment the conversation opens it
drives whatever is pending; it may or may not note that a call started; it may run an unfinished
call again; it may send a request whose hook threw; an aborted or failed generation ends its
submission without an answer. Against that stand the code's own means: the run's document with
its policy and failure, the `gate` each call passes (152-171), the operations journaled around a
call (275-351), the inspection at opening (434-465), and the guard before a model request
(367-388). `execute` is the steps `Executes, Holds/Allows, Begins, Applies, Journals,
Settles/Rejects`. A write in flight when the host dies may still be applied (`Crashes` chooses).
A request to the model has no deadline (`durable.ts:534` waits for the submission): the model
may answer or not (`Responds` is not fair). A stop in the middle of a turn cannot come from
today's service, which runs turns uninterruptibly (`runner.ts:224`); `runDurableTurn` handles
one, so it is modelled. A turn that only cleans up after a cancelled job has no tools.

The document's policy hashes the run's own prompt, so policies of different runs never match in
the code; the model compares them within a run only.

`UncertainStopsModel` speaks of every run, not of the current one only, and so has an exception:
a recovered run may fail before its turn opens, and leave a generation pending beside a write of
unknown outcome. When a later run opens the conversation, Pi Durable drives that generation, and
the hook before the request (`durable.ts:367-388`) reads the document of the run whose turn it
is. The model of the earlier run may then be asked, until the inspection finds it and fails the
turn; nothing it says is executed (`CallsStayInTurn`).

### WriteGate
Calls are numbered in the order the model makes them. The judge's answer is reduced to the two
fields `parseVerdicts` (416-448) reads of each decision, for any subset of the calls it was
asked about. A response's calls are executed one at a time. `Recovers` is a restart with a fresh
gate (`runner.ts:142`): a call that was in review, or allowed and not yet begun, is reviewed
again. A run that dies after the start of a write was journaled is not resumed, which
`DurableTurn` shows.

### McpWrites
A service's record is a version: the number of writes that reached it. A call takes its key,
resolves, sends one write, and reads it back; a write given up on stays `pending` and may land
later, after its key was released. `keptRead` runs beside it. Only `set_series_monitoring`
(Sonarr) and `set_movie_monitoring` (Radarr) have a lock; they read a whole record and send it
back, which is what the lock is for. A write is one request here, as every write of the
repository is. A restart tells its callers "unknown", as the host treats a call whose
connection broke.

### ChatAdmission and HostLifecycle
An admission is a fiber per message; `at` is the await it stands at: looking up its place,
triage, opening a thread, submitting (`chat-admission.ts:100-379`). Answers may be lost
(`unheard` are threads that were opened without the host hearing of it). `HostLifecycle` puts
that under the process of `index.ts`: boot, recovery, opening, a gateway lost for good, a
signal, the listeners' closing, the drain, the deadline, and the journal. A run is only queued,
running or ended here, since `ThreadQueue` and `ThreadWork` have the rest. A shutdown may pass
its deadline (`deadline`), from when on it waits for nothing; the process then ends under
whatever still runs.

### SessionFeed and FluxerSession
`FluxerSession` is the client's socket and a server: sessions are logs of dispatches, frames of
a socket arrive in order or, once it is cut, not at all. The server may invalidate a session,
ask for a reconnect, stall, close with a fatal or a harmless code, or send what it should not;
the client answers heartbeats, notices silence, pauses, resumes or identifies anew. It is shown
to implement `SessionFeed`, four actions that say what a listener is promised, and
`FluxerGateway` is built over those instead of the socket. Pauses have no length: that a fresh
identify waits a second (`client.ts:591-592`) is not what these properties are about.

### Permissions, StartupAudit and FluxerGateway
A mask is the set of its bits. `EffectivePermissions` is the computation of `permissions.ts`;
`Granted` is the rule it stands for, permission by permission, and the audit's verdict is
compared with that. `StartupAudit` is the value fed with one event after another. `news` is a
history of the guilds' events up to the verdict, which no step reads: from it the properties say
which listing of a channel stands (`Stands`), and compare the verdict with that. A second
GUILD_CREATE that no longer lists a channel does not take back what was found of it; the
instance has such a guild (`Hidden`), and `gateways_audit` shows what follows.

### SeerrGateway
One issue with its comments, a comment's id being its place. The host posts, edits and deletes;
Seerr saves a post before its answer, after the host gave up on it (`late`), or never; people
comment meanwhile, and rights are granted and taken. As long as a marker has no id its post is
sent again (`gateway.ts:56-69`), so a post may be saved twice. `marker` is the comment a post
takes for its own, the newest of the issue, and `made` the one it really was saved as.
`CommentsApart` says how far apart the two can be: what was saved between the post and its
answer, by a person or by a late request of a run that knows nothing of it; never a comment
that another run knows as its own. The check of a commenter is several requests, each of which
may fail. Emails are unique, names are not, and either side may have no email: `SenderChecked`
says that only then does a name decide, so that a stranger of the same name may be let in.
People do not delete comments.

### ArrDownloads, ArrLibrary, OtherServices and ServiceWrites
Every write tool of the services, `grab_release` included. A state is a function from things (an
item, a monitoring flag, a file, a job) to values. A *plan* is what `resolve` returns from what
it read: the effects it announces and what it warns of; the service's own reaction is external
and written from what the code relies on; `verify` reads back. Lists may have been cut to what
one read holds: the Arr's queue and blocklist, and SABnzbd's lists, of which 500 jobs are read
and old versions do not look for the one that is asked for (`sabnzbd/jobs.ts:88-103`).
`ServiceWrites` puts these into one call, during which anyone else may change up to `MaxTouched`
things; the Arr's refresh of its queue after a grab is such a change. The properties are weaker
than one would wish where the code is, and name each place:

- A monitoring change sends the whole record as it was read, and undoes what others changed of
  it (`arr/monitoring.ts:18-22`).
- `mark_history_failed` does not ask whether the queue it read was whole (`arr/writes.ts:296`),
  so the warning that it discards a download may be missing.
- It decides whether the Arr will search by the source of the record it was given
  (`arr/writes.ts:304`), while the Arr fails the grab of that download: of an import record it
  announces a search that the settings for interactive grabs may forbid (`SearchForAnother`).
- `retry_job` and `delete_job` confirm that a job has left its list. They do not claim that it
  is back in the queue, and take a list that was cut for the whole (`CutJobs`).
- `grab_release` finds what it grabbed by its title alone, so another download of that title is
  confirmed in its place (`TitleTaken`).
- "other fields unchanged" of a monitoring change is about the fields it compares
  (`arr/monitoring.ts:50-75`); what else the record has may differ.

### ListedReleases
The `Map` of listed releases in its insertion order, the kept searches, and how long the Arr
itself remembers. Time is a counter.

### PagedReads
One action, a call of a read, and the page each read makes; the caller follows what the page
says comes next. Nothing is kept between two calls, so all that could go wrong is in the
arithmetic. Lengths in characters are small numbers; the text of `web_extract` is a sequence of
UTF-16 units with the length each has in JSON. It is the whole page or what a query selects of
it: the passages `Around` units on each side of the matches, merged where they touch, with a
mark between them (one unit here). Those may be cut within a surrogate pair, so a selection may
hold halves of pairs, though never a first half before a second that is not its own; the
instance takes every well-formed text of up to five units and every selection of it.

## 3. What is checked

| Run | Instance | Shows |
| --- | --- | --- |
| `queue_and_journal` | queue: 5 arrivals, 3 threads, limit 2, the history of `QueueAhead`; journal: 1 job, 2 unsafe actions, 1 safe | the queue's safety, order and work conservation; every task starts; `ahead` is honest; an action that may not repeat lands once, whatever dies |
| `thread_work` | 2 jobs, 2 threads, 1 slot, admin senders, 2 crashes | one message, a reply stands, no stale status, order, only confirmed runs act; all of it is what `RunContract` promises |
| `thread_work_live` | 2 jobs of one thread, 2 crashes | every accepted job ends, or waits behind a failed cleanup or a request to the model that stays open |
| `durable_turn` | 2 runs, a write and a read, 2 crashes, 2 deployments | a write at most once, no request past doubt, own work only, clean end; every run settles, or waits for a model that never answers |
| `write_gate_run` (violation) | 4 calls, rounds of 2, limits 2 and 3, 1 recovery | the README's limit per run does not survive a restart |
| `mcp_writes` | 2 locked calls of a record, 1 unlocked, 1 reader, 1 restart | no lost update, honest outcomes, fresh kept reads; every call answers and frees its key |
| `host` | 4 messages on 3 gateways, 2 starts of the process | a thread that is opened has its run; nothing acts before recovery or after the queue closed; the journal outlives the runs; a shutdown ends |
| `host_thread` (violation) | as above | a thread is left without its run after all when shutdown runs out of time |
| `gateways` | socket: 3 sessions, 4 dispatches, 2 faults, 2 bursts; listener: 2 guilds, 1 watched channel, 5 events before the verdict; issue: 2 posts, 3 accounts, 4 saved comments, 1 late request of each post | the socket implements `SessionFeed`, its end is told once, everything is heard; the audit is honest; comments are told apart and their authors checked |
| `gateways_audit` (violation) | the listener of `gateways` | the audit passes a channel that its guild, as last told, no longer lists |
| `tools` | review: 6 calls, rounds of 2, limits 2 and 3, 1 recovery; writes: every tool, 2 things touched from outside; releases: 3, of which 2 are remembered; reads: every list and text up to 4 or 5 entries, and its selections | the held limits; what a write announces, does and confirms; what can be grabbed; reading on shows everything once |
| `paged_reads` (violation) | the reads of `tools` | SABnzbd's lists, and the Arrs' past their scan, ask to be read past a page of nothing |

`queue_and_journal`, `gateways` and `tools` hold components that share no state; the initial
state says which one runs, so that their states add up and do not multiply.

**Why the bounds are enough.** Jobs of a journal share no state, so one is all; the third
repetition of a safe action brings nothing new and is where that run stops. The queue needs a
full house, a waiter of a busy thread and one of an idle thread at once: five arrivals over
three threads and two slots. In `ThreadWork` every property relates at most two jobs, and two
deaths let a recovery itself be interrupted; senders that are admins meet the stricter check and
are used where standing matters. In `DurableTurn` two runs show work left by one to another,
and two deaths reach a recovery of a recovery; a write whose outcome is unknown and a read that
may repeat are the two kinds of call, and a write nobody reviews brings nothing new, since a
review may allow it at once. The write gate's limits are lowered from 3 and 10 to 2 and 3, with
calls to exceed both. In `McpWrites` two calls of a record are what a lock is about, and the
call without a lock overlaps every read.

The host's messages are one of each kind: a request that opens a thread, a follow-up in it, a
stranger, and a webhook; two starts show what a process leaves to the next, `MaxKnownThreads` a
full list of places. Three sessions let one be resumed, one be lost and one follow it; four
dispatches are READY and enough to lose and replay in the middle; two faults let a reconnect
fail too. An overwrite that denies everyone and one that allows a role is where the order of
permissions shows, and a malformed or empty guild, or one that hides its channel, what an audit
meets besides; with five events (`MaxTold`) before the verdict a guild can be listed, lost and
listed again while the other is waited for. Two posts and four saved comments, the report among
them, let a late request of one post and a person's comment come between another's saving and
its look at the newest; the fourth comes only where no right has changed (`FewGrants`), as
standing needs no more than the third. The reporter has no email and shares a name with one
other account. Two things touched are the target and something beside it. Releases: the memory
holds one fewer than there are, and time passes every limit (`ReuseFor` 2, `ArrKeepsFor` 3,
`ListedFor` 4, `MaxTime` 5, in the order the code's 10, 30 and 60 minutes have). Pages of two
entries, Arr pages of three and scans of two pages put every boundary within lists of four to
seven; every length of one, two or four in rooms of three and five makes pages end anywhere and
some entry fit nowhere.

**Deadlock.** The models may stop: the queue is drained, every job has ended, every run of a
conversation is over, every call was made, everything is read. The runs say
`CHECK_DEADLOCK FALSE`; liveness properties say what must not stop early.

**Fairness.** Weak fairness on the steps of each process only, each justified by a bound in the
code: gateway requests, the review of a write, MCP calls (180 s), and the MCP server's three
phases (45, 90 and 30 s, `writes.ts:24-30`) have deadlines. A request of the agent to its model
has none (`durable.ts:534`), so none is assumed: `ThreadWork`'s turns and `DurableTurn`'s
requests may never end, and the liveness properties say so. `EveryJobSettles` is for
behaviours in which no turn stays open for ever (`TurnsEnd`); `EveryRunSettles` allows for one
that waits for the model for good, unless it is stopped. The service manager restarts a
host that died (`Restart = "on-failure"`, `nix/module.nix:339`). `HostLifecycle` assumes it of
the host's own steps, of the deadline of a shutdown that waits, and of a boot whose requests
fail; `FluxerSession` of the client's and the server's steps and, once a socket is cut, of the
timeouts that notice it. Arrivals, shutdown, crashes, a member's stop, faults of the network and
a restart after a clean exit are never assumed to happen.

**Findings.**
- `write_gate_run`: README.md:175 promises that after 3 held writes in a row or 10 in a run every
  further write of that run is held. The counters live in the gate of one process, so a run
  recovered after a restart starts again from zero.
- `host_thread`: chat-admission.ts:325-328 says that a shutdown waits for the thread and its job,
  "so no thread is left without its run". After 30 seconds it waits no longer, closes the queue,
  and the event of a thread that opens then is refused.
- `gateways_audit`: README.md:346-348 says that at startup the host checks each watched channel
  and refuses to start if one is in no guild it can see. A guild's new state replaces only what
  was found of the channels it lists, so a channel that is gone from it keeps its old finding,
  and the verdict may be "ok" over a channel no guild lists. It takes a new session, or a guild
  that returns, while another guild is still waited for.
- `paged_reads`: results.ts:84-85 wants no page that lists nothing and can be read past. SABnzbd's
  queue and history give exactly that once `start` is used, as the pages are counted as if they
  were the first; so do the Arrs' queue and blocklist past the 1000 and 5000 entries they read.

## 4. What is proved

Each theorem is for every value of the constants allowed by the module's named `ASSUME`.

| Theorem | States |
| --- | --- |
| `JobStoreProofs!AtMostOnce`, `HonestJournal`, `FinalResults`, `FinalEnds` | at most once; and of what no run repeats: rows are honest, results and ends are final |
| `ThreadQueueProofs!NeverTwoRuns`, `SlotsUsedWell`, `TasksStartInOrder` | the queue's safety and order |
| `DurableTurnProofs!AtMostOneWrite`, `UncertaintyStopsModel`, `ActiveCallsStayInTurn`, `FailuresAreFinal`, `TurnsCleanUp`, `RecordedStays` | every safety property of a conversation; and that failures and results are final |
| `McpServerProofs!NoLostUpdate`, `OutcomesAreHonest`, `KeptReadsAreFresh` | every safety property of the write calls |
| `ToolCallProofs!LimitsAlwaysHold` | the limits of one gate |
| `McpServerProofs!ListedAreGrabbable`, `NewestAreRemembered` | what a search lists, a grab after it finds with the Arr; what can be grabbed is what was listed last |
| `McpServerProofs!EverythingIsReadOnce` | reading on lists everything once, in order, whatever fits a result |
| `ToolCallProofs!ShownBeforeDone`, `AnnouncedHappens`, `ConfirmedWasSo` | a write changes what its review showed, does what it announced, and says "confirmed" of what is so, with the exceptions of section 2 |
| `HostProofs!ActsOnlyInService`, `RunsStayJournaled` | nothing acts before recovery or after the queue closed; the journal outlives the runs |
| `HostProofs!ThreadsGetTheirRun` | a thread opened in time gets its run |
| `HostProofs!AheadIsHonest` | what a new task is told of the runs ahead of it |
| `ThreadWorkProofs!KeepsContract` | the host, process after process, implements `RunContract` |
| `ThreadWorkProofs!LeavesOneMessage`, `LeavesNoStatus`, `RepliesStand`, `SerialThreads`, `RunsConfirmed` | every safety property of a run's life |
| `GatewayProofs!ImplementsFeed`, `DeathIsToldOnce` | the Fluxer socket implements `SessionFeed`; its end is told once |
| `GatewayProofs!ClosestOverwriteDecides`, `AuditIsHonest` | the three steps of the permissions are the rule `Granted`; so is the audit's verdict, on the channels as last listed |
| `GatewayProofs!CommentsStayApart`, `SendersAreChecked` | every safety property of a Seerr issue |

The type invariants of these modules are part of the inductive invariants, so they are proved
and no run repeats them. The inductive invariants of `ThreadWork`, `FluxerSession`, the Seerr
issue, `QueueAhead`, `HostLifecycle`, `ServiceWrites` and `PagedReads` were model-checked before
they were proved, on the instances of the runs.

**Assumptions.** `QueueAssumption`: arrival numbers are a finite set of numbers and there is a
slot. `SessionAssumption`: the number of sessions is one, and READY is what its name says.
`AdmissionAssumption`: a message is written in a channel, elsewhere or in the thread of a
message. `ListedAssumption`: a search is reused for less long than the Arr keeps it, and that
for less long than a release is remembered, as the code's 10, 30 and 60 minutes are.
`PagingAssumption` and `ReadingAssumption`: limits are not zero, a read finds finite lists, and
no two first halves of surrogate pairs follow one another in a text, which holds of a
well-formed one and of what is selected of it. `GatewayAssumption`: what is required, and what
roles and overwrites give, are among the permissions there are, and "not yet" is no set of
guilds. `SeerrAssumption`: the host's posts are nobody's account, there are finitely many
accounts, and the reporter has one. The others are of the same kind: constants that name nothing
are not among those that name something.

**Journal.** At-most-once is not inductive. `LedgerOK` adds what ties a row, a call and an
effect together: a call in flight has an intent, an action without a row has had no effect,
and an unsafe action that was only sent has had none either.

**Queue.** The types and the three state properties together are inductive, in the form
`Exclusive`: the busy threads are exactly those of the started tasks. The loop of
`startWaiting` is reasoned about once, over four values, apart from the operation that runs it;
that it leaves no slot beside a startable task needs that a finite, non-empty set of arrivals
has a smallest one.

**The queue's answer.** `ahead` counts all that is under way, but a task of an idle thread waits
for a slot only. While it waits, all slots are taken by earlier tasks: none that came later may
pass it, as it is eligible all the while. So the earlier tasks that ended and those that are
left together stay below what it was told plus the slots (`Waits`), and when it starts, as many
as there are slots were left just before.

**Runs.** `WorkInv` is the journal's invariant, the queue's, and `OwnInv`, which ties the two and
what is visible outside to the place of each run. For each job, `MessageOK` says what its message
is by the rows of the actions that posted, changed and retracted it; `FiberOK` and `StageOK` which
of its fibers may have which action under way, and what its journal then holds; `MarkerOK` that a
run holds a marker only of its own message; `EndOK` what a job leaves that was cancelled or has
ended. `PlaceOK` says that every job is in one place, the queue, a list of the restore or behind
a cleanup that failed; `LifeOK` that the queue is filled only after all were looked at, in the
order they were accepted. The properties are then read off. The
refinement goes job by job: what an action does to the rows and the message of a run is one step
of its contract or none, its guards following from the invariant (that an answer is begun in its
turn from `PlaceOK` and `LifeOK`, that an end is final from `EndOK`), and the runs it does not
touch stay as they were. The end of a process changes nothing a thread sees.

**Host.** What is open follows from the stage of the process: the queue takes work from boot to
the end of listening, admission is open from the recovery on, the journal until the queue is
drained (`StageOK`). An admission is past the latch only while admission is open, and once the
queue has closed none is left, unless the shutdown ran out of time (`AdmissionsOK`): hence
whatever acts does so in service, or is a leftover that submits nothing, and a thread opened in
time finds the queue open.

**Sessions.** The wire is the heart of `SessionInv`: while a socket is open, the dispatches on it
are those of the attached session that were not heard yet, in the order of its log, up to where
the socket was cut (`WireOK`), and the client stands where it last heard its session (`LogOK`).
Then the next dispatch it takes is the next of the session it follows, which is a step of
`SessionFeed`; and it is told that a session is gone only when it is (`GoneOK`).

**Audit.** `AuditInv` says what the findings are by the history: those of the state in which a
watched channel was last listed, unless its guild was lost since (`FindingsOK`). That a finding
names no missing permission exactly when the rule grants all (`CheckedIsUsable`) is the theorem
about permissions: one step of overwrites, seen from one permission, is an allow, or what was
there and no deny; three of them in their order are the rule, by cases.

**Seerr.** A post takes the newest comment that is not gone for its own. `MarkersOK` says that
while an answer is awaited, the comment it made is newer than every marker, which holds as one
post is under way at a time (`PermitOK`); so between what it made and what it takes lies nothing
that another post knows as its own. An account is the only one that matches the name and the email
of a comment's author only if the listing was whole, and then it is the author
(`SoleAdminIsAuthor`).

**Conversation.** A write is applied once because its operation is in the document of its run
before it is called (`AppliedOnce`), and only that run's turn executes it (`ExecutionOwned`).
The latter needs that a turn which may execute anything has no other run's work in its
conversation (`NoOthersWork`): the inspection establishes it, and a failure, once recorded,
keeps the gate closed where it does not hold.
That a model is not asked past doubt (`UncertainStopsModel`) is part of the same invariant: what
is open and not the current run's is an earlier one's, which the inspection finds before anything
is waited for (`NoOthersWork`), and the guard before a request asks the current run's document.

**Write calls.** `Ledger` says what a call's phase means for its write; `Exclusive` that locked
calls of a record exclude each other and hold its key. A kept list is fresh because a list in
the hands of a reader already is, whenever its marks still match (`ListsFresh`): a write that
lands between the two moves the marks when it starts and when it settles.

**Write gate.** The gate counts as it goes; the property counts over the log. `Counted` ties the
two together while the gate is not suspended: the total is the number of held calls, the row of
them began after one that was let through, and no full row was ever seen. A suspended gate keeps
its counters, and a request is only under way while it is not suspended (`OneAtATime`).

**Listed releases.** A kept search is not from the future, and the Arr keeps what it listed for
its own time from then on (`KeptOK`); a search that may be reused is younger than that. What is
remembered is the end of all that was ever listed, a release standing where it was listed last
(`MemoryOf`): what is missing has expired, or `MaxListed` listings came after it. `Remember` and
`Unexpired` keep it so, the first by deleting the release and adding it at the end, the second as
what expires stands first. Both are loops, hence recursive functions: a least place where one goes
wrong would have a predecessor where it does not (`UpTo`), which also shows that the functions
exist.

**Paged reads.** What was seen is, in order, exactly what lies behind the place the next page
starts at (`PagesInv`). So each read owes one lemma, that its page is good (`GoodPage`): it lists
in order what lies between its place and the one it names, nothing is left when it says so, and
it is not empty when it says there is more. What fits is never computed, only that the count
found is among those tried; so the lengths of entries stay open. The place has to be one that a
read can come to (`PlaceOK`): not within a pair of surrogates, nor at the end of a source or of a
page of history, where the next page would be empty. Shrinking a page of text ends at one unit at
the latest, whose JSON always fits; the listing of media sources is again a loop.

**Service writes.** The invariant is about the time between the review and the write: the plan
was made from a read of some first state, and until the write is done the services are in that
state but for what others touched (`PlanOK`), with all that such a change brings along
(`TouchedOK`). Then each tool is a lemma: what its request changes differs from what its plan
says only where the state differs from what was read. A queue read in part may have missed
items, but it shows none that are not there, and what needs the whole queue is refused without
it. A confirmation needs only that the plan is a plan and that a read shows what it shows.
The theorems are for any number of changes by others; the things a service has are the few of
the model.

**Model-checked only.** Liveness under fairness, which is out of the prover's reach:
`EveryTaskStarts`, `EveryJobSettles`, `EveryRunSettles`, `EveryCallAnswers`, `EverythingHeard`,
`HostEnds`. Every safety property the runs check is a theorem.

## 5. Not modelled, and why

- Texts, prompts, notices, titles, configuration, login, logging, the projection of a service's
  record to the fields shown: no state a property is about.
- Triage, helper and judge: one call of a model each, a free choice where it matters.
- The media probe: one process per call whose output is parsed.
- The searches of transcripts, of tools and of the web: one call without state, ranked by text.
- Discord's socket, Pi Durable, SQLite, the Effect runtime: libraries, modelled by what the code
  relies on where it does. The MCP server is stateless per request; what a client that leaves
  does to a write is in `McpWrites`.
- The CLI gateway and `runOnceEffect`: one run per process.
- Real time: a deadline may pass or not, a pause has no length. Hence that a fresh identify
  waits as long as Fluxer asks (`client.ts:591-604`) is not checked.
- Bits and bytes: masks are sets, a JSON text is its length. A web page as it is fetched holds no
  half of a surrogate pair; what a query selects of it may.

## 6. Plan

Done: all modules above, their runs, and the proofs of every safety property the runs check. What
is left is detail: the projections of records, and gateway calls that land after their own
timeout in `ThreadWork`.
