# A verification project for smart-home-engine

TLA+ models of the daemon in `src/src`, configurations that check them with TLC,
and proofs checked with TLAPS. `she` is one Node.js process that runs
user scripts against MQTT, Matter and a small document store; it has a worker
thread (sheDB views), child processes, files it rewrites in place or by rename,
and a web interface.

Source paths are given without the leading `src/` of the repository
(`index.js:659` is `src/src/index.js`, `doc/cli.md` is `src/doc/cli.md`).

## 1. Inventory

| Component | State | Operations | Talks to |
|---|---|---|---|
| sheDB store, `lib/shedb-core.js` | documents, global revision, view definitions, view results, two save timers, the worker handle | set, extend, prop, del, query (define or delete a view), results from the worker, load and save | worker by messages; MQTT, HTTP and scripts through events |
| sheDB worker, `lib/shedb-worker.js` | replica of the documents, compiled definitions, queue | init, patch, del, query, delQuery, run one view per turn | store by messages |
| sheDB interfaces, `web/shedb.js`, `web/shedb-api.js`, `sandbox/shedb-sandbox.js` | listeners, retained topics | requests in, publications out | store, broker, scripts |
| Start gates, `index.js:405-489, 659-721, 866-899` | two gates, four timeouts, sentinel | connect, close, sentinel, timeouts, controller ready | broker, Matter controller, script engine, web clients |
| Script engine, `index.js:907-951, 998-1006, 1487-1882`, `lib/script-timers.js` | `scripts`, subscriptions, timers, reads under way, the watcher's picture | load, unload, reload, markers, dispatch | disk through chokidar, store |
| Variables and state store, `index.js:709-812, 961-985`, `lib/state-store.js`, `lib/parse-payload.js` | `mqtt::` and `var::` entries | set by script, set by client, status (echo or foreign), clear | broker, subscriptions |
| Safe mode, `index.js:104-221`, `lib/crash-record.js` | marker file, crash record | look, record, mark, healthy, stop, kill | other instances through the files |
| Redis mirror, `lib/redis.js` | seed under way, write-through | connect, seed, write | Redis, store |
| Secrets, `lib/secrets.js`, `web/secrets-api.js` | decrypted map, file, usage | load, set, mark, remove, command line tool | disk |
| Sessions, setup and configuration, `web/auth.js`, `web/config-api.js`, `config.js` | sessions, `config.json` | setup, login, logout, PUT and PATCH of the configuration | disk, web clients |
| Matter controller, `matter/controller.js`, `web/matter-api.js`, `sandbox/matter-sandbox.js` | nodes, subscriptions, commissioning | commission, remove, read, write, invoke | matter.js, bridge, scripts |
| Matter bridge, `matter/mqtt-bridge.js`, `matter/bridge-templates.js` | settings (enabled, templates), names and switches of nodes, whether it has started | start, stop, settings, rename, switch, get, the controller's events | controller, broker, state store |
| Bindings, `matter/controller.js:770-980`, `matter/bindings.js` | lists on devices only | bind, unbind, each a sequence of reads, writes and read-backs on two devices | devices |
| Groups, `matter/controller.js:984-1440`, `matter/groups.js` | `groups.enc`: groups, key sets, members and their status; on devices keys, map, table, grants | create, delete, add and remove a member, bind and unbind a group | devices, disk |
| Device health, Thread, product catalogue, `matter/*` | alert timers, mesh data, cache | poll, alert | controller, broker |
| Assistant, `web/ai-*.js` | conversation, drafts, memory, sandbox worker | tool calls, draft, accept, evaluate with a timeout | scripts, store, language model |
| Services, `web/services-api.js`, `lib/services-*.js`, `lib/ssh-deploy.js`, `service/she-servicectl` | env files of instances on their hosts, catalogue, inventory | install, configure (broker credentials), start, stop, uninstall | hosts by ssh, dynsec |
| Broker administration, `web/broker-api.js`, `lib/dynsec.js`, `lib/mosquitto-conf.js`, `lib/ca.js` | queue and request under way, timers, ready flag; configuration, certificates | commands to the plugin, connect, close, timeout, stop and init; edits, issue and revoke | broker, disk |
| Script editing, git, packages, `web/scripts-api.js`, `web/git-api.js`, `web/deps-api.js` | working tree, install in flight | write, rename, commit, pull, install | disk, child processes |
| Logs, `lib/log-file.js`, `lib/logger.js`, `web/log-ws.js` | current file, ring of lines, sockets | append, rotate, push | disk, web clients |
| Standard library of scripts, `sandbox/stdlib.js`, `sandbox/api.js` | timers of combinators | debounce, age, link, combine | store, script engine |
| Discovery, storage paths, database writers, web server, web interface | little of their own | parsing, path computation, requests | network, disk |

### How they interact

* **Calls on one thread.** Everything but the view worker and the assistant's
  sandbox runs on one event loop. A handler is atomic up to its next `await`,
  callback or timer; the hard places are where state read before one is used
  after it (`readFile` in `loadScript`, bcrypt in setup, Redis in the seed).
* **Emitters are calls.** `emit` runs listeners, and what they call, before the
  emitter's next line (`del` in `lib/shedb-core.js:283`).
* **Messages.** Main thread and view worker exchange FIFO messages; the daemon
  and the broker exchange FIFO messages per connection, and the daemon reads its
  own publications back because it subscribes to `#`.
* **Files.** Debounced JSON files, the crash record and marker, `config.json`
  with three writers, the secrets file with two processes, the script directory
  watched by polling.

### What is hard, and what makes each component correct

PROJECT.json lists the hazards with their lines. In short:

* *sheDB*: the worker's replica must be the store's documents although patches,
  definitions, crashes, respawns and results interleave; the results shown must
  be those of the present documents; the file must be one complete past state.
* *Start gates*: a sentinel must mean a complete state although connections are
  lost and sentinels overtake them; and scripts must start although the broker,
  the network or the controller never answer.
* *Script engine*: what runs must be what is on disk and enabled, once, and an
  unloaded script must leave nothing behind.
* *Variables*: the last write must win although the daemon hears its own older
  writes again, and a subscriber must not be left with an older value.
* *Safe mode*: it must be entered after a loop of early crashes and only then,
  although the record is written by the run after the one that died.
* *Redis mirror, secrets, configuration*: two writers with a wait between read
  and write must not lose each other's change.
* *Matter bindings and groups*: a list on one device and a grant on another must
  fit although every write may fail, be lost or meet another request; what several
  groups share must stay as long as one needs it and no longer.
* *Matter bridge*: retained topics must be those of the present names, templates and
  values although the bridge never reads the broker and is not always connected.
* *Broker administration*: answers without ids must reach the request they answer,
  and every caller must be told something.
* *Services*: a password in a file on a host must be the one at the broker.
* *Assistant*: a draft accepted twice, a script that never ends.

## 2. Plan

Modules are written so that they can be proved about: constants with named
assumptions, one action per handler, no `RECURSIVE` operators. The order is by
how much of the daemon's behaviour depends on the component.

| # | Module | Composes | Status |
|---|---|---|---|
| 1 | `SheDB` (store, worker, files), `WriteBehind` (abstract debounced file), `SheDB_proofs` | `SheDB` implements `WriteBehind` | done, seven theorems |
| 2 | `StartGate`, `Start_proofs` | daemon, broker, controller, web clients | done, three theorems |
| 3 | `ScriptEngine`, `Scripts_proofs` | user, watcher, loader, dispatch | done for files, markers, subscriptions, timers, five theorems |
| 4 | `VarSync`, `Scripts_proofs` | daemon, broker, clients | done for one variable, three theorems |
| 5 | `SafeMode`, `Start_proofs` | instances that share files | done, four theorems |
| 6 | `MatterBindings`, `MatterBindings_proofs` | devices, requests | done, three theorems |
| 7 | `MatterGroups`, `MatterGroups_proofs` | devices, requests, the group store | done, four theorems |
| 8 | `MatterBridge`, `MatterBridge_proofs` | controller, bridge, state store, broker | done for one attribute per node, four theorems |
| 9 | `Dynsec`, `Dynsec_proofs` | client, plugin | done, three theorems |
| 10 | `ServiceCredentials`, `ServiceCredentials_proofs` | requests, hosts, the plugin as `Dynsec` leaves it to callers | done for credentials, four theorems |
| 11 | `Stores`: Redis mirror, secrets, configuration | abstract register with several writers | next |
| 12 | `ThreadHealth`, `DeviceHealth`: alerts with hold times | controller | after 11 |
| 13 | `Assistant`: drafts, confirmation, the evaluation worker and its timeout | `ScriptEngine`'s directory as an abstract file set | after 11 |
| 14 | Script routes, cron and sun jobs, log rotation and the bounded web socket backlog | extends `ScriptEngine` | after 11 |

Abstract specifications worth stating: `WriteBehind` (done; `groups.js` and
other stores keep files the same way) and a register with several writers for
module 11.

Theorems worth proving: every safety property the runs check, with the refinement of
`WriteBehind`. All of them are proved (section 6). Modules whose proofs share a file
(`Start_proofs`, `Scripts_proofs`) have definitions of different names, which is why
`StartGate` has `GateInit` and `GateSpec`, and `VarSync` has `VarInit` and `VarSpec`. To be
proved about, a model uses no folds and no recursion: what code does in a loop over
nodes or topics is a set of results (`EnsureNames`), or a batch given as a set.

## 3. Modules

### SheDB and WriteBehind

| Model | Code |
|---|---|
| `docs`, `rev`, `queries`, `views` | fields of the core object |
| `docsTimer`, `viewsTimer` | `_saveTimer`, `_saveViewsTimer` pending |
| `inbox`, `outbox` | `postMessage` in the two directions |
| `worker` | `"up"`; `"dying"` between the thread's end and `'exit'`; `"null"` until the respawn |
| `wdocs`, `wqueries`, `wqueue`, `wcur` | the worker's `docs`, `queries`, `queue` and the view `setImmediate` holds |
| `published` | the retained result of a view at the broker |
| `disk`, `diskViews` | `docs.json`, `views.json` |

A document is a body (a function from property names to values) and a revision;
a view definition is what its code can do as far as the store can tell: what it
selects, what else it reads, how it ends. A result is the documents the run
looked at. The actions are the core's methods (`Set`, `Extend`, `ExtendNothing`,
`Prop`, `Del`, `Define`, `DefineBad`, `Undefine`), the worker's handlers
(`WorkerInit`, `WorkerDoc`, `WorkerQuery`, `WorkerRun`), `MainReceive`, the saves,
and the crashes of worker and daemon. `Respawn` posts the documents and one
message per definition in one go; the model has it as one message because a new
worker has nothing to run between them. Which of several queued views runs next
is left open, which covers the insertion order the code serves.

`WriteBehind` is what a debounced file promises. `SheDB` instantiates it with the
memory that `docs.json` holds; `ImplementsDocsFile` says that each of its steps is
a change, a save, a failed save, a restart or a stutter there. `Lossless` is where
the code keeps less than all: a document that `extend` created from an empty
partial, and a definition that does not compile, arm no save. A write of either file may fail:
the old file stays and nothing retries.

### StartGate

`mqttGate`, `matterGate`, `started` are the variables of the same names with an
underscore. A timer is its due time. The code keeps one handle for sentinel timeouts and
overwrites it at each connect, so `timers` holds all that are still to fire and
`sentinelTimeout` the one the code could still clear. The broker is modelled
from what the daemon relies on: it handles the messages of a connection in
order, delivers the retained messages in any order after `SUBSCRIBE`, echoes the
sentinel, and may handle what a lost connection had sent only after the next one
has subscribed (`late`). Time advances in units when nothing is due.

### ScriptEngine

The directory is one level deep, which is what the marker and library rules need:
a file, its directory, both markers. The watcher compares the disk with its last
look (`seen`) and handles one difference at a time against the disk as it is by
then. `readFile` is a step of its own (`reads`, `ReadDone`). A run registers a
subscription and a timer with the version that made it. `gen` tells the Set of
`scriptTimers` apart: a callback dispatched before an unload puts its timer in
the Set of then (`orphans`).

`Races` says which orders of events a run allows beyond one change of one path at
a time, and the history variable `raced` which of them there have been, so that one run
checks both what holds always and what holds without them.

### VarSync

One variable: `mqttEntry` and `varEntry` are its two entries in the store,
`retained` the broker's message, `up` and `down` the connection. `SetVariable` is
`she.var.set`, `OnSet` a client's `<prefix>/set/<name>`, `OnStatus` the echo or a
foreign publication, `OnClear` the empty payload. Two subscriptions stand for
all: one without and one with `change: true`. `Faults` selects what may go wrong and
`happened` records it, and with it `"overlap"`, no fault but a write made while a publication
is under way, which is what lets an old echo meet a newer value.

### SafeMode

A start is three steps because other instances and kills come between them: look at the
marker (`Look`), evaluate and write the record (`Record`), write the marker
(`Mark`). `ends` is the history the properties speak of; the code knows of an end
only through the marker and the record.

### MatterBindings and MatterGroups

Every call to a device is a step: it answers, it refuses or is not there, or it
does as told and the answer is lost (`Answers`, `Refuses`, `Lost`). A request is a
record with a `pc` at its next call and the lists it has read; other requests,
devices that go and come back, an unpairing and the end of the daemon come in
between. What is sent to a device is the whole list read before, with the change.

| Model | Code |
|---|---|
| `acl`, `bound` | the operate entries of a device's Access Control list, the entries of an endpoint's Binding list |
| `Bind` to `Undo` | `addBinding`: grant, read back, enter, read back, roll back |
| `Unbind` to `CheckRevoke` | `removeBinding`: drop, read back, then revoke what no other binding needs |
| `keys`, `keyMap`, `table` | key sets, `groupKeyMap` and group table of a device |
| `groups`, `sets`, `saved` | the group store in memory, and `groups.enc` |
| `Create`, `Delete`, `Add` to `CheckGrant`, `Remove` to `RemoveKey` | `createGroup`, `deleteGroup`, `addGroupMember` with `_provisionMember`, `removeGroupMember` with `_deprovisionMember` and `_dropKeySetOnDevice` |
| `BindGroup` to `CheckEntry`, `UnbindGroup` to `DropEntry` | `_addGroupBinding`, `_removeGroupBinding` |

`unsettled` is the history of bindings and memberships whose last request ended
with an error or a warning, or never, or met another on its device. A `Faults`
constant names what may go wrong. Administrator entries and entries of other
fabrics are never touched by the code and are left out; so are the limits a device
reports, but for the room of its lists.

### MatterBridge

A topic is a template, a name and what it says of a node (`attribute` or `online`),
or the bridge's own `connected`. One event makes the bridge publish a batch, which
is what `_out` sends in a row. `known` is what the state store knows to be
retained: the bridge finds there what it has to clear. `Deliver` is a batch reaching
the broker and its echo reaching the store, in one step. Of a node the
model has one attribute; formats, `ts` and `lc`, events and the text of templates
are left out. What a template says of the node is kept (`NamedBy`), because
`_cleanup` goes by it: the MQTT name, the node id, or nothing, in which case
nodes share the topic and which of their payloads stays is not told apart. One with both name and id
counts as one with the name. The templates for attributes and for `online` are chosen together and
neither is empty; topics of two templates never coincide and no MQTT name reads like a
node id. A `setDevice` that is refused has given names by then (`RefuseDevice`). A connection that breaks cuts the sequence of publications at any batch, and inside
a batch between what is cleared and what is published. The settings file is
written at each change and is therefore always current. `lost` and `unsettled` are
histories: topics whose last publication never arrived, templates
cleared while the bridge could not know or reach all of it.

### Dynsec

`queue`, `inflight`, `handler`, `ready` are `_queue`, `_inflight`,
`_inflightResolve` and `_dynsecReady`; `timers` are the timeouts still running, which are
cleared only by the answer that reaches the handler they were armed with. The
plugin is modelled as one that answers in order on the connection a request came
on, refuses, or says nothing. `init` may follow `stop` at any time, at once included
(`web/broker-api.js:1579-1580`), whatever timer still runs. `behind` is a history: requests
sent while the answer was under way to one that was settled before, or whose handler the timer
of an earlier request had taken away (`cutOff`).

### ServiceCredentials

A request is one of `install`, `uninstall`, `PUT env` and `file/create`; each step
is one call of the helper on the host or one command to the plugin, both of which
may fail or be done and reported failed. `env` is the file of an instance with its two
markers, user name and password; `client`, `role`, `assigned` are the plugin's
side. A body is the file as it was shown when the form was opened or one without
markers. `install` is taken to leave the file it was handed: it runs the adapter's own
`--install`, which is not part of the repository. Installing over an existing
instance is left out. `trouble` is the history of identities that a failed, cut
short or overlapping request has left in doubt; `dropped` of those whose marker a body
without it took from the file.

## 4. Runs

| Run | Shows | Bounds |
|---|---|---|
| `shedb` | replica, definitions, results and publications agree once both threads are quiet, with a worker crash at any point | 2 documents, 2 interchangeable views, 4 definitions (two selections, published or not, one that does not compile), 2 document and 2 view changes, 2 messages in the inbox, 1 crash |
| `shedb_files` | `docs.json` implements the debounced file; views converge and documents reach the disk when clients stop | 1 document, 1 view, 3 definitions (published, throwing, not compiling), 2 document changes, 1 view change, 1 worker crash, 1 restart |
| `start_gate` | sentinel means complete; start by the deadline and always | 2 retained topics, 3 connections, 7 time units, timeouts 3, 2 and 6 |
| `scripts` | what may run runs, once, in its last version; what may not has nothing registered | 2 files in one directory, 2 edits, 2 marker changes, 1 message |
| `variable` | last write wins, subscribers are current, store and broker agree in the end | 2 values, 3 writes, 4 ms, 2 faults of five kinds |
| `safe_mode` | safe mode exactly after a loop of early crashes; the marker stays with its owner | 2 interchangeable instances, 5 runs, 6 ticks, loops of 2, a record of 3 |
| `bindings` | an entry always has its grant; a plain answer is never a half | 3 sources on a node each, 1 lamp, 2 clusters, room for 2 subjects, 3 requests, 2 at a time, 1 fault of six kinds |
| `groups` | members and bound sources have what they need, who left has nothing | 2 lamps and a switch, 2 groups that share a key when the daemon starts, 1 more, 2 requests, which may meet on a device, 1 fault of four kinds |
| `bridge` | retained topics are current and none outlives what it was published for; names stay | 2 nodes of one label, 2 values, a template with the MQTT name and one with the node id, 3 events, 1 disconnect or restart |
| `dynsec` | an acknowledged command was done, nothing is sent after it was failed, every caller is told | 2 requests of one command, 2 connections with a probe each, 1 fault, 1 deactivation |
| `credentials` | an instance can log in with its file; no identity is left over; a save keeps the password | instances of one name on 2 hosts, 4 requests, 2 at a time, 1 fault or crash |

Why the bounds are enough. *sheDB*: the hazards need one change
before, one during and none after a run or a crash; two changes of documents
and two of definitions give every order of two, and two views are what it takes
for one to wait while another runs. The inbox of two lets a change wait behind
another message. `shedb` leaves out restarts, so its view of the state
(`NoFiles`) may drop the files and their timers, which only a restart reads.
*Start gates*: the third connection is the first that can meet a timeout two
connections old; time runs past the deadline of 6, and the timeouts are chosen so that each
can be the first. *Scripts*: two files make a library or a disabled directory
hold one that is concerned and one that is not. *Variables*: the shortest
behaviour in which an old echo overwrites a newer value has two writes; the third shows what
the next write makes of it. *Safe mode*: a loop of two, broken once, takes four
runs; a record of three is cut within five. *Bindings*: three sources fill
a list with room for two, and three requests are bind, bind, unbind, the shortest
in which a revocation may take too much. *Groups*: the store starts with two
groups in any membership, so that two requests are a removal and what it may have
broken. *Bridge*: three events are a publication, a change and a change back, in any
order with a loss of the connection. *Dynsec*: a late answer needs one request to
time out, one to be taken for it and one behind, which are a probe and two requests;
its safety properties were also checked with three requests of two commands. *Credentials*: install, switch,
switch back; a second instance is what shares the identity. Of the four requests one can
come without markers and two repair what it left. The largest runs are `credentials`
(2.4 million distinct states), `shedb` (1.9), `bridge` (1.5) and `groups` (0.84).
`bridge` was also checked with a template that names no node.

The type invariants of all modules are proved (section 6). The runs of `Dynsec`,
`MatterBindings`, `MatterGroups` and `MatterBridge` check theirs, which say more than
the types.

The run of disagreement, with a finding in PROJECT.json: `start_gate_ui`. The boot
timeout opens the MQTT gate, Matter is still pending, a connect broadcasts "not
ready" and nothing takes it back.

### Observed and left without a run

The models reach these too; each takes only another value of a
constant or another property. sheDB, scripts, variables, safe mode:

* a restart before the save of a change is due takes documents and results back, but
  not what is retained at the broker: the worker computes the old result again, it equals the
  one loaded and nothing is published (`lib/shedb-core.js:388-391`): `PublishedCurrent`
  with `MaxRestarts = 1`;
* a result posted before the worker handles `delQuery` brings a deleted view back
  (`lib/shedb-core.js:386-388`): no view outlives its definition;
* two events during one `readFile` load a script twice, although line 1492 refuses a
  second load, and the subscriptions of the first run stay (`doc/script-engine.md:95`,
  `index.js:1491-1497`): race `"overlap"`, `OneInstance` without its premise;
* removing a file's marker, or a `.shelib` marker, inside a disabled directory loads
  scripts of it (`doc/script-engine.md:126`, `index.js:1751, 1776`): race `"nested"`;
* set a, set b, the echo of a, set b: a change-only subscriber stays at a
  (`doc/sandbox-api.md:58`, `index.js:790`); so it does after a foreign publication
  or a restart: `SubscriberCurrent` without its premise;
* two instances that start together both write the marker, and the first to stop
  removes the other's (`doc/script-engine.md:164`, `index.js:154`): race `"together"`;
* a view that reads a document outside its filter is not run again when that
  document changes (`doc/db/views.md:11`, `lib/shedb-worker.js:46`): definition with `reads`;
* a listener that sets a document again while it is deleted leaves the
  worker without it (`lib/shedb-core.js:283-288`): `OnDelete`;
* a map that assigns to `this` changes the worker's documents
  (`doc/db/sandbox.md:5`, `lib/shedb-worker.js:81`): kind `"mutates"`;
* the sentinel timeout of a lost connection can open the gate before that of the
  present one is over (`doc/cli.md:35`, `index.js:686`);
* a subscription callback that outlives its script starts a timer nobody clears
  (`doc/script-engine.md:98`, `index.js:938`): `orphans`; one that subscribes leaves a
  subscription of a script that is not loaded: race `"late"`, `Owned` without its premise;
* the first echo after two writes is stored and dispatched
  (`index.js:786-788`), and variables are not restored under `var::` after a
  restart (`doc/sandbox-api.md:132`, `index.js:809`);
* a start killed between record and marker makes the next start record the same
  dead run again (`doc/script-engine.md:160`, `index.js:139`): race `"torn"`;
* a crash count above the ten entries kept is never reached (`doc/cli.md:32`,
  `lib/crash-record.js:19,86`): `Count > Keep`.

Matter:

* removing the binding of one endpoint revokes the grant that another endpoint of
  the same node still needs: what is still bound is asked of one list
  (`doc/http-api.md:667`, `matter/controller.js:955-956`): two sources on one node;
* requests that overlap on a device lose each other's list updates, as lists are
  written whole: excused as `"overlap"`;
* a device removed from the controller leaves its grants, bindings and memberships
  on others (`unpair`, `matter/controller.js:478`);
* with a group-bound source and a member on one device, removing the
  member takes the key the source still needs (`doc/http-api.md:542`,
  `matter/controller.js:1145`);
* with `OwnKeys`, the first group of its own key takes the key set id the shared one
  would have, and a key set id used again keeps the old key on devices
  (`matter/groups.js:42`, `matter/controller.js:1060, 1218`);
* a member added again with fewer clusters keeps the old grants; a key set that
  cannot be removed is passed over in silence (`matter/controller.js:1087-1093`);
* switching the publishing of a paired node off clears nothing under a template that names
  it by `${nodeId}`, or not at all: `_cleanup` takes a paired node's id, and a topic that
  names no node, for live (`matter/mqtt-bridge.js:258, 273`,
  `test/unit/matter-mqtt-bridge.test.js:227` "publish off clears them"): `OffClears`, which
  TLC refutes under `MCMatterBridge.cfg` in seven states. `NothingStale` claims only what
  the cleanup achieves under each kind of template;
* nothing is published again on reconnect, so what changed while the broker was
  away stays wrong until the next change (`matter/mqtt-bridge.js:131`): `lost`;
* a template left, or the bridge switched off, while the broker is away leaves the old topics
  for good: they are cleared once, from what the store knows then: `unsettled`;
* the bridge's 30 s start without a controller clears all topics as stale and
  publishes nothing of nodes that are online by then (`index.js:432, 874`): `EarlyStart`;
* a device named `4` takes the requests for node id 4 (`matter/mqtt-bridge.js:117`).

Broker and services:

* an answer that comes after its timeout settles the next request, and the pairing
  stays off by one until the queue is empty (`lib/dynsec.js:187`, header lines 6-8):
  `AckedTookEffect` without `behind`;
* `stop` then `init` within the timeout (`web/broker-api.js:1579`): the old timer clears the
  flag and handler of a request of the new connection, and two are under way at
  once, although all commands go "through a single-inflight request queue" (`lib/dynsec.js:6`):
  `OneInFlight`, refuted under `MCDynsec.cfg`; `AckedTookEffect` excuses who is sent
  behind such a request;
* a timeout after a quick reconnect fails the new probe with the queue: `ready` stays false until
  another command is answered, and services refuse the dynsec mode meanwhile;
* instances of one name on two hosts have one identity (`web/services-api.js:287`):
  rotating or uninstalling one locks the other out;
* leaving dynsec for she's settings deletes the identity before it turns out that
  she has none (`web/services-api.js:370-380`): locked out; a failed rotation too;
* a body without the marker that leaves dynsec hides the identity from
  `applyBrokerMode`, which deletes nothing, and the file forgets it
  (`web/services-api.js:366-375`; `mergeEnv` keeps only what is sent), against
  `doc/services.md:57` and `doc/http-api.md:839` ("leaving `dynsec` deletes client and role"):
  `SwitchDeletes`, refuted under `MCServiceCredentials.cfg`. `NoOrphan` excuses these identities
  by name (`dropped`) and says that no other request leaves one over that neither fails nor
  overlaps;
* an uninstall that cannot read the file, or is cut short, leaves the identity.

## 5. Fairness

Safety runs assume nothing. The liveness properties assume:

* `Converges`: both threads' event loops turn (worker and main handle what is in
  their queues), timers fire (saves, respawn), a dead thread's `'exit'` is
  delivered. Clients are bounded, not fair; saves may fail without end.
* `EventuallyStarts`: time goes on and due timers fire. Nothing is assumed of the
  broker, the network or the controller.
* `Settles`: the poll timer of the watcher fires and `readFile` calls back.
* `Settled` (`Dynsec`): a timer that runs fires. Nothing is assumed of the plugin or
  the connection.
* `Agrees`: the MQTT client reconnects and what is sent on an open connection
  arrives. Clients and faults are bounded, not fair.

## 6. Proofs

`Start_proofs` proves of `StartGate` for every number of topics and connections and every
value of the timeouts, from the assumption `StartGateOK` alone:

* `GateTypeCorrect`: `GateSpec => []GateTypeOK`. One step per action; the operators shared by
  several actions (`StartOnce`, `MaybeStart`, `ConnectWith`) have lemmas of their own.
* `SentinelComplete`: `GateSpec => []SentinelMeansComplete`. The property is not
  inductive: that a sentinel means a complete state depends on the order in which
  the connection carries messages. `IInv` adds `QueueOK`: whatever connection a
  sentinel belongs to, it waits behind all retained topics that are not in the
  store yet, because the broker echoes nothing on a connection before it has
  handled `SUBSCRIBE` and queued them.
* `DeadlineKept`: `GateSpec => []StartsByDeadline`. `TimersOK` says that a closed gate
  always has a timer running that fires in time: the boot timeout, or the timeout
  armed by a connect that took it down (which came before the boot timeout was due), and
  for Matter the controller's timeout. As time does not pass a timer that is due, a gate
  closed after the deadline has none left.

`SheDB_proofs` proves for any documents, views and definitions and all bounds,
from the assumption `ConstantsOK`:

* `TypeCorrect`: `Spec => []TypeOK`, with a lemma for each group of requests and
  handlers and one for what they are built from (`Merge`, `Outcome`, `LoadViews`,
  `Schedule`, the messages).
* `DefsKept`: `Spec => []DefsInSync`. Together with `TypeOK` the property is
  inductive because it speaks of the messages still waiting: the last one that
  touches a view carries its present definition, or none does and the worker has
  it. `DefPosted` is the step that adds such a message, `OthersPosted` one that
  adds others, `DefReceived` the worker's reading of the first, and
  `DefsSentAtStart` the single message a respawned or restarted worker begins with.
* `ReplicaKept`: `Spec => []ReplicaInSync`, along the same argument, from two
  assumptions more. `NoRecreation` says that no listener sets a document again
  while it is deleted, `NoMutation` that no map function writes into its documents.
  Without either the property is false (section 4, "Observed"); the runs take
  constants that meet both. `Untold` is the case of the document that `extend`
  creates and sends to nobody, which `Agree` allows for.
* `FileImplemented`: `Spec => ImplementsDocsFile`, the refinement of `WriteBehind`. By
  `NextFile` every step of `SheDB` is a change, touch, save, failed save or restart of
  the debounced file, or leaves it alone; a touch is what need not be saved, a
  document `extend` created from nothing and a definition that does not compile.
  `NothingUnsaved`, `Spec => []DocsSaved`, follows from the abstract specification alone.
* `ViewsKept`: `Spec => []ViewsCurrent`, from `NoRecreation` and `NoMutation`. The
  property speaks of threads that have settled; the invariant `AllShown` of every
  moment: unless a view is queued, being run, or concerned by a message
  that waits, the last result on its way, or the one that is there if none is, is
  what its definition makes of the worker's documents. With `DefsInSync` and
  `ReplicaInSync` these are the definition and documents of the store.
* `PublishedKept`: `Spec => []PublishedCurrent`, from `NoMutation` and `MaxRestarts = 0`
  (with a restart the property is false, section 4). `AllAnnounced` says that what the store has of a
  view that is to be published was published, and `AllShown` that it is what
  the worker computed.

It proves of `SafeMode` for any number of instances, thresholds and length of the record,
from `SafeModeOK`:

* `TypeCorrect`: `Spec => []TypeOK`; `RecordType` is the lemma that the record with one
  more end, cut to what is kept, is a record.
* `MarkerKept`: `Spec => []MarkerOwned`, from the assumption that instances do not start
  together (`"together" \notin Races`), without which it is false (section 4). The
  property says who wrote the marker that is there, which alone survives no step: an
  instance writes it on the ground of a look some steps ago. `IInv` adds that runs have
  numbers of their own (`RunsApart`), that only one instance is between its look and
  its marker and that nobody has the marker if it found none alive (`OneStarts`), and
  that only an instance that is up has written one (`OwnersUp`).
* `OnlyAfterLoop`: `Spec => []SafeOnlyAfterLoop` and `LoopFound`: `Spec => []LoopDetected`,
  from the assumption that instances neither start together nor are killed while they
  start (`Races = {}`). Either race makes the record differ from what happened: two
  instances record one end, or the next start records it again (section 4). `LoopFound`
  needs `Count <= Keep` too, since a record shorter than the count never decides.
  The two properties compare a decision taken at a start with the killed runs, of which
  the code sees only the marker; so the invariant says how they come together.
  `Pending` is the time between a kill and its record: meanwhile the marker has the
  dead run's start, someone will look in time (`PendingEnd`), and the
  record lacks just that run. Otherwise it holds the last killed runs,
  up to `Keep`, each found within `Downtime` of its end and early if it was found
  early (`Records`, `Fits`). `Places` is what an instance knows of the marker and of
  its own run, `Decided` that its decision was right and still is: a
  healthy run empties both lists, and nobody else can be up with a decision then,
  as a run that found a dead one wrote the marker and has it (`OneOwner`).
  `RecordDecides` is the arithmetic from the times found to the times of the ends.

`Scripts_proofs` proves of `VarSync` for any values and any number of writes, faults and
messages under way, from `VarSyncOK`:

* `VarTypesKept`: `VarSpec => []VarTypeOK`, by way of `Typed`, the same variable by variable.
* `SubscriberKept`: `VarSpec => []SubscriberCurrent`. That the subscription without
  `change` is current follows step by step. For the other the two entries of the
  variable matter, as `setVariable` asks one of them whether the value changed and the
  subscriber follows the other: `OneValue` says that, as long as nothing but clears
  happens, they have one value unless the variable was never written, and every
  status message under way carries it. A write needs nothing to be under way
  (`NoOverlap`), and without a connection there is nothing to differ.

* `LastSetKept`: `VarSpec => []LastSetWins`. `LastOne` follows the write that came last on its
  way: `var::` has it at once, the last publication on its way to the broker carries it,
  and when none is left the broker has it and the last echo under way carries it,
  or the other entry has it.

It proves of `ScriptEngine` for any files, directories, versions and bounds, from
`ScriptEngineOK`:

* `TypeCorrect`: `Spec => []TypeOK`.
* `AllOwned` and `SingleInstance`: `Spec => []Owned`, `Spec => []OneInstance`. `Registered`
  says that, as long as no event came during a read and no callback of an unloaded
  run subscribed, a file that is being read has nothing registered, a loaded one has one
  run, and a callback that would put its timer in the present Set belongs to a loaded
  script. Without the first condition `Owned` is false too: of two reads under way the
  second may find a version that does not compile, and the first one's run stays.
* `LatestRun` and `IneligibleStopped`: `Spec => []LatestRuns`, `Spec => []IneligibleStops`.
  These speak of a watcher that has caught up. `Tracked` says at every moment what it
  still owes a file: what forbids a live file to run is a difference to its last look, a
  loaded file runs its present version or its change is such a difference, and a file
  that may run is live or will be by one. `Apart` is why directory markers do
  not interfere: a library marker or a file's own is not changed in a disabled directory
  unless the race `"nested"` is allowed, of which `raced` keeps record.

`MatterBindings_proofs` proves for any devices, clusters, slots, requests and faults, from
`BindingsOK`:

* `TypeCorrect`: `Spec => []TypeOK`, which includes that no Access Control list overflows.
  `Form` says what a request holds at each place in the code: it has counted the
  subjects before it writes.
* `AlwaysGranted` and `BothHalves`: `Spec => []EntryGranted`, `Spec => []AsAsked`, from the
  assumption `OneListPerNode`, that no node has two Binding lists. Without it
  they are false, as `unbind` asks one list only what may be revoked (section 4). `Lists`
  says that what a request has read of a list it is going to write back is what is
  there, but for its own bindings and for those that are unsettled; `Own` is what a
  request that is alone on its devices has achieved so far; `Private` that requests
  which meet know it and leave unsettled what they want. Each step of a request is first
  summarised (`Act`: what it may write to either list, and how it goes on), then the
  invariant is shown of any step that is such.

`MatterGroups_proofs` proves for any endpoints, groups, limits, requests and faults, requests
that meet on a device included, from `GroupsOK`:

* `TypeCorrect`: `Spec => []TypeOK`. The property also says that a group that exists has a
  number, a key set and a key, and that no two existing groups have one number; for that
  `TInv` adds the form of a request at each place in the code (`Form`, `Whole`) and that
  `groups.enc` differs from memory at most in the status of members (`SavedAs`).
* `NothingIsLeft`: `Spec => []NothingLeft`, with no further assumption. A request finds no
  other on its devices, or both know that they met (`alone` becomes false) and leave
  unsettled what they are about: `Private`. What a request that is alone read of a
  list is what is there, and what it has done so far is done (`Own`); that is the part of
  `ListsInv` about lists. The rest is about members: `AclAgree` and `ListsKept` (a member
  that is settled is in the tables and the grants of its device), `SavedMembers`,
  `DeleteLeft` and `Unlisted` (what a restart during a deletion or a removal reads back).
  As before a step is first summarised: `Act` is what it may write to a device
  and to the store, `GoesOn` and `Carries` what the request has in hand after it, `Ends`
  how it is answered, `Picks` and `Deletes` are the two steps of a deletion between devices.
* `MembersUsable`: `Spec => []MemberUsable`, from `OwnKeys = FALSE`: all groups share the
  one key set (a group made with a key set of its own breaks the property, section 4).
  Keys are what groups share on a device; `KeysKept` and `MapKept` say that
  what a settled member or source needs (`Needs`) is there and survives what requests
  on other devices and for other groups do, `DropOK` that a request which is about to
  remove the key set found nobody who needs it, and `DeadOK` that a request whose group was
  deleted under it does not meet a new group that got the same number.
* `SourcesUsable`: `Spec => []BoundUsable`, from `OwnKeys = FALSE` and `SourcesApart`: no node
  is both a source and a member, or two sources. The code asks only the one
  group's members before it takes a key (`matter/controller.js:1145, 1424`), so without
  `SourcesApart` the property is false (section 4).

`MatterBridge_proofs` proves for any nodes, values, templates, events and faults, from
`BridgeAssumption`:

* `TypeCorrect`: `Spec => []TypeOK`. It says that no two nodes have one name, and that nothing
  is under way without a connection.
* `NamesKept`: `Spec => NameKept`, an action property: every step leaves all names alone,
  adds some, or changes the one `setDevice` names.
* `NothingOutlives` and `CurrentShown`: `Spec => []NothingStale`, `Spec => []Current`, from
  `EarlyStart = FALSE`, that is, the bridge starts after the controller (the 30 s of
  `index.js:874` do not pass before; section 4). Both speak of a moment when all has
  arrived. The invariant speaks of every moment: `Ends(t, v)` says that topic `t`
  will hold `v` once everything under way has arrived, because the last batch
  that names it says so, or none does and the broker holds `v` now. `Cleared`: a topic
  that belongs to no live node ends up empty, unless its template is unsettled; live (`Lives`)
  is what the kind of template lets `_cleanup` tell: a bridged node's MQTT name, a paired
  node's id, or no node at all. `Paid`:
  what the bridge owes the broker (`Owed`) ends up there, or was lost and is not under way
  again. The first needs `Known`, that while she is connected the state store knows every
  retained topic or is about to hear of it, and the second `OneEach`, that no batch says two
  things of a topic. `Named` says that a running bridge has named every paired node
  while it is enabled, so that no publication goes out under a node id where the template has the name. Each event of the controller
  and each operation of the bridge is shown to publish a `Proper` batch: all it shows is
  live, all it found and is no longer live is cleared, all that is newly owed is in it.
  One lemma (`SaysStep`) then carries the invariant over any such step, and three
  over delivery, connection and loss.

`Dynsec_proofs` proves for any requests, commands and bounds, from the module's assumption:

* `TypeCorrect`: `Spec => []TypeOK`. It is inductive with `Busy`, by which nothing waits
  without a request under way that has its timer, and `Waiting`, by which what waits is
  unsettled, unsent and in the queue once.
* `NothingLate`: `Spec => NothingSentLate`, an action property, from the same invariant.
* `AckedKept`: `Spec => []AckedTookEffect`, with no further assumption: timers of before
  `stop` run on while requests of after `init` are under way, and may take their handler
  away. `Paired` says that all that is on its way belongs to the request under way or to
  abandoned ones (settled, or cut off by another's timer), and in the latter case that the
  one under way was sent behind them and is excused.

`ServiceCredentials_proofs` proves for any instances, hosts, names and bounds, from
`CredentialsAssumption`:

* `TypeCorrect`: `Spec => []TypeOK`, with `Shape`, what a request holds at each place.
* `PasswordSafe`: `Spec => PasswordKept`, an action property.
* `LogInKept` and `NoneOrphaned`: `Spec => []CanLogIn`, `Spec => []NoOrphan`. `Sound` says
  that env files and broker agree on an identity of which no request has changed
  anything yet and which none left half done, and that what its requests read is what
  is there. An identity whose marker a body left out is told apart (`dropped`):
  the file forgets it and the instance is none the worse. `Cleanly` says what a request that met no other and saw no failure has
  achieved at each place (`Achieved`), so that they agree again when it ends.
  `Act` summarises a step as above.

The liveness properties (`Converges`, `EventuallyStarts`, `Agrees`, `Settles`, and
`Settled` of `Dynsec`) use fairness and `ENABLED` and stay with TLC, as does `start_gate_ui`,
whose property is false. TLC checked each inductive invariant on the instances of
section 4 before it was proved.

## 7. What is not modelled

PROJECT.json gives the reason for every component. Left out on purpose: the text of prompts,
certificates, configuration files and pages; wildcard matching and
payload formats beyond what the properties tell apart; the matter.js library,
systemd, ssh, git and npm, whose behaviour the code takes as it comes; a disk
that loses a renamed file; the web interface, which is most of the repository's
lines and holds hardly any state of its own. Of the Matter controller commissioning,
reading, writing and invoking are calls into matter.js; scripts' subscriptions and
the pairing dialogue are not modelled. Of services starting, stopping, updating, files
and the inventory are not, being one call to a host each. Thread and device health have been
read and are planned. Components marked "not modelled" with a plan follow in the
order of section 2.
