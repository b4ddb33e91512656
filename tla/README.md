# Verification of the SCDT CTF Archive

TLA+ models of `challd` (the privileged daemon that starts challenge containers),
of `ctf_archive` (the API server: sessions, catalogue, database pool) and of the
protocol between them, TLC runs on small
instances, and TLAPS proofs for all instances. `PROJECT.json` lists components,
runs, the map from definitions to source lines, findings, hazards and theorems.

## The system: inventory

| Part | State it keeps | Operations | Interacts with |
|---|---|---|---|
| Address table (`challd/src/address_manager.rs`) | array of `MAX_INSTANCES` AtomicBools | `take_next_addr`, `relinquish_addr` | shared by all handlers and session tasks |
| Daemon (`main.rs`, `container.rs`, `interface.rs`, `demo.rs`, `dummy_interface.rs`) | TaskTracker, CancellationToken, one chain of tasks per connection | accept, read request, start and end a session, signal, exit | Docker, `ip`, `iptables`, WireGuard, clients |
| Request decoding (`ports.rs`; encoder in `ctf_archive/src/challd.rs`) | none | parse a start request | daemon, API server |
| Configuration text, keys (`wg_config.rs`, `crypto_stuff.rs`) | none | format, generate | daemon |
| Guest codes (`codes.rs`, `guest.rs`) | mutex-protected set, one sleeping task per insertion | generate, redeem, wipe, expire | admin tokens |
| Authentication (`auth.rs`, `jwt.rs`, `state.rs`) | three keys per process | initiate and finish a challenge, check a token | all routes |
| Archive routes (`ctfs.rs`, `categories.rs`, `challenges.rs`, models, schema, migrations) | PostgreSQL tables | create, list, configure, start, demo | database pool, `challd` |
| Server (`main.rs`, `db.rs`) | router, pool | start-up | all routes |

What is hard here:

- *Concurrency.* The table is walked slot by slot without a lock. A connection is
  served by up to four tasks (handler, tracked task, session task, response task);
  only the second is counted by the tracker that shutdown waits for.
- *Partial failure.* A session is six external steps to set up and five to take down;
  most failures are panics that undo nothing.
- *Races.* Timer, cancellation and the end of the container compete in one
  `select!`; a container may end between `start` and `inspect`.
- *Restart.* Kernel and Docker state outlives the process, memory does not.
- *Stale timers.* The task that expires a guest code knows its value only.
- *Two ends of a stream.* A start request has no overall length, arrives in pieces,
  and neither end has a timeout; a disagreement on one field is a mutual wait.
- *A pool held while waiting.* `start` and `host_demo` keep a database connection
  while they wait for `challd`, `set_archive` while it reads an upload.
- *Conversions.* Ports are `u16` in requests, `i16` in two parallel arrays of the
  database and `u16` again on the wire; counts and lengths are cut to `u8`.

What makes each part correct: an address belongs to one session at a time and
returns to the pool after its rule, its peer and its address on the device are gone;
a key leads to its own container while that runs; no session loses what it installed
to another one; finished sessions leave nothing; shutdown ends; every client is
answered; a code is single-use and not immortal; a guest goes back to an admin who
may invite; what an admin configured is what `challd` starts; an answer of `start`
tells whether there is a session; no connection of the pool is lost.

## Modules

| Module | Models | State and actions |
|---|---|---|
| `AddressPool` | what the table promises (abstract) | who holds what, who is in a call, what a caller has seen held |
| `AddressManager` | `address_manager.rs` | one action per `fetch_or` or `store`; `scan[t]` is the loop index + 1, so index and address coincide |
| `AddressManagerProofs` | theorems about the table | |
| `Challd` | the daemon, composed with `AddressManager` by `INSTANCE` | `pc[c]` is the await or call the connection's current task is at; the kernel's and Docker's state are `eth42`, `ips`, `nat`, `peers`, `ctr`, `bridge`; `main` is the progress of `main()` |
| `ChalldProofs`, `ChalldServiceProofs` | theorems about the daemon; that it keeps its promise to clients | |
| `ContainerService` | what the daemon promises its clients (abstract); `Challd` implements it by `StageOf` | a request is open, a session, over, or over with its container left; the reply a client can read |
| `StartProtocol` | `ctf_archive/src/challd.rs` against the handler in `challd/src/main.rs` and `ports.rs` | `client` and `at` are the awaits of the two ends, `sent` and `read` positions in the message, `back` and `taken` the answer |
| `StartProtocolProofs` | theorems about the protocol | |
| `Catalogue` | `ctfs.rs`, `categories.rs`, `challenges.rs`, the migrations | the three tables and their id sequences; one action per writing route, one operator per reading route; `meant` is history |
| `CatalogueProofs` | theorems about the tables | |
| `ApiServer` | the handlers and the pool, composed with `ContainerService` by `INSTANCE` | `at[r]` is the await of a request's handler, `free` the idle connections |
| `ApiServerProofs` | theorems about the pool and the answers | |
| `InMemorySet` | `codes.rs` | the set, the sleeping tasks, a clock |
| `Sessions` | `auth.rs`, `guest.rs`, `jwt.rs`, composed with `InMemorySet` | every token ever issued, the number of the running process (its keys) and, as history, who drew which code and when |
| `SessionsProofs` | theorems about codes and tokens | |
| `MC*` | instances for TLC | |

Operators marked "seeded fault" are mutated forms of the definition after them: a
property is worth checking only if such a fault breaks it. No specification uses
them.

### How `Challd` corresponds to the code

`pc` runs through `backlog`, `reading`, `take`, `spawn` (the handler), `ip_add`,
`create`, `start`, `inspect`, `nat_add`, `peer_add` (the tracked task in
`Container::create` and `add_temp_peer`), `active` (the `select!`), `peer_del`,
`stop`, `nat_del`, `ip_del`, `release` (the session task). It ends in `refused`,
`done`, `panicked` (a panic with no `Container` left to drop), `unstopped` (a
`Container` was dropped with its id in place, so `Drop` asserts) or `dead` (the
process was gone first). A demo skips the steps that need an address.

`Faults` is the set of steps whose external call may fail, named by label, plus
`accept`, `wait` (Docker's wait stream ends with an error) and `crash`. A failing
call has no effect; `stop` that fails leaves the container as it was. `boot` in a
rule or peer tells the present process from an earlier one. Sections without an
await are split where they touch shared state, so the model has more interleavings
than the code, not fewer.

`bridge[c]` is the address that Docker's bridge gave to a container when it started.
Docker may give it to another container as soon as this one has ended (`auto_remove`),
while `Container::create` reads it once and uses it for the rule and for the rule's
removal, so a rule carries the address (`to` in `Entry`), not the container.
`Container::shutdown` has one more panic, of `connect_with_unix` (`container.rs:83`):
it comes before the id is taken, so the assertion of `Drop` fails while the panic
unwinds and the process aborts. That is `Crash`, not a fault of its own.

Abstracted: request bytes (see `StartProtocol`; here a request is valid or refused), image names, keys,
the text of the configuration, logging, and the ports published on the host
(`ports.rs:67`: `10.4.2.addr` for a guest, all addresses for a demo), which belong to
the container as long as it exists. External behaviour is taken
from how the code uses it: `ip addr add` of a present address fails, `iptables -D`
of a missing rule fails, deleting a device deletes its addresses or peers, running
containers have different bridge addresses and Docker fails to start one if none is free,
dropping the tokio runtime drops each task at its await.

### How `ContainerService`, `StartProtocol` and `ApiServer` fit together

The three look at the same exchange from different sides. `ContainerService` says
what a client can observe: a refusal, a broken stream, or a session and then OK. The end
of a request or of a session does not promise the end of its container: a panic, a stop
that Docker refuses, the end of the runtime or of the process leave it with nobody to
stop it (stage `left`; `StageOf` in `Challd` looks at the container). Only a refusal
with a result code promises that there is none.
`Challd` implements it (`ServiceSpec`), with all faults and restarts. `ApiServer`
uses it as its daemon, so what is checked there does not depend on how `challd`
works, only on what it promises; liveness properties of `ApiServer` assume
`Answered`, which `challd_live` checks of `Challd` (`ClientAnswered`). Both treat a
request and an answer as one unit; `StartProtocol` justifies that: whatever pieces
the bytes come in, the two ends agree on what was asked and what was answered.

`StartProtocol` is parameterised by the number `B` of values of a byte, so that
wrapping lengths and counts can be reached: 4 in the run, 256 in the code, any multiple
of 4 in the proofs. A guest code is four bytes and a port two, as in the code. UTF-8
has characters of one and two bytes. Only bytes that `start_container` writes are
considered; the socket is open to the `challd` group only.

`Catalogue` makes each handler one action, because each executes one SQL statement.
Statuses come from the order in which PostgreSQL checks: column lengths, CHECKs,
unique indexes, foreign keys. `ApiServer` leaves the tables out and splits a handler
at its awaits. A handler that is dropped (its HTTP client left) or panics returns its
connection, which is a local.

## Runs

Each run of a module with proofs also checks the inductive invariant `IInv` that the
proofs use (with `TypeOK`; for the daemon in `challd_restart`).

| Run | Bounds | Shows |
|---|---|---|
| `address_manager` | 4 tasks, 3 slots | exclusion, no lost slot, wait-freedom, the pool is implemented |
| `challd_safety` | 3 connections, 2 addresses, 3 bridge addresses, all faults but `stop`, 1 start | `AddressIsFresh`, `NothingForgotten`, `InstanceBound` |
| `challd_restart` | 2 connections, 2 addresses, 2 bridge addresses, all faults, 2 starts | `LeaseCoversNetwork`, `PeerReachesOwnContainer`, `SessionIntact` across restarts; the daemon keeps its promise to clients (`ServiceSpec`) |
| `challd_live` | 2 connections, 1 address, 2 bridge addresses, all faults but `accept`, `stop`, `crash` | `ShutdownCompletes` and `ClientAnswered` without timers; `AddressReturned`, `ContainerDestroyed` if timers elapse |
| `start_protocol` | bytes of 4 values, limit of 3 ports, 36 requests, 2 configurations | what is decoded is what was meant; no mutual wait; refusals have a cause; answers are understood; the client returns |
| `catalogue` | 2 names (symmetric) and one that does not fit, all 7 category types, 1 CTF with 2 categories and 1 challenge or 1 category and 2 challenges, 8 ports, 2 port maps, 2 admins | every challenge can be browsed and is started as configured; idempotence; ids are stable |
| `api_server` | 2 requests of any route, 1 connection, database faults and a crash | connections are conserved, answers tell the truth about sessions, requests end (those that need the daemon if it answers) |
| `sessions` | 2 codes, 2 sleeping tasks, 5 ticks of 15 minutes, 3 tokens, 2 starts | codes are single-use and expire, permissions are traced to the table |

Why the bounds are enough: three connections for two addresses give contention,
`BUSY` and reuse of a slot a predecessor has freed or leaked; two starts give every
relation between an old and a new process. There is a bridge address for each
container, and one that was given up is given again, so a rule can outlast its
container's claim to it; the runs that look for a violation have one connection and
one bridge address. In `start_protocol` the numbers of ports
are 0, 1, one less than the limit, the limit, and two that wrap (to 0 and to 1);
names are empty, of one byte and with a character of two bytes; configurations need
one and two bytes of length; every cut of the message into pieces is tried. In
`catalogue` every category type is stored and read back; two categories, or two
challenges, give every clash of names and of images (`MaxDrawn` bounds the ids drawn
altogether, the ids of failed inserts included); the ports lie on both sides of the sign bit. In `api_server` one connection for two
requests means that each can keep the other waiting; a failing database never
becomes fair. In `sessions`, codes and admin tokens live two ticks of five and the
clock tolerance is one, the ratios of the code, so a number can be drawn again while
the task of its first draw sleeps, and a token can outlive its session bound or a
restart. Connections, and bridge addresses, are interchangeable, so `challd_safety` uses symmetry. Deadlock
is not checked: a daemon that was stopped, a bounded clock, a finished request or an
exhausted id sequence may stop; mutual waits are excluded by `NeverStarved` and the
liveness properties instead.

Disagreements between the code and what the repository says of it are runs that TLC
must refute (`findings` in `PROJECT.json`):

| Run | Refuted | Why |
|---|---|---|
| `challd_untracked` | `GracefulShutdown` | the handler is not tracked |
| `challd_crash_restart` | `RestartServes` | `eth42` is left behind and asserted absent |
| `catalogue_ports` | `TooManyPortsRefused` | the CHECK uses `array_length(.., 0)`, which is NULL |
| `catalogue_missing` | `MissingIsNotFound` | an UPDATE of no row is a success |

Others are part of the models without a run of their own:

- an error of `remove_peer` skips the cleanup, so the `Container` is dropped unstopped
  and its assertion fails (`interface.rs:106`; label `unstopped` in `Challd`);
- an error of `stop_container` is only logged, and the slot goes to the next guest
  while the container may run on (`container.rs:94`), still published on the address
  that is now another guest's; so `LeaseCoversNetwork` speaks of rule, peer and address
  on `eth42` only;
- a container that ends by itself gives its bridge address back at once, while its peer
  and rule stay until the session task has seen the end of the wait stream and has run
  its cleanup, or for ever if that task panics; until then the guest's key leads to
  whichever container has the address next (`container.rs:61`, `InspectContainer`).
  `PeerReachesOwnContainer` is therefore stated for the time in which the container runs;
- if a task of `challd` panics after `start_container` of Docker, or `challd` dies, the
  archive reports an error while the container (with rule and peer, or a demo on all
  addresses) runs on (stage `left`; the second case of `AnswerTellsSession`);
- a DNAT rule left by an earlier process precedes that of a new session on the same
  address (`container.rs:63`; `boot` in `Entry`);
- one error of `accept()` disables the accept branch of `select!` (`AcceptFails`);
- `get_metadata` returns the id of the challenge as its `category_id`
  (`challenges.rs:117`; `GetMetadata`);
- the name of a category is unique over all CTFs, not "in this CTF"
  (`categories.rs:133`; `CreateCategoryStatus`); a CTF that ends before it starts is
  answered INTERNAL_SERVER_ERROR and a date that is no day resets the connection;
- with 256 or more ports, which the database accepts, `challd` reads a number that has
  wrapped and starts the challenge with the first of them only, or the archive reports
  an error although the session runs (the exceptions in `DecodedAsMeant` and
  `AnswerUnderstood`).

### Fairness

`AddressManager`: a walk has no await, so its thread finishes it (weak fairness of
each task's probe). `Challd`: tokio runs every runnable task, external commands
return (they may fail), and a client sends its request at once or goes away, as
`start_container` does; so weak fairness of each connection's steps, of `Accept`, of
the response and of `main`. `FairSpec` assumes nothing of session timers; the properties
that need them say so (`Timers =>`); `RestartSpec` adds them and that systemd restarts
the unit. `StartProtocol`: each end goes on while it can; neither is assumed to go
away. `ApiServer`: the handlers run, the pool's timer elapses and the database answers
(weak fairness of `ServerStep`); nothing is assumed of the daemon or of uploads, and
`RequestEnds` names what it needs of both. `Catalogue` has safety
properties only. Failures, clients, signals, crashes and containers that end get no fairness. `Sessions`: time
passes and tokio wakes sleeping tasks.

## Proofs

Checked by `tlapm` for every value of the constants. Every safety property of a passing
run is stated by a theorem, and so are the refinements and the action properties; each
component's theorems rest on one inductive invariant, `IInv`, whose parts are defined and
named in the component's module.

*`AddressManagerProofs`*, from `MAX_INSTANCES \in Nat \ {0}`. `IInv` adds to exclusion
that a slot is marked exactly while it is held and that nobody holds an address
inside a call. Exclusion alone is not inductive: a probe that finds a slot unmarked
must know that nobody holds it. `ImplementsPool` maps the walk's position to the set
of addresses the caller has seen held, so that `None` is justified although there
need be no moment at which all addresses are held.

*`ChalldProofs`*, from `ChalldAssumption` (sizes are naturals, `Faults` names steps).
`UsesTable` shows that each step of the daemon is a step of the table or none, so the
table's invariant carries over through `INSTANCE AddressManagerProofs`. The rest of
`IInv` says label by label which address, rule, peer and container a connection has:
that nothing is installed without its connection (`IpsCovered`, `RulesCovered`,
`PeersCovered`), from which `LeaseCoversNetwork`, `AddressIsFresh` and `NothingForgotten`
follow, and that what was installed is still there (`RuleInstalled`, `NetworkInstalled`),
from which `SessionIntact` follows. `BridgeCovered` says that running containers have
different bridge addresses and that a rule keeps the one its connection read; it is what
`PeerReachesOwnContainer` needs, since Docker gives addresses again.

*`ChalldServiceProofs`*. `ImplementsService` (`Spec => ServiceSpec`) goes action by action:
a step that decides a request or ends a session is a step of `ContainerService`, the
three ways in which the process ends are `Fall`, all others stutter. `ReplyFollowsLabel`
(a client is answered exactly if its request was decided) is the part of `IInv` it needs for
the answers, `ContainerFollowsLabel` for refusals, behind which no container is left.
`SpecInstanceBound` counts: a guest whose container exists holds an address
(`ModeFollowsLabel`), addresses are exclusive, so the guests inject into `1..MAX_INSTANCES`.
Its hypotheses are those of the property: one process (`MaxBoots <= 1`) and a Docker that
can stop containers (`"stop" \notin Faults`); without either, a container
that ran on after its address was returned, or that an earlier process left, comes on top.

*`ApiServerProofs`*, from `ApiServerAssumption`. `PoolConserved` carries itself, given that
the handlers that hold a connection are finitely many: each action adds one to, or takes
one from, both sides. `AnswerTellsSession` does not: while a handler awaits its answer the
daemon moves, so `DaemonFollowsHandler` records what a reply says about the session.
With `ImplementsService`, what is proved of the server needs nothing else of the daemon.

*`SessionsProofs`*, from `SessionsAssumption`. `TokensHonest` says what the signer put into a
token, because a token is presented long after it was signed (`AdminSessionBounded`);
`LatestTimerSleeps` says that the task of the latest draw sleeps, since tasks of earlier
draws of the same number may wake at any moment (`CodeHasTimer`, `EarlyOnlyIfRepeated`).
`SingleUse` and `NoUninvitedGuest` are inductive together with these.

*`CatalogueProofs`*, from `CatalogueAssumption` and `NullAssumption` (`NULL` is none of the
values it is told apart from). `KeysHold` (foreign keys) gives `Browsable`, `ImagesDiffer`
(the UNIQUE column) gives `Repeatable`, and `ColumnsEncode` (the two arrays were written
in one enumeration of the port map) gives `StartsAsConfigured` with the lemma
`PortRoundTrip`: `AsU16` undoes `AsI16` for every even port space. `IdentityKept` is an
action property: an id is drawn above all ids in use, and no UPDATE names the columns.

*`StartProtocolProofs`*, from `StartProtocolAssumption` (a byte has a multiple of four
values, a name is shorter than a byte can count, a configuration than a `u16`, ports are
distinct). No property says where the reader stands while it decodes, so none is
inductive. `IInv` gives for each await of the handler its position in the message
(`ReadFollowsLabel`), the fields decoded by then (`GotFollowsLabel`), the part of the
answer that is out (`BackFollowsLabel`), and ties the client to them (`ClientInStep`). The
lemmas below it are about the encoding: `LeRoundTrip16` and `LeRoundTrip32` (numbers
survive their bytes), `Layout` (where each field of a message lies), `ReplyLayout` (the
same for the answer). `FieldAwaited` puts them together: the bytes after the reader's position
are the field it awaits, and the message does not end within it. The bytes of the
ports are given by position (`PortsBytes`), so no induction over the sequence is needed.

Only model-checked: liveness, since fairness and `ENABLED` are outside the prover
(`TakeReturns`, `ShutdownCompletes`, `ClientAnswered`, `AddressReturned`,
`ContainerDestroyed`, `CodesExpire`, `ClientReturns`, `PlainEnds`, `RequestEnds`), and the four
runs that TLC refutes.

## Not modelled

- The text of the WireGuard configuration, key generation and JWT cryptography: no
  state, and nothing the properties tell apart.
- CORS, the OpenAPI description, migrations at start-up, the front end, nginx and the
  NixOS configuration apart from the restart of the unit.
- Base64 and malformed signatures in `auth.rs`: answers that change no state.
- Descriptions, difficulties and over-long flags or instructions in `challenges.rs`:
  a failing INSERT or UPDATE like that of an over-long name.
- Bytes on the socket that `start_container` does not write.
- Ports published on the host, and DNAT rules of an earlier process, which match before
  those of the running one.

## Plan

Done: all modules of the plan, their runs, and a theorem for every safety property, action
property and refinement that a run checks. What is left:

1. Theorems that join components: the guarantees of `StartProtocol` and `ContainerService`
   speak of the same exchange, and only `ApiServer` is composed with its daemon by
   `INSTANCE` and proof.
2. Safety facts that have no run of their own: that a panicked task keeps its slot until
   the process ends, and that a rule of an earlier process is never removed.
3. Shorter proofs in `StartProtocolProofs`, the longest of the project.
