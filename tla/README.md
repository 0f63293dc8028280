# Wind engine: verification project

TLA+ models of the concurrent and distributed parts of the Wind engine, the TLC runs that check them on small
instances, and TLAPS proofs. Every definition is written from the C++ in `src/`; PROJECT.json names the lines each one
stands for. Run from this directory:

    tlc -workers 2 -config MCJobSystem.cfg MCJobSystem      # any run of PROJECT.json
    tlapm Replication_proof.tla                             # any of the *_proof modules

Contents: [inventory](#inventory), [modules](#modules-and-how-they-correspond-to-the-code),
[runs](#runs-bounds-and-what-they-show), [fairness](#fairness), [findings](#findings), [proofs](#proofs),
[left out](#not-modelled), [plan](#plan).

## Inventory

The engine is a C++ library: a host (`Engine`, `EngineHost`, `ServerHost`) builds the services and a game loop runs
frames on the main thread. Almost all of it is single-threaded and synchronous; what is hard to get right lies in
four places: threads under a main thread that must never be surprised by them (jobs, HTTP, processes, CLI), state
shared over a network that loses and reorders (replication, inputs, payloads), both together with objects whose
lifetime ends in between (calls that are dropped, modules that are unloaded, peers that leave), and callbacks that
re-enter.

| Component | State | Operations | Talks to | What is hard |
| --- | --- | --- | --- | --- |
| Job system (`src/core/job_*.cpp`) | an ordered set of queued jobs, the running and finished lists, one batch, one mutex, three condition variables, a state per call | `submit`, `cancel`, `take`, `set_priority`, `poll`, `wait_idle`, `cancel_all`, `stop`, `parallel_for`; the worker loop | the game (functions it submits), the loop (`poll`), the editor (module unload after `cancel_all`) | interleavings, destruction of what a job captured, wakeups, ranges claimed after the caller left |
| HTTP (`src/net/http_*.cpp`, `winhttp_session.cpp`) | a state per call shared with a worker, the pool's queue, the completion queue, the list of live calls | `send`, `take`, `cancel`, `poll`, `dispose`; a blocking transfer per worker | the game's sinks on either thread, the platform's handles | a cancel at every point of a transfer, back-pressure, closing a handle once, a result that overtakes its body |
| Replication (`peer_ghosts`, `snapshot_codec`, `snapshot_buffer`) | per peer a table of ghosts and of snapshots sent; on the client a base state, a window of deltas and derived states | `build` per send tick, `acknowledge`, `insert` | capture of the world, relevance, the transport, the interpolated client world | loss, reordering, duplicates, deltas against what was only perhaps received, a byte budget, removals, parents |
| Inputs and prediction (`input_buffer`, `prediction.h`, `input_lead`) | on the server a buffer of future inputs per entity; on the client a ring of inputs and predicted states | `insert`, `take`; `reconcile`, `predict`, `inputs` | the fixed step on both sides, snapshots | late, repeated, overlapping inputs; replay over a ring that wraps; jumps |
| Payloads (`payload_queue`, `payload_assembler`) | per peer a queue with progress and age; on the client the unfinished parts | `send_payload`, `cancel_payload`, `set_payload_priority`, pump; `begin`, `fragment`, `cancel`, ack | the ordered stream of a transport that may refuse, bandwidth credit | preemption at fragment boundaries, cancels and acks that cross, limits, lost connections |
| Server and client glue (`net_server.cpp`, `net_client.cpp`) | peers, credit, entities by network id, the render clock | the handlers of each message, welcome, the send and receive systems | all of the above | order of connection events and data, credit split between snapshots and payloads |
| Transports (`loopback_*`, `gns_*`, `steam_transport`) | event queue, maps of peers and connections | `start_server`, `connect`, `disconnect`, `stop`, `send`, `poll_events` | the library's callbacks, the glue | events out of order with data, an old connection that closes late, closing locally |
| Processes (`src/process`) | per child its reader thread, exit code and state | `run`, `poll`, `cancel`, `dispose` | the operating system | the last lines against the exit, joining a reader, what outlives a child |
| CLI server (`src/cli/cli_server.cpp`) | a list of requests, a socket thread | accept and wait; `begin_frame`, `drain`, `stop` | the frame, the UI | time-outs that race answers, requests over several frames, stop |
| File dialogs (`file_dialog_call.cpp`) | a state per call, a completion queue | open, `take`, `cancel`, deliver | the platform's callback | answers after a cancel |
| Host and loop (`game_loop`, `frame_step`, `worlds`, `*_host`, `shutdown_signal`) | worlds, clocks, windows, hooks | `tick`, `reentrant_tick`, start and stop | everything polled once a frame | frames nested in the event poll, worlds destroyed by hooks, order of shutdown |
| Client's replicated world (`net_client.cpp`, `replication_registry.cpp`) | an entity per network id, what was applied to it, whether it is predicted | spawn, components, despawn each frame; reconcile each step; `forget_server` | the snapshot buffer, the hierarchy, the game that destroys | records applied one by one to a hierarchy that refuses some of them, two clocks: the interpolated past and the newest snapshot |
| ECS (`src/ecs`) | worlds, `Parent` / `Children`, events | `set_parent`, `clear_parent`, destroy, systems | everything | cycles and depth of hierarchies, cascades of destroy, events lost on a flush |
| Physics, render, UI, resources, audio, haptics, capture, localisation, project files, editor, tools | | | | numerics, parsing, layout and devices, sequential; see [left out](#not-modelled) |

What makes each of the modelled components correct:

- **Jobs.** A slot is destroyed exactly once and never under a running function; `cancel_all` returns only when no code
  of a submitter can run any more; each range of a `parallel_for` runs once and inside the call; order of priorities;
  no lost wakeup; every call returns.
- **HTTP.** A sink sees the whole body, in order, before the result, and nothing after `cancel` returned; a handle is
  closed once; a call is pending, then resolved or cancelled, never both; nobody waits for ever.
- **Replication.** Every state the client derives is the one the server meant, whatever was lost; when the server has
  nothing left to send the client is up to date; the budget delays but does not starve.
- **Prediction.** Each server tick runs once with the right input; the client's present is the server's state plus its
  own inputs; what it could not collect it guesses as the server does and never sends.
- **Replicated world.** Whatever the server does to entities and their parents from one snapshot to the next, the client's world
  becomes what the server says, and is a forest all the way.
- **Payloads.** Byte counts of both ends agree, a payload is handled once and reported only then, memory of a part is
  given back, priorities age.
- **Sessions.** The peers of a server are its connections; a client knows it is welcomed exactly while that connection lives,
  and one that connects is welcomed or hears the end, whatever the transport's callbacks and polls do in between.
- **Host.** A frame nested in the poll takes nothing from the frame around it; an asked-for end comes, with every thread joined and
  every child gone.
- **Processes and dialogs.** The contract of a call; every line before the result, none after it or after a cancel.
- **CLI server.** Each request runs once at most, and what its client is told of it is so, however frames, time-outs and stop
  interleave.

## Modules and how they correspond to the code

Every module declares the state of its component as variables named after the fields of the code, and has one action per
operation, handler or critical section. A definition called `... Mutant ...` in its comment is not part of the
specification: it is a plausible mistake, kept beside the definition it would replace, that one of the properties
catches (PROJECT.json `mutants`).

| Module | Models | Extends or instantiates |
| --- | --- | --- |
| `JobSystem` | the worker pool | |
| `JobSystem_proof` | theorems about it: jobs, then `parallel_for` and notifications | `JobSystem` |
| `SnapshotCodec` | states, deltas, `apply_snapshot` | |
| `PeerGhosts` | one peer's table, `build`, `acknowledge`, as operators | `SnapshotCodec` |
| `SnapshotBuffer` | the client's window, `insert`, as operators | `SnapshotCodec` |
| `Replication` | server, network and client of one peer | `PeerGhosts`, `SnapshotBuffer` |
| `Replication_proof` | theorems about it | `Replication` |
| `Payloads` | `PayloadQueue`s, owners, `PayloadAssembler`s, the connections between | |
| `Payloads_proof` | theorems about it | `Payloads` |
| `Prediction` | `InputBuffer`, `Prediction`, the simulation, the messages between | |
| `Prediction_proof` | theorems about it | `Prediction` |
| `Hierarchy` | `Parent` and `Children`: `set_parent`, `clear_parent`, the cascade of destroy, as operators on a world | |
| `ClientWorld` | the replicated entities in a client's world | `Hierarchy` |
| `NetClient` | a client: what it predicts and its world | `Prediction`, `ClientWorld` |
| `NetClient_proof` | theorems about its world | `NetClient`, `Prediction_proof` |
| `CallContract` | abstract: what a call promises its holder | |
| `HttpCalls` | calls, worker pool, transfers, sinks, `poll`, `dispose` | `CallContract` (refinement) |
| `HttpCalls_proof` | theorems about it, the refinement among them | `HttpCalls` |
| `Sessions` | the transport over GameNetworkingSockets, `NetServer` and `NetClient` as far as connections begin and end | |
| `Sessions_proof` | theorems about it | `Sessions` |
| `Processes` | `ProcessLauncher`, its calls and reader threads, the children | `CallContract` (refinement) |
| `FileDialogs` | dialog calls, the platform's callback, the completion queue | `CallContract` (refinement) |
| `CliServer` | wind-cli's server: socket thread, queue, the passes of a frame, stop | |
| `Host` | the main loop: frame, nested frame, worlds, events, hooks, shutdown | `Processes`, `CliServer`, `FileDialogs` |
| `Host_proof` | theorems about it and the three it extends, two refinements among them | `Host` |
| `MC*` | small instances for TLC | the module of the name |

**JobSystem.** One mutex guards everything, so a critical section is one action. The code between two sections is a label
of `pc`: a function running (`running`), the destructor of a slot outside the lock (`destroy`), a notification sent
after the unlock (`notify`, `stop_notify`, `pf_notify`), a wait (`asleep`, `idle_asleep`, `done_asleep`). A worker that
ends `run_one` holds the mutex until it has looked at the wait predicate again (`locked`), as `std::unique_lock` does in the
loop of the code. `wake.notify_one` wakes any one sleeper, which may be the wrong one, and `SpuriousWakeup` wakes
anybody: lost wakeups would be visible. `parallel_for` is `Publish`, the same `ClaimRange`, `RangeReturns`, `SignalDone` for
workers and caller, `DoneCheck` and `ClearBatch`; a worker takes the batch (`SeeBatch`) with the shared pointer and may still
claim from it when the caller has long returned. Job functions do nothing the pool can see, and API calls come from
`Main` only, as the asserts of the code demand. `destroyed` and `visits` are history.

**SnapshotCodec, PeerGhosts, SnapshotBuffer, Replication.** A state of the world as a peer sees it is a function from
network ids to owner and slots; a delta is removals and records. `PeerGhosts` follows `PeerGhosts::build` pass by pass:
`Brought` (what left, came back, is new), `Candidates`, `Selection` (all of it when it fits; else the mandatory
entities, the top of the accumulated order even if too large, removals least recently listed first, the rest as it
fits, each with its unwritten ancestors), `dirty_write` and `commit_write`. `is_clean` compares the values; the code
compares the shared pointers to them (`peer_ghosts.cpp:40`), which the capture reuses while the values stay (`snapshot_codec.cpp:73`), so
the two differ only when a value changed and came back without a send in between: the code then makes the entity a candidate that has no slot to
write, which takes its place in order and budget as any candidate does. `StateAt` is a recursive function over ticks; the code
caches the same states and derives later ones anew when a late snapshot is inserted. `Replication` puts the two ends
on a network that keeps every message for ever, so any may arrive late, twice, or never. Ticks count sends; each send sees
any of `Views`, so the world between two sends may change arbitrarily.

**Payloads.** A fragment carries one unit of data; a payload of size 0, 1 or 2 covers the empty one, the one that is whole
with its begin, and the one that can be interrupted. `Send(n)` serves every peer in one tick, with `n[p]` messages that
credit and backlog let through; `down` and `up` are the ordered streams; `Refusable` names what the
transport may refuse besides fragments. A lost connection empties both streams, and each side learns of it later and on its own.

**Prediction.** The entity's state is the sequence of inputs it was stepped with: two states are equal only
when the same inputs led to them, so a comparison in `reconcile` is as sharp as it can be. `ring` is indexed modulo `Ring` as
in the code, with entries that survive from earlier rounds. A server tick runs after the messages polled before it;
a client tick is reconcile, predict, store, send, in the order of the systems.

**Hierarchy, ClientWorld, NetClient.** A world is who is alive, each entity's `Parent` and each one's `Children`; the operators follow
`set_parent` with its walk up, its `height_of` and its early returns, and `destroy_immediate` with its cascade. In `ClientWorld` a state says of
each entity it has its parent, and snapshots bring any of `Samples`. `Interpolate` is the whole of `run_net_client_interpolate`: it takes the state the render
tick has come to, makes what is missing, puts the parents on in the order of ids (`Placed`, by `InOrder`), and destroys what is gone; `Predict` applies the newest
snapshot to what the client owns, once. `set_parent` may refuse at any of these, and a destroy takes what hangs below. A network id stands for the entity made
last for it. In `NetClient` the inputs and the world move in different behaviours unless `Both`: they share only the arrival of a snapshot.

**HttpCalls, CallContract.** Each worker walks through a blocking transfer; between any two of its steps the main thread may
send, take, cancel, poll or dispose. `Abort` is the second half of `cancel`, after the flag is set; a cancel waits for a sink that is
running on the worker. Waiting on a condition variable is a guard, because in this code each change of a condition is followed by a
notification under its mutex. `StatusOf` maps the shared state and the holder to the status of `CallContract`,
and `KeepsContract` says that every step is one of the contract or a stutter.

**Sessions.** A connection has two ends (`near` the client's, `far` the server's), which the library opens, loses and
closes in its own time; what it tells an end waits in `calls` for the callbacks of that end's poll. The maps, `client_conn_`
(`link`) and the event queue are the fields of `GnsBaseTransport`, and `at` is the pass of `poll_events` an end is in: callbacks, messages,
queued events. `batch` is what a pass still hands over, one `NetServer` or `NetClient` handler at a time, and the library may step in between.
A client has a SteamID for all its connections or a new PeerId for each. `kicked` and `orphaned` are history: connections
the server's game closed, and connections that were given up when another one of the same client ended (see [findings](#findings)).

**Processes, FileDialogs, CliServer, Host.** `Host` is one main thread and the threads around it. Its `outer` and `nested` stages are the
calls of `GameLoop::tick` and `reentrant_tick` in order; a stage that loops over children or requests (`Calling`, `Dispatches`,
shutdown) takes one of them per step, so that readers, socket and children step in between. `Processes` keeps lines as counts: `wrote` by the
child, `unread` in the pipe, `incoming` under the mutex of the call, `output` in the call; `pipe` is who holds its write end: the program, what it left
in its group, or a straggler that left the group. In `CliServer` a request goes with the last reference to it (`Freed`); `executed`,
`painted` and `pixels` record what the engine did for it: a profile is executed in each frame until it has an answer and counts once, and a click
is painted when `draw_all` ran after it, with its window shown or hidden. An event of a world is in one of two buffers, which only `tick` swaps; `heard`
and `lost` record whether the systems of an outer frame had their turn with it before it was dropped. A frame that is paused, or in which no
fixed step is due, leaves some of them out (`frame_step.cpp:33`); that is the same with and without nested frames, and counts as their turn.

## Runs, bounds and what they show

All runs finish; counts are distinct states. The named bounds are constants of the modules, and nothing else is capped.

| Run | States | Bounds | Shows |
| --- | --- | --- | --- |
| `jobs` | 1.15 M | 3 workers, 2 jobs, priorities 0 and 1, one batch of 2 ranges | `SlotOnce`, `RangesOnce`, `NoLostWakeup`, `CancelAllIsFinal`, `CancelledStaysOut`, `PriorityOrder` |
| `jobs_live` | 244 k | 2 workers, 2 jobs, 1 priority, one batch | `ForkJoinHasWorker`, and `CallsReturn`, `QueuedLeaves`, `NoLeak` under fairness |
| `replication` | 406 k | 1 entity, 1 slot, 2 values, window 3, 5 sends | types and `ExactStates`, `NeverRefused`, `Synced`, `OneRoundTrip` |
| `replication_budget` | 238 k | parent and child, changing owners, budget of one record, 4 sends | `NoZombie`, `WaitIsBounded`, `NewChildBringsParent` |
| `payloads` | 125 k | 2 peers, 2 payloads of size 0 to 2, 2 priorities, a client's limit of two fragments, acknowledgements refused | `OwnersMatch` (with types), `EventsAreTrue`, `PartsAreFreed`, `BytesAddUp`, `AgesPast`, and `PayloadsLeave` under fairness |
| `payloads_cancel` | | 1 peer, 1 payload, cancels refused | violation |
| `prediction` | 309 k | inputs: ring of 4, 5 server ticks, 8 client ticks, 2 inputs; world: 3 entities in any forest and one below, 1 predicted, 1 destroyed by the game | types and `TicksRunTheirInput`, `PredictionIsTrue`, `PresentIsReplay`, `StandInsAreGuesses`, and `Settles` (with types) under fairness |
| `world_reparent` | | 3 entities in any forest | violation: [findings](#findings) |
| `http` | 535 k | 2 calls (one sink on each thread), 1 worker, bodies of up to 2 chunks, queue of 1 | types and `SinkSeesBody`, `ClosedOnce`, `SilentAfterCancel`, `KeepsContract`, and `Ends` under fairness |
| `http_handle` | | 1 call of one chunk | violation |
| `sessions` | 851 k | a client that connects twice, with or without a SteamID, and a server that may stop | `PeersAreConnected` (with types), `WelcomedUntilTheEnd`, and `Joined` under fairness |
| `host` | 215 k | 2 requests of any of six kinds, 1 process of up to 2 lines, 1 dialog, 1 world | `NestingIsSafe`, `AnswersAreTrue`, `CallsKeepContract`, and `QuitEnds` under fairness |

Why the bounds are enough to see the interesting cases:

- `jobs`: `job_cap` is the number of workers less one, so three workers run two jobs at once and keep one thread for the
  batch; two jobs suffice for an order, for a cancel of one beside another, and for the wrong worker to be woken.
  `MaxBatches = 1` still lets a worker see a batch after its caller left. The proofs have none of these bounds.
- `replication`: a window of 3 against 5 sends makes snapshots leave the window on both ends while
  acknowledgements for them are under way, an entity go, come back and go again, and a value change and change back. `MaxEntries`
  (the message's 16-bit counts) never cuts at these sizes.
- `replication_budget`: a budget of one record with a child larger than that makes every entity and every removal wait
  its turn. `Window = 2`; `MaxWeight = 2` bounds the accumulators.
- `payloads`: two payloads per peer preempt each other between fragments; ages go up to `MaxTick`, past the range of priorities
  times `Aging`, after which `now` stands still (and `AgesPast` is not asked).
- `prediction`: the ring of 4 wraps twice, `MaxAhead` and `MaxJump` of one put the client before, at and beyond one
  ring ahead of the server's state; `MaxLead = 2` drops inputs that come too early.
- `prediction`, the world: three entities make every swap, chain and cycle in the way of another parent; depth binds when a fourth hangs
  below (`TooDeepFirst`), with `MaxDepth = 2` for the code's 32. One snapshot ahead of the render tick is enough, as any two
  states may follow each other and the newest one may be skipped to or not. One parent may be an entity that is not replicated. `Both = FALSE` adds the two
  state spaces instead of multiplying them.
- `http`: one chunk more than the queue holds makes back-pressure real, and one worker makes a second call wait for the first.

- `payloads`, the client's limit: `Limit = 2` and `MaxOpen = 2` make two payloads together too much for the client, which then
  refuses and disconnects.
- `sessions`: `MaxConns = 2` is one connection and the one after it, which is what every mistake with old connections needs. One client suffices:
  two clients share nothing on the server but the maps' domains.
- `host`: two requests are one being served and one abandoned that is still in the queue; frames repeat without bound, and so
  do kinds, worlds and requests. `MaxLines = 2` lets a line arrive in a poll before the one with the result. `Mixed = FALSE` keeps requests,
  process calls and dialogs to behaviours of their own, as they share only the order of the frame; with TRUE a run is more than
  forty times larger.

Deadlock is checked where the system cannot stop of its own, which is every passing run but `host`, whose loop may end: the other models
end in stuttering handlers, copies of messages, or calls that remain possible.

## Fairness

Only the liveness properties assume any, weak fairness but for one action of `Host`:

- `JobSystem!FairSpec`: each thread runs when it can, and so job functions, range functions and destructors return. That is the
  operating system's scheduler and a documented demand on functions (cancellation is cooperative). `Main` makes no call it
  does not want to; `QueuedLeaves` therefore asks for workers.
- `Payloads!FairSpec`: both sides poll on every fixed step, and a peer with something to send is served again and again:
  the send system pays its credit every tick and the transport drains. A client that saw a malformed message disconnects
  (`LinkDrops` once `refused`, in `run_net_client_receive`). Nothing is assumed of other drops, cancels, new priorities.
- `NetClient!NetClientSpec`: snapshots keep coming, so one of those that repeat the newest state arrives again and again; every frame interpolates and
  every fixed step predicts (both are systems of the loop). `Settles` asks for nothing while the server's state changes.
- `HttpCalls!FairSpec`: workers run, blocking calls return (`WinHttpSetTimeouts` bounds each) and so do sinks, the game polls
  each frame.
  `Take`, `Cancel` and `Dispose` are never forced.
- `Sessions!FairSpec`: both sides poll and their polls end, the library makes the connections it was asked for and reports to
  each end what the other end closed (`Hears`: its keep-alive time-out). It never has to lose a connection by itself, and the game never has to act.
- `Host!FairSpec`: the main thread runs; a thread that waits for a request wakes by its five seconds, and the accept loop by its `select`; readers
  run; the system kills what it was told to kill. `PollReturns` has strong fairness: in the poll a modal loop may nest
  frames again and again, and a user who drags a window lets go sometime. Clients need not speak and children need not end: `QuitEnds`
  excepts a client that says nothing (`recv` has no time limit) and a straggler out of reach.

## Findings

Three sentences of the repository that the code does not keep; each is a run of its own that must fail.
Further disagreements, met while modelling, follow them.

1. `world_reparent`: a comment in `net_client.cpp` (line 416) and Net.md (line 324) say that despawns come last so that a child reparented away
   in the same snapshot is not destroyed with its old parent. Records are applied in the order of ids, and `set_parent` refuses a cycle: when 3 hangs below 2
   and 2 below 1, and in the next state 1 is gone and 2 hangs below 3, the record of 2 comes first and is refused. Then the despawn of 1 takes 2 along,
   and the next frame makes another entity for it. `Settles` states what does hold: the world comes out right a few frames later.
   `ReparentThenDestroyOldParentKeepsChild` tests the case in which the new parent is free.
2. `payloads_cancel`: Net.md (line 309) says a payload partly sent is followed by `PayloadCancel` so that the client frees
   its part. `PayloadQueue::cancel` (`payload_queue.cpp:42`) ignores a refusal of that message and erases the item, so the part
   stays, counted against `max_payload_bytes`, until the connection ends. `PartsAreFreed` holds in `payloads`, where
   the transport takes the cancel.
3. `http_handle`: a comment in `winhttp_session.cpp` (line 111) says every WinHTTP call checks `cancelled` first, as the handle
   must not be used once a cancel closed it. `WinHttpReadData` (line 196) follows `WinHttpQueryDataAvailable`
   without a check; and a check before a call, with no lock over it, would only narrow the window. `ClosedOnce` does hold.

What the passing properties have to except, each a place where the code does less than a sentence of the repository says:

- Net.md (line 261) says a new child goes out in the same snapshot as any ancestor never written. `PeerGhosts::build` walks up the parents only for
  the entities that wait their turn; those a predicting peer owns are selected at `peer_ghosts.cpp:172` without it. Over budget
  such a child goes out alone, and the client places it without its parent until the parent's turn. `NewChildBringsParent` excepts it.
- A `Parent` that is not replicated is not applied (Net.md:186), which leaves the old one in place: the entity stays below a parent it left, is destroyed
  with it, and may be in the way of a replicated `Parent` for ever (a cycle). `Settles` compares parents only in states without such an entity.
- A predicted entity that moves to a parent still to be spawned at the render tick: the frame that spawns the parent skips it, as it is predicted, and its
  old parent's despawn may take it along. It is made again in the next frame; `Settles` holds, `KeptByNewParent` would not.
- A client that disconnects and connects again before it polls may read the new `Welcome` before the queued `Disconnected` of the old
  connection, which then ends the new session: `welcomed()` is not "true between an accepted Welcome and the end of the
  connection" (`net_client.h`). `WelcomedUntilTheEnd` and `Joined` except those connections (`orphaned`).
- A Steam peer that connects again before its old connection is lost has one entry in the server's map; the late loss erases it and reports the peer gone
  (`gns_common.cpp:164`), although the new connection lives. `PeersAreConnected` excepts it.
- `disconnect(peer)` and `stop` by the server's own game queue no event, so `NetServer` keeps the state of such peers
  (`kicked` in `PeersAreConnected`).
- "A tick the client stored no input for repeats the last input before it, as the server does" (`prediction.h:157`): the client finds
  the last input only in its ring. After a jump of a whole ring, a snap that empties it, or a server state kept in the slot of that input, the stand-in is
  `Input{}`, whereas the server repeats the input for ever. The client corrects itself with the next state; `StandInsAreGuesses` speaks
  of stand-ins the ring reaches back from.
- `cli::stop` joins a thread that may be in `recv` for a client that says nothing; `ProcessLauncher::dispose` joins a reader whose pipe a process
  that left the group (`setsid`) still holds. Either may hold up the end of the loop for ever (`QuitEnds`).
- `take_output` is "empty on an empty or cancelled call" (`process_call.h`), but `dispose` cancels a call and leaves it the lines it has.

## Proofs

What is proved holds for every value of the constants that the named `ASSUME`s allow; the runs check the same properties on
small instances, and the inductive invariants too were checked with TLC before they were proved. One invariant and one argument per component; a module `X_proof` ends with the
theorems about `X`.

### JobSystem

For every finite set of workers, every set of jobs and priorities, any number of ranges (at least two) and any number of
batches:

| Theorem in `JobSystem_proof` | States |
| --- | --- |
| `JobsTypeCorrect` | `Spec => []TypeOK` |
| `JobsPlaces` | a job is in exactly the list its status names; a queued one under the key its state holds; a running one on one thread |
| `JobsSlotOnce` | `Spec => []SlotOnce`: a job's slot is destroyed at most once, not while its function runs, and never lost |
| `JobsCancelledStaysOut` | `Spec => CancelledStaysOut`: a cancelled job does not start and its result does not arrive |
| `JobsPriorityOrder` | `Spec => PriorityOrder`: no job starts before one that should go first |
| `JobsCancelAllIsFinal` | `Spec => CancelAllIsFinal`: nothing of a job is left when the wait of `cancel_all` ends |
| `JobsForkJoinHasWorker` | `Spec => []ForkJoinHasWorker`: jobs never hold the whole pool |
| `JobsRangesOnce` | `Spec => []RangesOnce`: every range runs once, and inside the call |
| `JobsNoLostWakeup` | `Spec => []NoLostWakeup`: work does not wait on a lost notification |

The argument starts from one inductive invariant, `IInv`, the conjunction of `TypeOK` and

- `JobPlaces`, without which an erase by key could remove another job's entry and the cancelled job would still be taken;
- `ThreadInv`: a thread holds a job exactly inside `run_one`, that job has the status of its label, and slots to destroy only in
  `destroy`. Without it nothing says that a running job's slot is still there;
- `SeqInv`: sequence numbers are below `nextSeq`, so a new entry has a key of its own;
- `BatchInv`: a thread in `participate` has a batch, needed for types only;
- `SlotOnce` itself.

`JobsInit` and `JobsStep` (one lemma per action that touches jobs; the steps that only move a thread are instances of
`MoveStep`) give `JobsInvariant`, and the first three theorems from it. The others need more, each part inductive
together with `IInv`:

- `CancelInv`: a token is set only while the function runs or by dropping the job. With `JobEdges`, which lists the steps a job's
  state may take in any action, it gives `CancelledStaysOut`. `PriorityOrder` needs only that `TakeJob` is the one step that starts a job, and
  that the queue holds every queued job under its current key (`JobPlaces`);
- `BusyInv`: `busy` is the number of threads that hold a job, and a worker in `run_one` holds one. `IdleHolds` looks at
  the counter only; this is why an idle pool runs no job;
- `DrainInv`: from the first critical section of `cancel_all` to its return nothing is queued or finished and what
  runs is cancelled, so a worker can only drop its job. `CancelAllIsFinal` follows from it, `BusyInv` and `SlotOnce`;
- `CapInv`: with two workers or more `busy` stays below their number and the owner holds no job. With `BusyInv`,
  fewer threads hold a job than there are workers;
- `BatchInvs`, three parts. `CallInv`: the owner is in the call exactly at its labels and waits for the batch published last; threads
  hold batches that were published. `ClaimInv`: a range below `next` is finished or in the hands of exactly one thread,
  one above is neither. `LeftInv`: `left` is the number of ranges not finished, and only the batch of the call under way has any. So
  a thread inside a range keeps `left` above zero, and the caller waiting; a worker that saw an old batch late finds `next`
  past the end;
- `WakeInv` and `StopInv`. `NoLostWakeup` says that some worker is awake, which one `TakeJob` of that worker would end. What is
  inductive is a count: while any worker sleeps, the workers that will look at the queue next (awake, last batch seen) and the
  notification still to be sent are at least as many as the jobs that may be taken (the lesser of the queue and what the cap
  leaves). A job that ends raises the right side by one, and so does a submit; the one `notify_one` of each raises the left. A worker
  called to a batch first is not counted; `notify_all` of the batch woke everybody. `StopInv` with `DrainInv`: workers exit only when
  the queue is empty.

The assumptions are the four named `ASSUME`s of `JobSystem`:
the owner is not a worker and workers are finite, the absent job is not a job, priorities are integers, a batch
has at least two ranges (`parallel_for` runs a single one directly).

So every safety property of `JobSystem` is a theorem, `TypeOK`, which no run repeats, among them.

### HttpCalls

For any calls, workers, body lengths and queue bound, with `HttpAssumption` only:

| Theorem in `HttpCalls_proof` | States |
| --- | --- |
| `Invariance`, `TypeCorrect` | `Spec => []IInv`, `Spec => []TypeOK` |
| `SinkSeesTheBody` | `Spec => []SinkSeesBody`: what the sink saw is a prefix of the body, and all of it when the call succeeded |
| `HandleClosedOnce` | `Spec => []ClosedOnce`: a handle is closed at most once, by the worker or by a cancel, exactly once when the worker is through with it, and not at all when there was none |
| `NothingAfterCancel` | `Spec => SilentAfterCancel`: no step after a cancel returned runs a sink |
| `CallsKeepContract` | `Spec => KeepsContract`: under `StatusOf` each step is a step of `CallContract` or a stutter |

A call is shared by the main thread and at most one worker, and the invariant is about one call at a time: `MainInv` says
where the main thread is, and `CallInv(c)` is what holds of c with the worker at its label (`RunInv`) or with no worker (`AwayInv`), next to

- `BodyInv`: what the worker received is what the sink saw, then what is in hand, then what is queued, then what the worker still holds, in order,
  unless the call was cancelled or the sink refused. This is `SinkSeesBody` for a body that is still on its way;
- `HandleInv`: a handle is not open yet, open and to be closed by whoever comes first, or closed, and the label of the worker says which of these; a
  transfer that got no handle (`unopened`) has nothing to close;
- `ResultInv`, `CloseInv`, `SinkInv`: a result arrives when the worker has left the call, the main thread closes only what it found open, and
  a sink runs on one thread.

Each action has a lemma for the call it is about; `SameKeeps` covers all others, which it leaves as they were. In the refinement a
transition of `StatusOf` can only come from the actions that resolve or drop a call, and the proof shows that all the others stutter.

### Replication

For any ids, slots, values, views, owners, budget, window, weights and number of sends, over a network that loses, doubles
and reorders (the assumptions are the `ASSUME`s of `SnapshotCodec`, `PeerGhosts`, `SnapshotBuffer` and `Replication`):

| Theorem in `Replication_proof` | States | Given |
| --- | --- | --- |
| `Invariance`, `TypeCorrect` | `Spec => []IInv`, `Spec => []TypeOK` | |
| `StatesAreExact` | `Spec => []ExactStates`: after a snapshot that deferred nothing the client's state of that tick is the view it was built from | |
| `NothingRefused` | `Spec => []NeverRefused`: no snapshot in the window has a record the client's state before it cannot take | |
| `CleanIsTrue` | `Spec => []Synced`: when the server has nothing left to send, the client's newest state is its view | |
| `NothingForgotten` | `Spec => []NoZombie`: the server keeps a written ghost of every entity in the client's newest state | |
| `RoundTripIsEnough` | `Spec => OneRoundTrip`: the acknowledgement of the latest complete snapshot leaves nothing to send | |
| `WaitsEnd` | `Spec => []WaitIsBounded`: what an entity accumulates while it waits is at most the largest weight for every other entity | `RoomForEntries` |
| `ParentsComeFirst` | `Spec => NewChildBringsParent`: an entity that waited its turn brings the parent that was never written | `RoomForEntries` |

`RoomForEntries` says that there are no more entities than one snapshot counts (`kMaxSnapshotEntries`, 65535). Beyond it `capped` would cut
a selection by id, whatever its order. That an entity's weight is from 1 to `MaxWeight` is the clamp of `net_server.cpp:572`, in `SizesAssumption`.

The proof speaks of three things: d, the deltas sent per tick, a, the set of ticks the client took, and a ghost. What a ghost means is
a statement about d and a: `Gone` (since a removal that was taken, or ever, no record of the entity was sent), `OwnerIs` and `SlotIs` (some
delta taken wrote the value and none sent since says otherwise). Of each ghost

- `UnwrittenInv`: nothing of the entity was sent since it was gone at the client;
- `PresentInv`: everything sent since `ownerSince` or `since[s]` agrees with `latest` (`SlotKept`), and a record that leaves the value out was
  sent only when the client had one with it (`SlotBacked`). The two together are why a delta may leave out what the client has;
- `LeavingInv`: since it leaves no record of it is sent; `ConfirmedInv`: `confirmed` is a tick the client took a record at.

`TableInv` is that of all ghosts, `RecordInv` says that a record without the owner finds the entity, `ViewInv` that the deltas taken up to a complete
snapshot spell its view, and `LastInv` that the ghosts after a send that deferred nothing mirror its view. All are statements about messages, which stay
true when the network delivers late or twice, so `Receive` changes only a, and only by growing it.

The client's side is separate. `Ideal(n, d, a)` is the client's state at tick n if its window had no end, and `BufferInv` says that the buffer holds what
it took above the floor of the window, with `Ideal` of the floor as its base; `InsertKeeps` is the proof that an insert of any tick, in any order, keeps that. From `RecordInv` and
`ViewInv` follow, by induction over ticks, `NeverRefused` and what `Ideal` is at a complete tick (`ViewIsThere`).

`WaitsEnd` bounds each entity by a statement about all of them. `WaitInv`: for every k, at most N - 1 - k of the N entities have accumulated more
than k times the largest weight. A send over budget adds a weight to whoever waits and takes the top of the order out, so those above k + 1 times the weight were above k times it
before, and one of these, or all that were above k, is the top and is out; the number falls. An acknowledgement or a send within the budget only sets accumulators to zero. For k = N - 1 nobody is left.
`ParentsComeFirst`: `Fill` takes the chain of the ancestors never written or, if it does not fit, nothing of it. That the walk up has all of them when it
stops is a pigeonhole (`ChainCloses`): a walk of more steps than there are entities has come to one of them twice, so this holds for any `Parent`, with cycles too.

Two things the prover cannot do are proved here as lemmas: induction, for the set of the numbers for which the statement holds (`InductionOn`), and
that the recursive functions of `StateAt` and of the selection exist, without which TLA+ says nothing of their values.

### Prediction

For any inputs, ring, lead and redundancy, any jumps and any number of ticks, with `PredictionAssumption` only:

| Theorem in `Prediction_proof` | States |
| --- | --- |
| `Invariance`, `TypeCorrect` | `Spec => []IInv`, `Spec => []TypeOK` |
| `TicksInOrder` | `Spec => []TicksRunTheirInput` |
| `PredictionsComeTrue` | `Spec => []PredictionIsTrue` |
| `PresentFollows` | `Spec => []PresentIsReplay` |
| `GuessesAreTheServers` | `Spec => []StandInsAreGuesses` |

Neither `PredictionIsTrue` nor `PresentIsReplay` is inductive: a step compares one slot. What is inductive is

- `ServerInv` and `InputsInv`: the server's state is its inputs one after the other, and nothing on the way to it says anything but what was collected;
- `RingInv`: a slot is where its tick says and no later than the client (`Ticks`), a collected input is the one of its tick (`OwnInputs`), and any other input repeats the last one
  collected while the ring still has that one (`StandIns`);
- `Chain`: of the ticks after the newest server state the client reconciled with, each that the ring holds is less than a ring old and leads to the next, which the ring holds too,
  and the newest of them to the present; the first one starts from that server state if the ring reaches so far. A snap leaves a gap in the chain, and
  a later match may end in the middle of it. Before the first state, and after a jump, there are no states (`ChainInv`).

`ReconcileFacts` shows that each of the five outcomes of `reconcile` leaves a chain that starts at the newest server state, of which the replay is an induction with `Good` as its
statement (`ReplayedGood` is one turn of the loop); `TickChains` appends the tick. Slots are reasoned about by `SlotsApart` (less than a ring apart) and
`SlotAgain` (a ring apart).

### NetClient

For any finite set of entities and any depth, any states with any parents (cycles and parents without a network id among them), anything the client owns
and anything the game destroys:

| Theorem in `NetClient_proof` | States |
| --- | --- |
| `WorldStaysForest` | `NetClientSpec => []WorldTypeOK`: the safety half of `Settles` |
| `InputsAreThere` | `NetClientSpec => Spec`: the theorems about `Prediction` hold in the client |

`WorldTypeOK` says of the forest what the code measures, walks of bounded length, and of these nothing follows for the walks of another world. The invariant `WInv` has a `Forest`
instead: parents and children agree, and there is a rank in `0 .. MaxDepth` that grows from every parent to its child. `ForestIs` leads from one to the other: along
a walk the rank falls, so it comes to no entity twice and is no longer than the depth allows.

- `set_parent` (`PlaceKeeps`): its test is on depth above and height below, and both are ranks. In the new world an entity below the one that moves gets `MaxDepth` minus its height,
  any other its depth (`MovedRanks`); where the two meet, at the new parent, it is the test that makes the rank grow.
- `destroy` (`DestroyKeeps`): nobody is left below an entity that is gone. The cascade has as many levels as there are entities, and that the last one
  is empty is a pigeonhole over the ranks (`LowerOnes`, `DoomedIs`).
- A frame applies the records one by one (`PlacedKeeps`, `DestroyedKeeps`): an induction over the ids, for which `TurnsExist` shows that the recursive function exists.

### Payloads

For any peers, sizes, limits and number of payloads, with `PayloadAssumption` (priorities are a finite set of numbers) and what the last column adds:

| Theorem in `Payloads_proof` | States | Given |
| --- | --- | --- |
| `Invariance`, `TypeCorrect` | `Spec => []IInv`, `Spec => []TypeOK` | |
| `OwnersAreQueues` | `Spec => []OwnersMatch` | |
| `EventsHappened` | `Spec => []EventsAreTrue` | |
| `SentIsTaken` | `Spec => []BytesAddUp` | `RoomForAll`: no size is above `Limit`, and `MaxOpen` is not below `MaxPayloads` |
| `PartsEnd` | `Spec => []PartsAreFreed` | `"cancel" \notin Refusable` |
| `LaterOnesWait` | `Spec => AgesPast` | |

The two conditions are those of the run `payloads`. Without the first a payload that could never fit is refused at its begin, when the client is not full;
without the second the finding of `payloads_cancel` is a counterexample.

The invariant is about one peer at a time, and of it about a queue `items`, a stream `s`, what the client has open `o` and what its handler got `had`, so that its parts
(`PeerOK`) are operators on values and the lemmas about them need no state:

- `StreamOK`: no message of a payload follows its cancel, its data follow each other, and a queued payload was sent at least as far as its last message says;
- `OpenOK`: what is open is not handled yet and agrees with queue and stream, and of what was handled no data is on the way. This is why a payload is handled
  once, and why an acknowledgement may remove the item;
- while the client listens, `Follows` (a fragment starts where the data before it ends), `Reached` (so does the next one) and `AddsUp`. `Malformed` can then only be the limit.

`Apart` says that a payload is known of to one peer only, and `Events` what its counts and the acknowledgements on the way say; `Owners` and `Links` are about the server's
maps and the end of a connection. `pump` is a recursive function: `PumpRuns` shows that it exists, and `PumpKeeps` is an induction over its messages, with `Later` as what a
tick's messages do to a queue. `Later` also says that what was sent came before what is still ready (`NextIsFirst`: `next_to_send` finds a first one), which is all `LaterOnesWait` needs
besides `AgeIsBounded`.

`PartsEnd` has an invariant of its own, `Freed`: whatever is open, or will be opened by a message on the way, is queued, told of its cancel, or complete with what is on the way.
`held` and `InFlight` are folds; `SumIsUnique` and `FlightIsSum` tie them to sums that are taken apart one element at a time.

### Host

For any worlds, calls, dialogs, requests, kinds and bounds, with the `ASSUME`s of `Host`, `Processes`, `CliServer` and `FileDialogs` (finite sets, and
what stands for "no child" and "no request" is neither):

| Theorem in `Host_proof` | States |
| --- | --- |
| `NothingIsTaken` | `Spec => []NestingIsSafe` |
| `CallsKeepTheContract` | `Spec => CallsKeepContract`: process calls and dialogs refine `CallContract`, results follow lines, nothing follows a cancel |
| `AnswersHold` | `Spec => AnswersAreTrue`: what is said of a request at every step of its answer |

Each has its own invariant, which the frame's steps keep one by one:

- `LoopInv`: a frame nests only while the outer one is in its poll, and from the stage in which the systems run to the next flush, every event that this flush will drop
  has been heard. `NestingIsSafe` follows since only an outer frame flushes or lets its hook destroy worlds;
- `ProcInv`: of a call and its child (`CallOK`), what has a result is on no list and was not cancelled; the lines printed are in the pipe, in the queue or delivered; none follows the
  end of the pipe. A poll is under way in the frame's stage of that name only, so that no system, nested or not, takes or drops a call between
  its exit and its output. Each step has a lemma that shows `CallOK` of the new call and that what its holder sees of it (`Seen`) moves as the contract says or not at all;
- `DialogInv`: what is open or answered belongs to a call without a result;
- `CliInv`: of a request (`Fits`), what was executed is done or a click that waits for its paint, and what the pass has in hand was not executed, even if its client has given up on
  it meanwhile; while the server runs, what is not done is queued; no pass is under way outside its two stages (`StagesOK`). `Painted` speaks of the frame: from the drawing to the
  end of `drain`, each executed click is painted and each armed capture has been read back, also when frames nest, since the outer frame then is in its poll.
  `AtBegin` and `AtDrain` are what `dispatch` does to one request. `Undone` is a recursive function over the queue (`UndoneIs`).

### Sessions

For any finite set of clients and any number of connections, with or without SteamIDs, and `SessionAssumption` only:

| Theorem in `Sessions_proof` | States |
| --- | --- |
| `Invariance`, `TypeCorrect` | `Spec => []IInv`, `Spec => []TypeOK` |
| `PeersConnected` | `Spec => []PeersAreConnected`: peers and connections correspond, but for what is on its way, was closed by the game or is an orphan; an acknowledgement finds its peer |
| `WelcomesEnd` | `Spec => WelcomedUntilTheEnd`: a client still welcomed on a connection it lost will read its end, and gives up a living one only for a late end |

A step of the library, of the callbacks, of a poll or of the game touches one end, so the proof first says what a step may be for each end
(`ClientSteps`, `ServerSteps`) and what it leaves alone (`MostAreQuiet`), and then treats the ends apart:

- `Basics`: types; connections are made in the order of their numbers and keep their owner and peer; queues name only connections that were made, and hold in
  each pass of a poll what that pass delivers; the two maps are inverse to each other as far as peers have one connection;
- `ClientOK`, of each client: no end it will read is of the connection it has, and data handed over belong to the connection it has, or to one whose end is already queued. The
  second half is where a `Welcome` read after the client closed its link in the middle of a poll would break it;
- of the server, the events `Due` in their order: they tell its maps from its peers. A `Connected` still due is of a connection in the maps, closed by the game, or
  followed by its `Disconnected`; a `Disconnected` still due of a peer in the maps is followed by the `Connected` of its present connection, orphans excepted; a
  peer without a connection has its `Disconnected` due. `Tells` states this of the values, `HandsTells` that it survives the loss of the first event to the game, and
  `EntersTells`, `LosesTells`, `KicksTells` what the callbacks and the game add;
- `ServedOK`: a connection that was ever sent a snapshot was in the maps and its `Connected` was handled, so its acknowledgements, which a pass reads before the events
  queued meanwhile, find the peer (`AcksOK`). For this the library's opening of a connection is told once, and before it nothing is sent.

### Only model-checked

Liveness (`CallsReturn`, `QueuedLeaves`, `NoLeak`, `PayloadsLeave`, `Settles`, `Ends`, `Joined`, `QuitEnds`): the prover handles
neither `ENABLED` nor fairness. Of `Settles` the safety half is proved. Every invariant and action property that a passing run checks is proved. The violations of the findings are runs by nature.

## Not modelled

- *In the modelled components.* JobSystem: calls made by job functions (the asserts forbid them) and the direct path of a
  `parallel_for` without workers. Replication: byte layout, the spatial grid that samples relevance, disconnects (a new connection
  has a new table and buffer), several peers (each has its own table). Payloads: compression and the bytes themselves.
  Prediction: changes of owner, malformed input, the rate at which `InputLead` adjusts, the report's statistics. ClientWorld:
  values between two states, components other than `Parent`, events of spawn and despawn, changes of owner, snapshots that arrive late (`Replication` has them)
  and a render clock that snaps back. HTTP:
  sinks that call the client back during `poll`, the web, curl and Android backends, parsing of URLs and headers.
  Sessions: `disconnect` of a peer that is not in the maps, which closes the connection of that number (`gns_common.cpp:243`; `NetServer` has such a peer
  only once that connection is closed, and a SteamID is the number of none), the loopback transport (synchronous, for tests), a server started again after its stop, the network-id map and the
  clock of the render tick, the split of bandwidth credit. Processes: the Windows backend, `launch`, cutting lines and quoting. CLI server: start
  and its descriptor file, the bytes of a request (a bad one is refused at once, by the thread or as `malformed` by `dispatch`), what a command reads from the UI. Host: the server
  host and the Web's frame callback (the same loop without windows, or driven from outside), clocks and fixed steps. `HttpClient` and `JobSystem` are polled
  by the same frame and have models of their own, since they share nothing with the rest of it.
- *ECS*: destroys put off by a view, and transforms. Worlds, pools and views themselves are data structures; serialisation is conversion.
- *Relevance grid, replicated components*: geometry and byte layout; `Replication` takes their outcome as a choice.
- *Physics, rendering, particles, audio*: floating point and device calls; nothing TLC can enumerate.
- *UI, localisation, project files, resources, serialisation, byte streams*: sequential parsing, layout and encoding with
  round-trip tests in the repository.
- *Editor, command-line tools, benchmarks, vendored code*: users of the engine, or third-party.

## Plan

In this order; all but item 7 are complete.

1. `JobSystem` with its proofs. Done.
2. `Replication`, `Payloads`, `Prediction`: the state shared over the network. Done.
3. `CallContract` and `HttpCalls` that refines it. Done.
4. `Sessions`: connections against polls and callbacks, on both ends. Done.
5. `Processes`, `FileDialogs`, `CliServer`, composed with the loop in `Host`. Done.
6. `Hierarchy`, `ClientWorld`, composed with `Prediction` in `NetClient`. Done.
7. The split of bandwidth credit between snapshots and payloads; destroys put off by views; changes of owner in `Prediction`.
8. Theorems for `HttpCalls`, `Replication`, `Prediction`, `NetClient`, `Payloads`, `Host` and `Sessions`: every safety property of the runs. Done.
