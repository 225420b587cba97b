# TLA+ models of bitprim-network's channel proxy and connection registry

This directory holds TLA+ models of the core of bitprim-network. Each module is
translated from the code under `../src`. With the models come TLC
configurations that check them on small instances and TLAPS proofs of their
main invariants for every value of the constants.

## 1. Inventory

### Components

| Component | Source | State | Operations |
|---|---|---|---|
| Channel proxy | `src/src/proxy.cpp`, `src/include/bitcoin/network/proxy.hpp` | `stopped_` (atomic), `version_` (atomic), the heading and payload buffers (protected only by the read order), the socket, `message_subscriber_`, `stop_subscriber_` | `start`, `stop(ec)`, `subscribe_stop`, `subscribe<M>`, `send`/`do_send`/`handle_send`, the read cycle `read_heading`, `handle_read_heading`, `read_payload`, `handle_read_payload`, `set_negotiated_version` |
| Connection registry | `src/src/collections/connections.cpp` | `channels_` (vector), `stopped_`, one upgradable reader/writer `mutex_` | `store`, `remove`, `exists`, `count`, `safe_copy`, `stop(ec)` |
| Acceptor | `src/unnamed/part_000` (header only) | `stopped_`, the asio acceptor, a mutex | `listen`, `accept`, `stop`. Only the declaration is in the repository. |
| Definitions | `src/include/bitcoin/network/define.hpp` | none | export macros and typedefs |
| Session glue | outside the repository (spec 2) | per channel: started, stored, subscribed | start the channel, `store` it, subscribe a stop handler that calls `remove`, stop it on a refused store or a failed handshake; modelled from the spec in `Network` |

The proxy relies on code outside this repository. Libbitcoin's `subscriber`
and `resubscriber` are created stopped. `subscribe` on a stopped subscriber
invokes the handler at once with `channel_stopped`. `relay` and `broadcast`
swap the list out and invoke each handler in it once. The other external
collaborators are the codec, which parses headings and messages and computes
checksums, the internally locked socket wrapper, and the channel subclass,
which supplies the `handle_activity` and `handle_stopping` hooks and the
timers.

### How the components interact

- The owner of a proxy calls `start`. `start` arms the subscribers, calls its
  handler, and issues the first heading read.
- Each read completion runs on an I/O thread and issues the next read. Every
  failure calls `stop(ec)` on that thread.
- Timers of the channel subclass, the registry's `stop` and sessions call
  `stop(ec)` from other threads. `stop` takes no lock, so its steps interleave
  with those of other stop calls, with `start` and with subscriptions.
- `send` serializes on the caller's thread. `do_send` then starts an
  `async_write` under the socket's lock, and that lock is released as soon as
  `async_write` returns.
- A session stores a started channel in the registry. Its stop handler calls
  `remove`. `connections::stop` copies the list under the lock and then calls
  `channel->stop(ec)` on each member outside the lock.

### What is hard

- Concurrent, unlocked `stop` calls race with `start` and with subscriptions.
- Overlapping `async_write`s race on one socket.
- The read chain's buffers are protected only by the order of the reads.
- A stopped channel drains only because `close` aborts its outstanding I/O.
- The registry's iteration runs outside the lock while the stop handlers of
  its members call `remove`.
- The payload limit is checked against a buffer capacity.

The full list, each hazard at its line, is `hazards` in `PROJECT.json`.

### What makes each component correct

- **Proxy.**
  - Every stop handler and every message handler is notified exactly once.
  - No message reaches a handler after a `stop` call has returned, and only
    exact frames are relayed.
  - Reads are sequential.
  - A stopped channel's outstanding I/O completes.
  - Sends are written in call order, without interleaving.
  - A heading is rejected when its payload exceeds the limit of the
    negotiated version.
- **Registry.**
  - No two members share an authority or a nonce (R1, R2).
  - No member is added once the registry is stopped (R3).
  - Each channel is stopped at most once by the registry.
  - After a stop, once its channels' stop handlers have run, the list is
    empty.

## 2. Modules and how they correspond to the code

### `Proxy.tla` (the channel proxy)

One proxy. The state maps to the code as follows:

- `stopped` is `stopped_` and `version` is `version_`.
- Each subscriber has a `stopped` flag and a list of handlers.
- `subscribed` and `notified` record which handlers were subscribed and how
  many terminal notifications each has received.
- `readPc[c]` is the read outstanding for read chain `c`. There is one chain
  per successful start.
- `stopPc[t]` is the next step of the `stop` call by stopper `t`. A stopper is
  an External thread or a read chain.
- `sendPc`, `writeLeft`, `wire` and `sendOrder` are the state of
  `async_write`. It writes `Pieces` pieces per message.

The actions map to the code as follows:

- `start` is three steps, at lines 91, 92-93 and 96-99. `StartFailed` is the
  `operation_failed` return.
- `stop(ec)` is six steps, at lines 320, 323, 324, 327, 328 and 331-334.
- `HandleReadHeading` models a whole completion handler, with every early
  return and every `stop` call. The completion of a read is `*Arrives` when
  the peer sent bytes or an error. It is `*Aborted` when the socket was closed.
- `handle_read_payload` is two steps, because a stop on another thread can run
  between them:
  - `HandleReadPayload` is lines 200-224: the entry test of `stopped()`, the
    error and the checksum test.
  - `LoadPayload` is lines 226-265: the parse, the relay of the message to the
    message subscriber's handlers (`Relay`), the test for trailing bytes, and
    the next `read_heading` or the `stop`.
- `dispatched` records each relayed message. It notes whether the frame was
  exact and whether a `stop` call had already returned (`stopReturned`).
- `Send` is `send` followed by `do_send`. `WriteSome` is one piece written,
  and `WriteFails` is `handle_send` with an error.
- `async_write` issues its first `write_some` before it returns, and the
  socket takes `write_some` operations in the order they were issued. So
  `WriteSome` may put a message's first piece on the wire only after the
  first piece of every write started before it (`FirstPieceInTurn`). Later
  pieces are issued from completion handlers and may interleave.
- Heading, payload and message contents are reduced to the outcomes of the
  checks: `is_valid`, the magic, the size against the capacity, the checksum,
  the parse, and the test for trailing bytes.

The owner calls `start` again only after the earlier call returned. Two
constants choose the environment:

- `Restart` lets the owner call `start` on a channel that has stopped.
- `StopDuringStart` lets an External call `stop` before `start` returned.

The fairness is weak fairness on the remaining steps of a started `start` or
`stop` call, which the calling thread runs to the end. It also covers the
completion of reads and writes on a closed socket, which asio always delivers.
Nothing is assumed of the peer or of the callers.

### `ProxyAbstract.tla` (what a channel promises)

The channel lifecycle of spec 4.1, with no threads and no subscriber objects:

- `life` goes from new to starting, then running, then stopped, and never
  back.
- `Join` adds a waiting handler. `JoinStopped` adds a handler and notifies it
  at once; it is allowed only when the channel is not running.
- `Release(S)` notifies waiting handlers that were never notified. It is
  allowed only once the channel is stopped.
- A handler receives at most one notification, and only after it joined.

`Proxy` maps onto it by `Life`:

- `startPc = "none"` is new;
- `start` between its first and last step is starting;
- after `start`, `stopped` tells stopped from running.

`RefinesLifecycle` is `Lifecycle!Spec`, the abstract spec under that
mapping.

### `Connections.tla` (the connection registry)

- `members` is `channels_`, kept as a set because nothing depends on its
  order. `regStopped` is `stopped_`.
- `store`, `remove` and the locked part of `stop` are each one atomic step,
  because the upgrade lock excludes every other upgrader and writer.
- The loop of `stop` is `StopChannel` steps, one per copied member. They
  interleave with everything else.
- `Exists` and `Count` are read-only operators.
- `Abstract` maps the registry onto `ConnectionsAbstract` (below):
  `regStopped` is `closed`, and `Halted`, the channels whose `stop` the loop
  has called, is `halted`.

### `ConnectionsAbstract.tla` (what the registry promises)

A set of members, a `closed` flag and the set of `halted` channels. There is
no lock, no copy and no loop:

- `Join` adds a channel to an open registry, if no member shares its
  authority or nonce.
- `Leave` removes a channel, whether the registry is open or closed.
- `Close` sets the flag.
- `Halt` stops a channel of a closed registry, at most once.

### `Network.tla` (registry, channels and sessions together)

`Network` declares the registry's variables and instantiates the registry on
them (`Reg`). It instantiates `ConnectionsProofs`, which extends
`Connections`, so that the theorems about the registry can be cited as
`Reg!...`. `NetworkAssumption` is the registry's assumption on the
constants. `store`, `remove` and the steps of `stop` are the
registry's own actions, conjoined with what each call does to a channel.

- A channel is a proxy seen from outside:
  - `chan` is new, running or stopped;
  - `stopHeld` says whether its stop subscriber holds the session's handler;
  - `removing` says the handler was invoked and its `remove` is next.
- `StopProxy` is `proxy::stop` as one step. It stops a running channel and
  invokes the held handler. On a stopped channel it does nothing.
  `ProxyProofs` shows that the detailed `stop` notifies each handler once,
  when no stop runs during start.
- `SubscribeStop` is `proxy::subscribe_stop`. A running channel holds the
  handler; a stopped one invokes it at once.
- `RegStopChannel` is one iteration of the registry's stop loop, together
  with the `channel->stop(ec)` it calls. `HandlerRemove` is the handler's
  call of `connections::remove`.
- The session code is not in this repository. It is modelled from the spec's
  data flow (spec 2):
  - `SessionStart` starts the channel.
  - `SessionAbandon` stops it when the handshake fails.
  - `SessionStore` calls `store`, and stops the channel if the store is
    refused.
  - `SessionSubscribe` subscribes the remove handler of a stored channel.
  - `ChannelFails` is a channel stopping on its own: an I/O failure, a bad
    frame or a timer.

Fairness in `Network`:

- A thread inside `connections::stop` runs its loop to the end.
- An invoked handler calls `remove`.
- A handshake ends, by success or by its timer.
- The handler of a stored channel then subscribes.

Nothing is assumed of when a channel fails or when `stop` is called.

## 3. Runs

| Run | Config | Expect | What it shows |
|---|---|---|---|
| proxy_core | `MCProxy.cfg` | pass | `TypeOK`. `NoDispatchAfterStop`: no message reaches a handler after a `stop` call has returned, although the payload handler tests `stopped()` only on entry. `StopNotifiesEverySubscriber`: with the read loop and one External stopping concurrently, one stop and one message handler subscribing at any time, one send and two start calls, no handler is notified twice, and once the channel is stopped and quiet every subscribed handler has been notified. `StopDrains`: a stopped channel's pending read and write complete, under the fairness above. `RefinesLifecycle`: every step is a step of `ProxyAbstract` or a stutter. |
| proxy_concurrent_stops | `MCProxyStops.cfg` | pass | The same invariant with three concurrent stoppers (two Externals and the read loop) and three handlers. |
| proxy_start_race | `MCProxyStartRace.cfg` | violation | A stop that lands between line 91 and line 92 of `start` strands a later subscriber. |
| proxy_restart | `MCProxyRestart.cfg` | violation | `start` on a stopped channel starts a second read chain while the first still has a read outstanding. |
| proxy_oversize | `MCProxyOversize.cfg` | violation | After `set_negotiated_version` narrows the version, a payload above that version's limit is read. |
| proxy_send_order | `MCProxySendOrder.cfg` | violation | Two overlapping sends interleave on the wire. The first pieces go out in call order, and the trace is a1 b1 a2: b's first piece lands between a's two pieces. |
| proxy_trailing | `MCProxyTrailing.cfg` | violation | `DispatchesOnlyExactFrames`: a payload that parses but leaves trailing bytes reaches the message handler before the channel stops with `bad_stream`. |
| connections | `MCConnections.cfg` | pass | `Unique` and `StopsEachChannelOnce` over three channels. c1 and c2 share an authority and c1 and c3 share a nonce, so both match rules are exercised. Two threads call `stop`. `RefinesAbstract`: every step is a step of `ConnectionsAbstract` or a stutter. Its `Join` needs an open registry, so this also checks that a `store` racing `stop` is refused once `stopped_` is set (R3). |
| network | `MCNetwork.cfg` | pass | Three channels with distinct nonces. c1 and c2 share an authority, so one of their stores is refused, sessions that store and subscribe them, channels that fail on their own and two concurrent registry stops. `NoStaleMember`: a stopped channel is a member only while its remove is due. `RegistryDrains`: once `stop` is called, the registry empties. |

The bounds are the smallest that reach every case:

- A handler subscribes before the start, during a stop, and after a stop.
- Two stop calls overlap. `proxy_concurrent_stops` has three.
- The oversize run has a size one past each limit.
- The send-order run has two messages of two pieces each.
- The proxy runs have two start calls, so `StartFailed` is exercised.
- The network run has three channels, so a store is refused with
  `address_in_use`, and two stoppers, so a channel can be stopped by the
  registry loop, by itself and by its session. A stopped channel is stored
  while the registry stops.

Every step of a stop call is its own action, so a subscription can land
between any two of them.

## 4. Findings

1. **Start racing stop strands subscribers** (`proxy.cpp:91-93`).
   - `start` clears `stopped_` before it starts the subscribers.
   - If a `stop` runs in between, `start` restarts subscribers that stop has
     already drained.
   - A handler subscribed after `start` returns then waits in a running
     subscriber of a stopped channel, and nothing invokes it.
2. **Restart** (`proxy.cpp:85`).
   - `stopped_` is true both before the first start and after a stop, so a
     stopped channel can be started again.
   - A second read chain then shares the unlocked buffers with the first.
3. **Payload limit** (`proxy.cpp:165`).
   - The code checks the buffer capacity for `protocol_maximum`.
   - The spec checks the limit of the negotiated version.
4. **Send interleaving** (`proxy.cpp:290`).
   - The socket lock covers only the initiation of `async_write`.
   - The first pieces go out in call order, but the later pieces of
     overlapping writes interleave: a1 b1 a2 on the wire.
5. **Trailing bytes are relayed** (`proxy.cpp:234`).
   - `load` parses the payload and relays the message to the handlers first.
   - Only then does the handler test for trailing bytes and stop with
     `bad_stream`.
   - The spec says that a frame with trailing bytes stops the channel and
     that no subscriber receives a spurious message.

## 5. Proofs

TLAPS checks every proof below for every value of the constants that
satisfies the module's `ASSUME`. `ProxyAssumption` only requires the handler
sets to be disjoint, `Pieces` and `MaxStarts` to be positive, and the version
data to be well typed. `ConnectionsAssumption` only gives `Authority` and
`Nonce` the set of channels as their domain.

### `ProxyProofs.tla`

- **`TypeCorrect`**: `Spec => []TypeOK`.
  - The inductive invariant is `TypeInv`. It adds two facts to `TypeOK`:
    - `epoch <= startCalls`, so a new chain number stays in `1..MaxStarts`;
    - a message that is `"writing"` has a piece left, so `writeLeft` never
      goes below 0.
  - The Boolean conjuncts are kept in `BoolTypes`, apart from the rest. SMT
    handles them poorly when they are mixed with the others.
  - The step is proved one action at a time and, where needed, one group of
    variables at a time.
- **`NotifiesEverySubscriber`**: under `~Restart /\ ~StopDuringStart`,
  `Spec => []StopNotifiesEverySubscriber`. The inductive invariant `IInv`
  has these parts:
  - `TypeInv`.
  - `NotifyInv`: a handler is unsubscribed and unnotified, or held by a
    subscriber and unnotified, or notified exactly once.
  - `StartInv`: while `start` runs, no stop call and no read is in progress,
    and the channel is not stopped. Before the first start, both subscribers
    are stopped.
  - `SubInv`:
    - A stopped subscriber holds handlers only while a stop call is at the
      step that relays to them.
    - A stopped channel outside `start` has each subscriber stopped, or has a
      stop call that has yet to stop it.
  - `ChainInv`: a read chain inside `stop` has no read outstanding, so it
    cannot start a second stop call.

  The property follows from `IInv`. When the channel is stopped and no call
  is in progress, `SubInv` gives two stopped and empty subscribers, and
  `NotifyInv` then gives one notification per subscribed handler. The two
  assumptions are needed: the `proxy_start_race` and `proxy_restart` runs
  show the property failing without them. The lemma `NotifyOnSubscribe`
  covers a subscription to a stopped subscriber.
- **`NoLateDispatch`**: under the same two assumptions,
  `Spec => []NoDispatchAfterStop`. `IInv` gains `LateInv`:
  - a stop call at or past its relay step has stopped the message subscriber,
    and past it has emptied it;
  - once a stop call has returned, the message subscriber is stopped and
    empty, and `start` is not running.

  A `LoadPayload` after a stop returned therefore finds no handler to relay
  to. The payload handler's stale test of `stopped()` does no harm, because
  the relay goes through the subscriber, which the stop has already drained.

### `ProxyLifecycleProofs.tla`

- **`LifecycleRefinement`**: under `~Restart /\ ~StopDuringStart`,
  `Spec => RefinesLifecycle`.
  - The invariant is `IInv` of `ProxyProofs` together with `RunInv`.
  - `RunInv` says that while the channel runs, neither subscriber is
    stopped, because `start` starts both before its first read.
  - It also says that a stop call past its first step has set `stopped_`,
    which nothing clears again.
  - `LifeStep` proves, one handler at a time, that each step preserves
    `RunInv` and is a step of the lifecycle or a stutter:
    - `StartBegin` is `Begin` and `StartRead` is `Started`.
    - `StopFlag` on a running channel is `Halt`.
    - `BroadcastStopped`, `RelayStop` and a relay to a stopped message
      subscriber are `Release`.
    - A subscription is `Join`, or `JoinStopped` when its subscriber is
      stopped.
  - `RunInv` is what rules out a notification while the channel runs.
  - The lemma `NotifyFresh` shows that `Notify(S)` on unnotified handlers is
    the abstract `Terminate(S)`.
  - The lemma `NextSplit` flattens `Next` into the code's handlers with
    their inputs.
  - `RunInv` was checked by TLC on the `proxy_core` and
    `proxy_concurrent_stops` instances before it was proved.

### `ConnectionsProofs.tla`

- **`RegistryTypeCorrect`**, **`MembersUnique`** (`[]Unique`) and
  **`StopsOnce`** (`[]StopsEachChannelOnce`).
  - All three rest on one inductive invariant, `RInv == TypeOK /\ Unique /\
    SnapInv`.
  - `SnapInv` says that the copies of the list held by the stop calls are
    disjoint, and that they are non-empty only once the registry is stopped.
  - It also says that a channel still in a copy has not yet been stopped.
  - Only the first `stop` copies the list, so no channel can be stopped twice.
- **`Refinement`**: `Spec => RefinesAbstract`. `StepRefines` maps every step:
  - a successful `store` is `Join`;
  - `remove` is `Leave`;
  - the locked part of `stop` is `Close`;
  - a loop iteration is `Halt`, using `SnapInv` to show the channel was not
    halted before;
  - everything else is a stutter.

### `NetworkProofs.tla`

- **`NoStaleMembers`**: `Spec => []NoStaleMember`, for any number of
  channels and stoppers. The inductive invariant is `NInv == TypeOK /\ ChanInv`. `ChanInv` ties each channel's registration to its proxy:
  - a member's session has stored or subscribed it;
  - a held handler belongs to a running, subscribed channel;
  - a pending remove belongs to a stopped channel;
  - a subscribed member holds its handler or has a remove pending;
  - a channel is new exactly while its session is idle.

  `NoStaleMember` alone is not inductive. A subscribed member whose handler is
  held would become a stale member if a stop could drop the handler.
- **`RegistryGuarantees`**: the registry's invariants hold inside the
  composition, with its refinement of `ConnectionsAbstract`. It rests on
  the lemma `ImplementsRegistry` (`Spec => Reg!Spec`). That lemma holds by
  construction, since `Network`'s actions are the registry's own actions
  conjoined with channel effects (`RegistryStep`). The theorems of `ConnectionsProofs` are cited
  through `Reg`, together with `RegAssumption`, the instance of the
  registry's assumption.

### What stays with TLC

- The liveness properties `StopDrains` and `RegistryDrains`, and everything
  else that depends on fairness or `ENABLED`.
- The five violated properties.
- The invariants `IInv` and `RInv` were also run through TLC as invariants
  on the instances of `proxy_core`, `proxy_concurrent_stops` and
  `connections` before they were proved. `NInv` is the type invariant and
  `NoStaleMember` of the `network` run, strengthened by `ChanInv`.

## 6. Not modelled, and why

- **Acceptor.** Only its declaration is in the repository, so there is no
  code to translate.
- **Definitions.** `define.hpp` has no behaviour.
- **Codec and framing bytes.** Parsing and checksums belong to an external
  collaborator. They are abstracted to the outcome of each check.
- **Message ordering across channels.** The spec guarantees none.

## 7. Further work

- The abstract lifecycle says nothing of the messages a handler receives
  before the stop. `NoDispatchAfterStop` covers the part of it the spec
  states.
- `Network` uses `proxy::stop` as one step. Composing it with the detailed
  `Proxy` instead, for one channel, would check the two together.
- No deadlock when stop handlers call `remove` during the registry's
  iteration (spec scenario 6). The model has no locks held across calls, so
  it cannot express this; it would need the upgrade lock as state.
