# Verification of typescript-ddd-seedwork

TLA+ specifications of the stateful parts of the seedwork, the TLC runs that
check them on small instances, and TLAPS proofs of the most important results
for every instance. Paths below are relative to the repository; the library
itself is in `src/`.

    tlc -workers 2 -config DeliverySafety.cfg MCDelivery.tla    # one run
    tlapm MessageDelivery_proof.tla                             # one proof module

`PROJECT.json` lists the runs, the theorems, the hazards, and for every
definition the lines of code it stands for.

## 1. Inventory

| Component | State | Operations | Hard behaviour | What makes it correct |
|---|---|---|---|---|
| **Event delivery**: `MessageConsumer`, `ExchangeListener`, `KVEventHandlingTracker`, the Redis key-value store (`ports/pubsub`, `ports/database/keyvalue`) | what the broker still holds, the channel of a consumer, the handlers in flight, the marked ids | `registerConsumer`, `handleDelivery`, `idempotentHandleDispatch`, `ack`, `nak`, `stop`/`close` | handlers that outlive their channel, redelivery, store errors before or after the write, process crashes, two consumers on one queue | no event is acknowledged without being handled or skipped for another listener; a failure repeats an effect at most once; queues drain |
| **Unit of work**: `TypeormUnitOfWork` (`ports/database/typeorm`) | a map from correlation id to query runner, transactions, the pool | `execute`, `getQueryRunner`, `getOrmRepository`, rollback, `finish` | concurrent and nested calls, shared ids, failing starts, commits and rollbacks, a pool that is used up | all or nothing; truthful answers; runners come back to the pool; every call answers |
| **Broker components** and the set-up of a listener: `BrokerComponent`, `Exchange`, `Queue`, `ExchangeListener` | connection manager, channel wrappers, the channel an `Exchange` and its `Queue`s share, readiness | construction, `setup`, clone, bind, `registerConsumer`, `stop`, `close` | reconnection re-runs setups and adds channel wrappers; errors of cloned components are nobody's; unbound handlers | a consumer's queue is bound, events survive a reconnection, errors are reported, close closes |
| **Transaction monad** (`application`) | the transaction of an entity manager | `of`, `map`, `chain`, `run`, `unsafeRun` | nested runs, commit of a failed operation, results of commit and rollback dropped | a failed transaction leaves nothing |
| **Aggregate repository** (`base-repository.ts`) | rows | `save`, `add`, `saveMultiple`, `delete`, finders | find-then-save of concurrent callers, methods passed on unbound | what was saved stays, no row comes into being by a save |
| **Entities, aggregates, behaviours** (`model`) | props, id, accumulated events (immutable values) | factory, setter, adder, remover, `asReducer`, `chain`, `run` | order of events, items that are equal, what a removal leaves, what a reload changes | uniqueness of items, events that tell the history, a faithful reload |
| **Parsing** (`model/parser.ts`, `invariant-validation.ts`) | none | `structSummarizerParsing`, `arrayParser`, `optionizeParser` | an error semigroup over keys | no error lost, array order kept |
| **Value objects** (`model/value-objects`) | none | `parse`, `new`, `unpack` | what is kept is the input, not the parsed value | what is refused, and under which name |
| Assertions, JSON reader, notification reader | none | constructors, lookups | - | - |
| Application layer, exceptions, fp aliases, ORM columns, logger, authentication set-up | none of their own | declarations, configuration, output | - | - |

How they interact. `ExchangeListener.start` builds an `Exchange`, whose setup
builds a `Queue` on the same channel, whose setup calls `registerConsumer`; from
then on the broker calls `MessageConsumer.handleDelivery` for each message, which
awaits the listener's `filteredDispatch` between a lookup and a write of the
tracker. A dispatch typically runs a command handler, which wraps its work in
`TypeormUnitOfWork.execute(correlationId, ...)`; repositories reach the call's
transaction only through the correlation id. Nothing else is shared between the
two, so they are modelled apart. The transaction monad is the other way to a
transaction; its operations call repositories built on the entity manager, so
`Repository` extends `TransactionMonad`. Aggregates are immutable values that
meet the rest as snapshots (the mapper) and as events (the dispatcher).

## 2. Plan

| Order | Modules | Abstract specification | Checks and proofs | State |
|---|---|---|---|---|
| 1 | `MessageDelivery`, `MCDelivery` | `EventHandling` | safety, order, liveness, refinement; every safety property and the refinement proved | done |
| 2 | `UnitOfWork`, `MCUnitOfWork` | - | atomicity, answers, leaks, liveness; invariant proved for distinct ids, the answers for shared ones | done |
| 3 | `ListenerSetup`, `MCListener` | - | set-up, reconnection, stop; invariant, events kept and copies of an event proved | done |
| 4 | `TransactionMonad` | - | what a success and a failure leave; invariant proved | done |
| 5 | `Repository`, `MCPersistence` | - | lost updates, rows created; safety proved | done |
| 6 | `Parsing` | `Summary`, a reference definition | error dictionaries, array order; both proved for structs and arrays of any size | done |
| 7 | `Aggregate`, `MCDomain` | - | uniqueness, events, reload, refusals; all proved | done |
| 8 | the serializer and the entities' remaining behaviour | | | open |

## 3. MessageDelivery

A *consumer* is one registration by `registerConsumer`: a `MessageConsumer` with
its channel. A reconnection registers again, so several consumers of one queue
may exist, and a handler may still run for a channel that is gone.

| Variable | Code |
|---|---|
| `loc[m]` | where the message is for the broker: `ready` in its queue, unacked at a consumer, `acked`, `dropped` (nack without requeue) |
| `chan[c]` | the channel: `off` (not registered, or the connection is gone), `open`, `cancelling` (`close()` awaits the cancellation), `closing` (the close of the channel), `broken` (closed by the broker), `stopped` |
| `stage[c][m]` | which await the handler of a delivery is at: `checking` (tracker lookup), `dispatching`, `marking`, `acking` |
| `handled` | the keys the store maps to `'true'` |
| `effects[q][id]` | history: how often the listener's dispatch took effect |
| `faults` | failures so far |

Actions are the code between two awaits: `Register`; `Deliver` (up to the lookup,
or the immediate ack of a type the listener does not listen to);
`CheckFound`/`CheckMissing`/`CheckFail`; `DispatchOk`/`DispatchFail`;
`MarkStored`/`MarkFail`; `Acknowledge`; `Stop`, `CancelOk`, `CloseOk`. Failing continuations
end in `handleDeliveryException`, that is in `Nak`. A failure of the dispatch or
of the mark may come before or after the effect. `ConnectionLoss`,
`ChannelError` and `Crash` are the environment: the broker takes back what is
unacked, handlers go on (except after a crash) and what they send on a dead
channel goes nowhere: `ack` throws, and the `nak` in the catch throws and logs.

External, modelled by what the code sees: RabbitMQ (`IsHead`, `Unacked`,
`Requeue`), the channel (`ChannelIsUsable`), the loss of either. Abstracted:
message bodies, timestamps, logging, the tag of a consumer. A message id and a
prefix are sequences of `:`-separated segments, because `keyWithPrefix` appends.

Queues are not exclusive here: they and their messages survive a lost connection
(`Requeue`). A listener that does not say otherwise has an exclusive queue
(exchange-listener.ts:34), which the broker deletes with its connection, and with
it the messages of a listener with `isRetry` too; of such a queue what this module
shows holds until the first lost connection. `ListenerSetup` has that case.

| Run | Instance | Shows |
|---|---|---|
| `DeliverySafety` | one event in two queues, two consumers on the first (with `isRetry`), one on the second (without); all seven failures, three of them | `DeliveryInv` is inductive in practice; `AckedWasHandled`, `NoEventSwallowed`, `HandlerHoldsMessage`, `AtMostOncePerFault`; `ImplementsEventHandling` (refinement) |
| `DeliveryOrder` | an event published twice with two others between, one consumer; a second queue with `autoAck` and two consumers; three failures of store and dispatch | `InOrder`, `NoEffectOnceHandled`, `AtMostOncePerFault` with duplicates, `AutoAckStalls` |
| `DeliveryLive` | two queues, an unlistened type in one; all seven failures, two of them | `EventuallyHandled` (with `isRetry`), `EventuallySettled` |
| `DeliveryOtherException` | violated | see Findings |
| `DeliveryClose` | violated | see Findings |

Bounds. `MaxFaults` bounds the failures (a `stop` counts as one). Three are
enough for a connection lost, a registration whose handler overlaps the old one,
and a failure of either; two consumers per queue for a handler of each. With two
messages per queue order and prefetch matter already; `DeliveryOrder` has four.
Messages published later are messages not delivered yet, so no publishing
action is needed.

Fairness (`Fairness`): the manager reconnects (it retries for ever) and
registers, the broker answers a cancellation and delivers to a consumer it may
deliver to, and every promise of a handler settles. Failures and `Stop` are never
forced. The last is the assumption a deployment must provide: neither the store
nor `filteredDispatch` has a timeout in this code, and a promise that never
settles blocks its consumer, since the prefetch is one.

Conditions of the properties, because the code needs them. `PrivateKeys`: two
listeners with one prefix skip each other's events. `NoConcurrentDuplicates`:
check and mark are not atomic, so two consumers handling the same id at once both
dispatch it. `ChannelsLast` for `InOrder` and `NoEffectOnceHandled`: after a
reconnection an old handler and the new one overlap. `NoEffectOnceHandled` needs
all three, `AtMostOncePerFault` the second only, `AutoAckStalls` none. `PrivateKeys`
is about the prefixes and ids as they are given, so a key that loses its prefix
breaks `NoEventSwallowed`.

The liveness properties need a consumer that is left. A channel that the broker
closes alone is opened again by nobody while the connection lasts
(`onChannelClosed` is registered unbound, broker-component.ts:100), and one that was
stopped is not either; if that is so of every consumer of a queue for ever
(`Abandoned`), what is in the queue stays there. `EventuallyHandled` and
`EventuallySettled` say that this is the only way.

`AutoAckStalls` states what the code does, not what one wants: `autoAck` makes
`ack` silent, but `consume` is called without `noAck` (message-consumer.ts:229),
so each consumer gets a single message, and another only when its channel was
replaced and the first went back to the queue.

## 4. UnitOfWork

A call of `execute` names its query runner too.

| Variable | Code |
|---|---|
| `pc[x]` | the await the call is at: `starting`, `running` (its callback), `committing`, `rolling`, `deleting` (release), `retrying` (an `Err` whose rollback failed) |
| `queryRunners[id]` | the map |
| `conn[r]`, `tx[r]` | the runner's connection and transaction |
| `target[x]` | the runner `rollbackTransaction` looked up before its await |
| `path[x]`, `failed` | why the call cleans up, and whether the cleanup failed |
| `made`, `pending`, `saved` | the writes made, in an open transaction, kept by the database |
| `outcome[x]` | resolved with a value (`ok`), with an `Err` (`err`), rejected (`threw`) |

The distinction that matters is which runner each step uses: the commit uses
the local variable, while `rollbackTransaction`, `finish` and every repository
look the id up in the map, each at a moment of its own, and a look-up that finds
nothing throws (`NotFound`: into the catch, which rolls back a second time, or to
the caller). PostgreSQL, typeorm and
the pool are external (`InTransaction`, `Commit`, `Abort`): a commit that fails
may have been applied; a rollback that fails has lost its connection, and the
server aborts; a released runner that starts takes a connection nobody returns.

| Run | Instance | Shows |
|---|---|---|
| `UowDistinct` | four calls with ids of their own, one nested, one without id; two failures; two writes each; two connections | `UowInv`, `AllOrNothing`, `TruthfulAnswer`, `NoReleaseInTransaction`, `OnlyFailedStartsLeak`; `EveryCallAnswers`: one connection more than the callers that nest is enough |
| `UowShared` | three calls with one id and one with its own, two of them nested; four connections | every call still answers, and `SuccessIsOwnCommit` |
| `UowTwice` | violated | see Findings |

Two writes are needed to tell a part from the whole. `UowShared` makes no writes,
which do not influence when a call answers. A start that fails keeps its
connection for good (`StartLeaked`), so that the pool may then be too small;
`EveryCallAnswers` excepts it. `UowShared` has a
connection per call: a shared id can make a released runner take a connection it
never returns, and with fewer connections another call then waits for ever.

Fairness: callbacks end, the database answers, and a call that can have a
connection gets one. Nothing obliges a caller to call.

Abstracted: what a write is; isolation levels; a statement that fails (the
callback then fails, the case `CallbackFail`). A callback that hides a failed
statement and resolves is not modelled; PostgreSQL would answer its commit with a
rollback.

## 5. ListenerSetup

A *wrapper* is a channel wrapper of the connection manager. The code makes one
at every connection and the manager keeps all of them, so that after the k-th
connection k channels are opened and k setups run. A setup is one run of
`onChannelOpened`, `Exchange.setup`, `Queue.setup` and `registerConsumer`.

| Variable | Code |
|---|---|
| `wrappers`, `conn` | the manager |
| `stage[w]` | the await the setup of wrapper w is at: `opening`, `declaring` (exchange), `queueing`, `binding`, `qos`, `subscribing`; then `consuming`, `cancelled`, or `failed` |
| `exchangeChannel` | `channel` of the one `Exchange`, written by every setup |
| `queueChannel[w]` | `channel` of the `Queue` cloned from it in setup w: that of whoever wrote `exchangeChannel` last |
| `bound[w]` | how many bindings of that queue were answered |
| `messageConsumer`, `queue`, `isConsuming`, `isReady` | the listener's fields; consumer and queue are named by the setup that made them |
| `stopping`, `target` | the call of `stop` or `close`: `ignored`, or the await it is at (`cancelling`, `closing` the channel, `disconnecting`), `ended` or `rejected` |
| `errors[w]` | who heard of an error: `handleError` (the callback of `start`) or nobody |
| `bindings`, `inQueue`, `unacked`, `settled` | the broker: its queues, and one event on its way through them and the handlers |
| `published`, `wasReady`, `heardIn` | the event was published, and what the listener said and did by then |

A delivery and its settlement are two steps (`Deliver`, `Settle`): a lost
connection, a closed channel or a deleted queue may come between them, and what
was not acknowledged goes back to its queue, or goes with it (`TakeBack`). What a
handler does in between is `MessageDelivery`'s; here it ends with an ack, a nack
that drops the event or one that puts it back. `stop()` that finds no consumer
resolves at once (`ignored`), and the setup goes on; otherwise the cancellation,
the close of the channel and that of the connection are awaited one after the
other.

Errors. A failing connect (`ConnectFailed`), a wrapper that gets no channel
(`ChannelRefused`) and an error of the exchange's setup reach `handleError`, and so
the callback given to `start`, which the model takes to be there (without one
`handleError` throws). Errors of a `Queue`, which is made by clone, are rejections
nobody handles (broker-component.ts:62), and so are those of the handlers that are
registered unbound: `onChannelClosed` at every close of a wrapper by the manager
and `onConsumerCancelled` when a queue is deleted.

External: the manager, the broker (`TakeBack`, `AutoDeleted`, `QueuesOfConnection`,
`Refused`, `ConnectionLost`) and amqplib, whose closed channels reject what
is pending (`CloseChannels`). `MaxConnects` = 2 is the least that has two setups
run at once; `MaxFaults` = 1 is one failed connect or channel, one refusal or one
deletion, at any moment. Two routing keys tell bound from half-bound. Fairness: the
manager connects, and the broker answers.

The run `Listener` has the four kinds of queues a listener can have. It shows,
and the comments of its properties say:

* `ConsumerIsBound`: the queue of a consumer has all its bindings although the
  setups share a channel. The exception is real: a queue deleted under one setup
  is declared again, unbound so far, by another, and the first consumes from it.
* `ReadyKeepsEvent`: an event published once the listener was ready waits in a
  queue, is held by a handler or was settled, over any reconnection that cuts off a
  handler, if the queue is not exclusive. An exclusive one, the default, keeps it
  while the connection lasts in which something consumed by then, and no longer,
  while `isReady` stays true. With a name made up by the server the event may wait
  in a queue of an earlier setup that nobody consumes any more: it is kept, and it
  may not be handled.
* `CopiesOnlyWhenFresh`: with a name made up by the server each wrapper has a
  queue of its own, and there is a copy of an event for each. Under a fixed name
  there is one, which is settled once; how often it is handled before that is
  `AtMostOncePerFault`'s matter.
* `ReadinessIsTrue`: `isConsuming` is right while its connection lasts, unless the
  consumer was cancelled remotely, an operation was refused or a stop was called.
* `EventuallyConsumes`: in the end the listener consumes, or it has raised an error
  since it last connected, or it has ended; a `stop` that resolved because there
  was no consumer yet changes nothing of this.

## 6. TransactionMonad and Repository

`TransactionMonad` has the runs of one entity manager, which is modelled as
typeorm's query runner (savepoints for nested transactions) on PostgreSQL.

| Variable | Code |
|---|---|
| `pc`, `result` | where the innermost `run` is (`begin`, `op`, `answered`, `commit`, `evaluate`), and what its operation came to |
| `runs`, `started` | the runs under way, one in another (`chain`), and all that began |
| `depth`, `savepoints`, `pending`, `aborted` | the query runner's transaction |
| `rows`, `kept` | the database, and what this transaction's COMMITs put there |
| `outcome` | what `unsafeRun` answered |

`run` commits before it looks at the result, and a failure rolls back after its
commit. `FailureKeeps` states what that comes to: every level of an unwinding
failure takes two off the depth, so that the parity of the depth decides whether
what the outermost run wrote before is saved or rolled back. At depth one all
that a failed operation wrote is saved. A failed statement, the SAVEPOINT of a
nested begin included, aborts the transaction, costs the innermost run its commit
and turns the parity round. `SuccessKeeps`: a success has saved
everything, or nothing when the COMMIT failed, whose result is not looked at.
`OpenOnlyAfterThrow`: an operation that rejects leaves the transaction open.

A statement that fails makes its operation answer a `Left`, as the repository's
methods do. An operation that hides a failed statement and answers a `Right` is not
modelled: PostgreSQL answers the COMMIT of an aborted transaction with a rollback,
so such a run would succeed and save nothing, which `SuccessKeeps` does not cover.

`Repository` adds sessions that load aggregates, change them and call `save`,
`saveMultiple`, `add` and `delete`; one of them does so in the operations of the
run. An aggregate is the set of the sessions whose change it has, which is all a
lost update is about.

| Variable | Code |
|---|---|
| `held[s][id]` | the aggregate a session has in its hands |
| `call[s]`, `found[s]` | the call it awaits, and the rows that call has looked up |
| `bound` | whether the concrete repository binds its methods |
| `saved`, `spoilt` | history, to say when a change has to stay |

The run `Persistence` has two rows (one exists at first), the runner with two
calls and another session with one; four runs, so that a failure at an even and
at an odd depth has runs around it; one failing statement (a begin,
a look-up, a write or a COMMIT). A call may fail at any of its statements
(`CallFails`) and the mapper may refuse the aggregate (`MapFails`). The update that
is lost between two sessions that hold a row is real, and outside of
`SavedChangesStay`: there is no version, so a row two sessions held at a time is
`spoilt`, and the property says that changes are lost in no other way.
`RowsCreated`, and `OthersAnswer` (liveness: sessions wait for the rows of an open
transaction). A repository that does not bind its methods (`bound`) throws within
the operation, which is one of the ways to an open transaction. Fairness: a call
that was made goes on, and so does the run; no session has to call.

## 7. Parsing and Aggregate

`Parsing` has `structSummarizerParsing`, `arrayParser`, `optionizeParser` and the
value objects parsed with them as operators. A raw value is a type and a text;
tables say which texts are numbers, dates, or too long. `Concat` and `StructErr`
are the semigroup of `parser.ts`; `Summary` says what it should come to, without
a semigroup. `MaxIndex` bounds the index of an array: the keys of an array's errors
are the texts of the indices, and `ParsingAssumption` asks that the texts up to the
bound differ, which TLC evaluates and the proofs use.

`Aggregate` has an aggregate as an application declares it, with a property of
each kind, through its life: `form` (given to the factory), `refused`, `live`,
`reloaded`, or `lost` (its snapshot is refused).

| Variable | Code |
|---|---|
| `entity`, `behaviour` | the aggregate, and the `BehaviorMonad` under construction |
| `report` | the last error |
| `sent` | what `run` gave the dispatcher |
| `stored`, `saved` | the snapshot, and the aggregate it was made of |
| `uuids`, `commands` | bounds |

The run `Domain` takes every combination of forms in which fields and fields of
value objects are wrong, with an array of eleven items (the order of indices is
not that of their texts), and up to three chained commands. What it shows:

* `RefusalsNameTheFields`: two or more errors come as a dictionary by field, one
  alone comes without its field; arrays keep their order.
* `EventsAreTheHistory`: the events of a behaviour, and what is dispatched, are
  the history with the newest first; initial events come last of all.
* `TagsStayDistinct`: no two equal items, unless a form or a reducer brought them.
* `ReloadKeeps`: a reload keeps the props, but not `updatedAt` (a snapshot has the
  time of creation there); the id is kept with `autoGenId` off, and by default it is
  not (Findings). And after a removal it loses the items: `remover` stores what
  `Array.deleteAt` answers, which is an option (entity.base.ts:274), so the next
  command on the property is refused and a reload parses it to nothing. The test
  of the remover (`__test__/model/aggregate.test.ts:190-222`) looks for an item in
  an object and cannot notice.

Modelled as they are, and worth knowing: no type of a file passes the predicate
of `FileTypeTrait`, which looks for an index of an array of one array
(File.ts:28-29); the pattern of file URLs loses its backslashes in a template
literal; a value object keeps its raw input (value-object.base.ts:50), so a
verified flag `'false'` stays a string and `WithKycPrim` has no `kycInfo`.

## 8. Findings

* `UowTwice`: the map of query runners is keyed by correlation id alone. Two
  concurrent calls with one id break the promise of the comment on `execute`
  (unit-of-work.ts:51-56): the second call's entry replaces the first one's, the
  first call's later writes go to the other transaction, and a part of them is
  saved.
* `DeliveryOtherException`: message-listener.ts:49-50 says that an exception
  other than a `MessageException` rejects the message; `handleDelivery` requeues
  it whenever the listener has `isRetry`.
* `DeliveryClose`: `close()` says it shuts the connection down
  (message-consumer.ts:269-278). When the connection breaks while the
  cancellation is awaited, `queue().close()` is not reached, `_closed` is never
  read, and the listener reconnects and consumes.
* `DomainGivenId`: the test of equality (`__test__/model/entity.test.ts:77-91`)
  makes two entities with the id `'id1'` and expects them to be equal. By default
  the factory generates an id whatever it is given (entity.base.ts:81), so that
  neither these two nor an aggregate and its reload are.

## 9. Proofs

`MessageDelivery_proof`, for any queues, consumers, messages, types, prefixes
and number of failures, from `DeliveryAssumption` (types of the constants only):

* `DeliveryCorrect`: `Spec => []DeliveryInv`. `AckedWasHandled` alone is not
  inductive: that an id is marked when a message is acked needs it to be marked
  when the handler is about to ack (`AckingIsHandled`), for the queue the
  message came from (`HandlersAreListeners`), and that the message still belongs
  to the handler whenever its channel is usable (`HandlerHoldsMessage`).
  `MarkingHadEffect` and `HandledHadEffect` relate marks to effects. There is
  one lemma per group of actions and one step per conjunct.
* `DeliveryTypeCorrect`, `AckAfterMark`, `SettlesItsOwn`, `NothingSwallowed`: the
  consequences.
* `ListenersImplementEventHandling`: under `PrivateKeys`, every step maps to a
  step of `EventHandling` or to a stutter.

`DeliveryOrder_proof`, for finitely many consumers besides, adds to `DeliveryInv`
what the prefetch of one gives (`PlacesInv`): a message is outstanding at a
consumer of its queue only (`HeldByListener`) and a consumer has one at most
(`OneAtATime`); while channels last an open one stays open and no handler of an
earlier one is left (`OpenForGood`); what is dispatched is not marked
(`DispatchUnmarked`, from `OneHandler`: two handlers of one event in one queue are
the same).

* `HandledInOrder`: a message that is delivered heads the queue, and the earlier
  ones are neither ready nor, with one consumer and nothing outstanding, held.
* `AutoAckConsumersStall`: the consumers of the messages taken are distinct, so
  `FS_Injection` counts them.
* `MarkedIsFinal`: the action property, from `DispatchUnmarked`.
* `OncePerFault`: `AtMostOncePerFault` is proved from a sum that no step raises by
  more than it raises `faults` (`DebtInv`): the effects an event had, the handlers
  on their way to another (`Under`), one more while the event is unmarked and no
  handler can settle it (`Due`), and the consumers being cancelled, whose message
  comes back after the failure was counted (`Leaving`).

`UnitOfWork_proof`, for any calls, nesting, pool size and failures, from
`UnitOfWorkAssumption` and `DistinctIds`:

* `UnitOfWorkCorrect`: `Spec => []UowInv`. `UowInv` says for each call where its
  runner is registered (`OwnRunner`), the state of its transaction
  (`OwnTransaction`), its writes (`OwnWrites`) and its answer (`OwnAnswer`), for
  each value of `pc`. An action is proved for its own call, and the lemma
  `CallsAreSeparate` carries every other call over: this is where distinct ids
  are used.
* `Atomic`, `AnswersAreTruthful`, `ReleaseIsClean`, `CleanupIsComplete`: the
  consequences.
* `SuccessIsOwn`, without `DistinctIds`: with shared ids a call may find the runner
  of another registered, so `UowInv` does not hold. `SharedInv` says only what a
  call decides by itself - what its completion answered and that a transaction once
  committed stays so - which is enough for `SuccessIsOwnCommit`.

`ListenerSetup_proof`, for any routing keys, queues, connections and failures,
from `ListenerAssumption`:

* `ListenerCorrect`: `Spec => []ListenerInv`. `ConsumerIsBound` needs to know of a
  setup that is past its queue that the queue is still there with the bindings
  answered so far (`QueueLasts`), through deletions that other setups cause; that
  a setup's channel is one of an existing wrapper (`SetupPlaces`); where the
  consumer comes from (`ConsumerPlace`), and that a call that waits closes a Queue
  there was (`TargetPlace`). `EventsLast` carries an event from queue to handler and
  back, for which a delivery has to be held by a consumer of this connection, from
  a queue there is (`DeliveriesLast`). Everything the broker does is a deletion of
  queues or a closing of channels, and the lemmas `TakingKeeps`, `ClosingKeeps` and
  `ShrinkKeeps` are about these.
* `ConsumersAreBound`, `ReadyListenersKeepEvents`, `ReadinessHolds`: the
  consequences.
* `CopiesPerWrapper`: a fixed name has one copy of the event, which is in one place;
  otherwise the copies that were settled and those that wait in a queue of this
  connection or are held are no more than the wrappers (`CopiesInv`). A queue's name
  tells which connection made it.

`TransactionMonad_proof`, for any rows, nesting and failures:

* `TransactionCorrect`: `TxSpec => []TxInv`. While all goes well depth equals the
  number of runs and everything written is pending (`Forward`); after a failure
  depth is twice the number of runs left less the level of the failure
  (`Unwinding`, `Left`), which is where the parity comes from; after a COMMIT
  that failed there is nothing left to roll back (`NothingLeft`).
* `FailureIsParity`, `SuccessSavesAll`, `OpenAfterThrow`: the consequences.

`Repository_proof`, for any sessions, rows and calls:

* `RunsKeepByParity`: the theorems above hold of runs that work through the
  repository, whose steps are steps of a run by the way they are written.
* `SavesCreateNoRows`: by an invariant that every deletion that is pending, or to
  which a savepoint goes back, is recorded (`GoneIsSpoilt`).
* `SavedChangesAreKept`: of a row that two sessions never held at a time
  (`UpdatesInv`), its holder is the only one to write it and has it as it is
  (`OneHolder`, `HeldIsCurrent`), and a saved change is in the row, in what is
  pending and in every savepoint that has the row (`SavedIsThere`), so neither a
  commit nor a rollback loses it. That savepoints nest (`SavepointsNest`) keeps a
  rollback from bringing back a row another session has written since.

`Parsing_proof`, for structs and arrays of any size, from `ParsingAssumption`. What
is computed by a fold, or by numbering a set, is proved by looking at a smallest
exception: `LeastNatural` has one for every set of numbers that is not empty, since
`<` is well-founded, and `EveryNatural` is the induction that follows.

* `SummaryIsComplete`: `structSummarizerParsing` answers all the values, or
  `Summary`. The fold of `Concat` over the errors is the only solution of an equation
  over sets of positions (`FoldIs`), and a dictionary of the errors so far solves it
  (`FoldOfErrors`).
* `ArrayParserIsComplete`: `arrayParser` answers the values in the order of the items,
  or the errors of all items that failed, by index.

`Aggregate_proof`, for any forms, names, tags, equality of tags, ids and number of
commands, from `AggregateAssumption`: a form has its tags as an array, every list of
tags is within `MaxIndex`, and ids are never generated twice.

* `AggregateInv`: `Spec => []Inv`. What a parser took it takes again of the raw value
  the value object holds, with the same answer (`IsProps`), through every command: a
  reload rests on this. The snapshot is that of an aggregate with these props
  (`Stays`), its id one of the first that were generated, and until a command is
  performed its tags are the form's (`IsKnown`).
* `TagsStayDistinctHolds`: the adder and the remover (`AdderIs`, `RemoverIs`) make
  lists of tags with no equal two out of such lists.
* `EventsAreTheHistoryHolds`: every command answers an event with its own effect on
  the props (`IsCommand`), and replaying is a fold that takes two lists one after the
  other (`ReplayBoth`); hence a chain, and the initial event of a run, replay.
* `ReloadKeepsHolds`: of a snapshot no field but the tags can be refused
  (`SnapshotIs`), and the tags only for one that is `Refused`.
* `RefusalsNameTheFieldsHolds`: from `SummaryIsComplete`.

Every safety and action property of the passing runs is thus proved. Model-checked
only: all liveness (`EventuallyHandled`, `EventuallySettled`, `EveryCallAnswers`,
`EventuallyConsumes`, `OthersAnswer`), since fairness is beyond the prover here.

## 10. Definitions called Bug...

Next to some definitions stands a variant whose name starts with `Bug`: a
plausible mistake in the same code (a mark that is not awaited, a missing
`finally`, a key without its prefix). They take no part in the specifications.
`PROJECT.json` ("mutants") says which property fails when the variant replaces
the definition, and so which mistake each property would catch.

## 11. Not modelled

* Of the broker components: `Exchange` and `Queue` objects used without a
  listener, their publishing, and the static factories that differ from the one
  `attachToQueue` uses in their arguments only. Of the consumer: `receiveAll`
  (`receiveOnly` without types) and `closeChannel`, which only the unbound
  cancellation callback would call.
* Of the repository: paging and ordering, and `inject-repository.ts`, whose factory
  calls itself before it does anything else.
* Of the model layer: names, e-mail addresses and URLs (a regular expression
  each), the assertions, the generic queries and lenses.
* The JSON reader and the notification reader: lookups of paths in a parsed value,
  on which nothing modelled depends.
* The application layer's declarations, exceptions and fp aliases, ORM columns and
  configuration, the loggers and the authentication set-up (no control of their
  own); the generated documentation under `docs/`.
