# Verification of gffg

gffg is a small RPC framework in Go. A *server* accepts TCP connections, reads
framed requests, queues them for a pool of workers and writes framed replies. A
*client* keeps a pool of connections per service, gives every call a serial id
(Sid) and hands each reply to the goroutine that waits for that Sid. A *registry*
names the nodes of a service, *metrics* batches measurements into Kafka, and a
*config* reader gives the values of an XML file.

This directory holds TLA+ modules translated from the source, TLC configurations
that check them on small instances, and proofs checked by TLAPS.

## Inventory

| Part | State it keeps | Operations | What makes it correct |
|---|---|---|---|
| Client call: `client/client.go`, reply callback and `destroy` in `client/pools.go` | `callItem` (Sid to CallCond), `wrw`, one channel per call, the Sid counter | `Call`, `call`, the callback of `connect`, `destroy` | a call that succeeds holds the answer to its own request; nobody closes a channel twice or sends on a closed one; entries do not pile up; every call returns |
| Connection pool: `response`, `genCon`, `removeByClient` in `client/pools.go` | `rpcconn` (service to at most 8 connections), `rw` | pick and refill, remove on close or on a failed write | at most 8 connections; a dead one is not handed out for ever; a live one is not forgotten |
| Framing: `transport/socket.go`, `response.go`, `header.go` | header and data buffers, bytes read so far | `onRecv`, `Write`, `Encoder`, `Decoder`, `Check` | the frames written are the frames delivered, in order and whole; a corrupt header is never taken for another size |
| Listener: `transport/listener.go` | socket, shutdown channel | `openSocket`, `StartAsync`, `blockListen`, `Close` | one reader per connection |
| Server: `server/server.go`, `handler.go` | `reqCh`, `reqs`, `conns`, the workers, a context | `onRecv`, `goRecv`, `handle`, `reply`, `connect`, `closed`, `Release` | at most one reply per request, to the connection it came from; a reader never blocks on the queue; counters return to zero; the workers end with the server |
| Registry: `registry/registry.go` | provider or consumer role, the client of the naming service, a heartbeat | `Provider`, `Consumer`, `Register`, `GetNode`, `Limiter`, `Destroy` | registered before use, deregistered once |
| Metrics: `metrics/metrics.go` | a bounded channel, a batch | `to`, `loop`, `report`, `combine` | a caller gets through; no accepted item is lost or sent twice |
| Kafka: `kafka/product.go`, `consumer.go` | partition consumers, a signal channel | `Product`, `Consume` | `Consume` ends when asked to, and all of it |
| Config: `config/*.go` | the tree of the XML document | `Get`, typed readers | the value named by the path, or the default |
| Wire types: `proto/packet.pb.go` | | `Size`, `Marshal`, `Unmarshal` | what is written is read back, also by an older program; half a message is not taken for a whole one |
| Helpers: `common`, `zzlog`, `tools`, options | | method ids, trace ids, closed-channel test, logging, pprof | |

How they interact: `Client.Call` asks the pool for a connection, which may dial and
start a reader goroutine for it; callers, readers, timers and `Destroy` share
`callItem`, the channels in it and the lock `wrw`. A connection carries frames both
ways. On the server, a reader goroutine per connection feeds `reqCh`, and workers
take requests from it and write replies to the connection of each request, so
replies come back in any order. The pool learns of a dead connection from its
reader's callback and from a failed write. Server and client both report to metrics.

Hard behaviour: many goroutines on one map and one RWMutex, a rendezvous held under
a read lock, a timer racing a late reply, several parties closing one channel,
`Destroy` in the middle of calls, connections that die between being chosen and being
written to, queues that are checked and then filled by several readers.

## Modules

| Module | Models | Role |
|---|---|---|
| `RpcContract` | what a call promises its caller | abstract specification |
| `RpcCall` | client call path | component, refines `RpcContract` |
| `MCRpcCall` | | symmetry for TLC |
| `RpcCallProofs` | | theorems about `RpcCall` |
| `RpcServer` | server: readers, queue, workers, replies | component |
| `ServerLife` | `Run`, `Release`, the listener and the registry around `RpcServer` | composition |
| `MCRpcServer` | | which connection sends what |
| `RpcServerProofs` | | theorems about `RpcServer` and `ServerLife` |
| `RpcSystem` | clients and the server they call, over one set of connections | composition of `RpcCall` and `ServerLife` |
| `RpcSystemProofs` | | theorems about `RpcSystem` |
| `ConnPool` | connection pool of a client | component |
| `MCConnPool` | | symmetry |
| `ConnPoolProofs` | | theorems about `ConnPool` |
| `Header` | the eight bytes of a header: `Encoder`, `Decoder`, `Check` | component |
| `FrameChannel` | what a connection promises: whole frames in order | abstract specification |
| `Framing` | `Response.Write`, the stream, `Socket.onRecv` | component, refines `FrameChannel` |
| `MCFraming` | | who shares a `Response` |
| `FramingProofs` | | theorems about `Framing` |
| `MetricsBox` | what the metrics promise: everything accepted, once, in order | abstract specification |
| `Metrics` | `obj`, `to`, `loop`, `combine`, `report` and the producer | component, refines `MetricsBox` |
| `MCMetrics` | | instance for TLC |
| `MetricsProofs` | | theorems about `Metrics` |
| `KafkaConsumer` | `Consume` and its goroutines | component |
| `MCKafkaConsumer` | | instance for TLC |
| `KafkaConsumerProofs` | | theorem about `KafkaConsumer` |
| `Varints` | `sovPacket`, `encodeVarintPacket`, the loop that reads a varint | pure operators |
| `Wire` | `Size`, `Marshal`, `Unmarshal` of the messages, `skipPacket` | pure operators |
| `Config` | loading, the lookup of a setting and its readers | component |
| `Values` | | messages, headers and settings on their way through `Wire`, `Header` and `Config` |
| `MCValues` | | instance for TLC |
| `ValuesProofs` | | theorems about `Header`, `Config`, `Varints` and `Wire` |

### RpcCall

| Model | Code |
|---|---|
| `pc[c]` | where the goroutine of a call is between `Client.Call`'s first line and its return |
| `sid`, `counter` | `Sid()` of `client/common.go`, an atomic increment |
| `callItem` | `pool.callItem`; the channel of an entry is named after the call that made it |
| `closed` | the channels that have been closed |
| `wWriter`, `rlocks` | `pool.wrw`: a writer announces itself (`wWriter`), which stops new readers, and enters when all readers have left; `rlocks[k]` is what the reader of connection `k` holds |
| `hpc`, `hmsg` | the reader goroutine of each connection and the reply it dispatches |
| `wire`, `inbox`, `served` | requests a server has, replies on their way, and the code each request was answered with |
| `dpc`, `dTodo` | `pool.destroy`, closing channels one at a time |

Each action is the code between two points where another goroutine can interfere:
taking a lock is two steps (announce, enter), what happens under the write lock is
one. The send on the unbuffered channel is a rendezvous (`Deliver`) with a call in its
`select`. A panic under `Client.Call` ends in its `recover`: the call returns a nil error
and no packet, and `wrw` stays locked; a panic in the reader's callback leaves its RLock
taken. The server is what a client can tell of `server/server.go`: one answer at most per
request, in any order, or none (`RpcSystem` puts the server in its place). Marshalling, headers other than `onlyCall`, logging
and metrics are left out.

`RpcContract` says a call is issued once, the service answers it at most once, success
hands back that answer, and a call may fail at any time. The mapping reads the status
of a call off `pc` and `ret`.

`Client.Destroy` first calls the `Destroy` of the registry. In a process that is no server the one
of `registry/registry.go` ends in `zzlog.Fatal` there (`registry.go:127`), so nothing that follows
happens. `DestroySockets` to `DestroyEnds` are for a registry whose `Destroy` returns: another
implementation of the interface, or one with which this process has also registered a server.

### RpcServer

| Model | Code |
|---|---|
| `reader[k]`, `held[k]` | the goroutine in `Socket.onRecv` of connection `k`, and the request it has decided to push (`Server.onRecv`) |
| `reqCh` | `Server.reqCh`; `Cap` is `server/channels`, `Margin` the 10 that `onRecv` keeps free |
| `worker[w]`, `job[w]` | the `goRecv` goroutines: idle in the select, at the limiter, in the method, leaving `handle` by its deferred functions, or gone |
| `answers[r]` | the codes written to the connection of a request |
| `reqs`, `conns` | the counters of the server |
| `panicked`, `crashed` | methods that panicked, and a panic that `recover` turns into another |
| `released` | `Release` has cancelled the context |

`onRecv` is two actions, because the length of the queue is looked at before the push:
`OnRecv` refuses or decides to push, `Push` blocks while the queue is full. `handle` is
split at its two blocking calls, the limiter and the method; its deferred functions are
`Leave`. `Garbage` are packets that do not unmarshal, `Unknown` the requests without a
method: both are dropped, and a refusal of garbage is dropped too. What the limiter says
and how a method ends is a free choice. A `Sid` of 0 counts as an only-call.

The interrupted connection of a client is `Close`, at any time between two requests. A
write to a closed connection fails without a trace, as `reply` ignores the error.

### ServerLife

| Model | Code |
|---|---|
| `life` | where the goroutine is that calls `Server.Run` and, when the program ends, `Server.Release` |
| `registered` | what the registry has: nothing yet, the address, nothing any more |

`Bind`, `Listen`, `StartAsync` and `StartWorkers` are `Run`: the socket is bound and the address
entered into the registry inside `NewListener`, before the accept loop and the workers are started.
`Destroy`, `CloseSocket` and `Cancel` are `Release`. The steps of `RpcServer` happen unchanged,
those of readers from `StartAsync` on, those of workers from `StartWorkers` on; `Release` of
`RpcServer` is the last step of `Release` only. What the code does at the ends is part of it: a
registration that is refused ends the process (`registry.go:121`); `openSocket` does not look at what
the event `Listen` returns, so a host without an address serves unregistered; `Release` panics in
`deregister` if there is no address; the registry's refusal to take the server out is ignored, and
it goes on to offer a server without workers; the accept loop and the readers go on after `Close`; a second `Release` panics.

`WorkersLeave` is about the end: `cancelFunc` must reach every worker, also one in a method, while
requests are still pushed. Which ready case of its select a worker takes is a free choice; it leaves in the end
because the requests are finite in number, in the code because the choice is random. That no client is sent to a server that has stopped is not
a property: the registry may refuse the deregistration, a crashed process stays registered, and the order in
`Release` is that of three lines.

### RpcSystem

`RpcCall` has a server that answers what it likes when it likes, and `RpcServer` gets requests from
nowhere. `RpcSystem` puts them together: its variables are those of both, a request is a call on the
connection that `pool.response` chose for it, and `Server` is the instance of `ServerLife` with these
requests. A step is one of the clients (`ClientStep`, with the server unchanged, and only once the
server has bound its socket) or one of the server (`SystemServerStep`), which

- receives only what a client has written (`Received`): the packet of the request is in `wire`;
- changes the clients' side in one way only: what `reply` has appended to `answers` is what the
  client gets to read (`Transmitted`).

A packet stays in `wire` until it is answered, as `RpcCall` has it, so `wire` is the network, the queue
and the workers of the server together. The ends of a connection close independently of each other, as
they do with TCP: `open` is the client's, `reader[k] # "closed"` the server's. The composition chooses
nothing for the parts: that the server's steps are steps `RpcCall` allows (`SeenByClients`) is checked
and proved, not assumed.

### Metrics

| Model | Code |
|---|---|
| `pc[c]`, `calls[c]` | a goroutine in `obj().to`, and how many metrics it has built |
| `once`, `created` | the `sync.Once` and whether `_m` is set |
| `mCh`, `lpc`, `lists` | the channel, the loop and what it has collected or has still to report |
| `published`, `lost` | the batches the producer has sent and those it failed on |

`To` and `Send` are two actions, as the length is looked at before the send. `CreateFails` is the
panic of `NewProduct`, which spends the once: every later caller gets nil and panics. A metric is
named after its caller and its number; `MetricsBox` maps what is accepted and not handed over to
`lists` followed by `mCh`.

### KafkaConsumer

`pc` and `next` are `Consume`, `gor[i]` and `part[i]` the goroutine and the consumer of a partition,
`signals` the channel of capacity one that all of them share. `Consume` gives up when a partition
cannot be had and leaves the goroutines of those before it (`SubscribeFails`), so `EndsTogether`
is about a `Consume` without an error of its own. A process with n partitions needs n interrupts.
`ShutDown` is the library that gives up a partition and closes its channels: a goroutine that reads a nil
error passes it on and ends (`Error`), one that reads a nil message panics, and the process ends (`NilMessage`,
`crashed`).

### Varints and Wire

Bytes are numbers. `Shifted(x)[k]` is what the loop of `encodeVarintPacket` holds after `k` turns of
`v >>= 7`, and `Gathered(buf, i)[j]` the `wire` of `Unmarshal` once it has read byte `j`; as the bits it
sets are not set before, `|=` adds. The offset of a varint is counted by `sovPacket`, its bytes by the loop: that the two
agree is a theorem.

In `Wire` operators that may fail return a set. A packet is what `MarshalToSizedBuffer`
puts at the end of a buffer of `Size` bytes, of which `Marshal` returns the first ones: `Sized`
keeps that, so that a `Size` that is not exact shows. A map may come in any order. `SkipRound` is one round
of `skipPacket` with so many groups open, `FieldAt` one round of `Unmarshal`, `Fields` all of its rounds, and
`Decode` puts one field after the other into the message, over what is there already (`Filled`).
The loops that the generator repeats for each field are one operator each. What repeats is a recursive
function, of the place in the buffer, or of the number of fields, and not a recursive operator, so that
all of it can be proved about.

`Values` sends a message: `Send` is `Marshal`, `Read` and `ReadCut` are `Unmarshal` into the zero value,
`AddField` and `Cut` are what a newer sender and a broken stream do to the bytes in between. `IsRequest`,
`IsResponse` and `IsMetrics` say what the program makes, `NewFieldsOK` what a newer one may add.

### Config

`iconf` is the variable of that name, nil or the document of the last `Init`; `path` and `read` are the
path asked for last and what the readers made of it. `Elements` is any set of elements that has the
children of each, so documents may be of any depth. A document is its root, or nothing. `Step` is one round of the loop in `aXml.Get`: where there is no element
the lookup goes on at the document, so that after a missing element the rest of the path is looked
up from the root. As `config.Get` puts `gffg` in front of each path and no path of the code has it
again, this does no harm under a root of that name; under another root a setting may be found that
is none. `Bool` is true for the text `true` only: the `1` in `example/server/conf/gffg.xml` is false.

### ConnPool

| Model | Code |
|---|---|
| `conn[k]` | a connection: not dialed, live, lost by the peer without anyone here knowing, closed here |
| `pc[c]`, `got[c]` | a call from `pool.response` to its write, and the connection it chose |
| `pc[k]` | the reader of connection `k`: reading, in `removeByClient`, ended |
| `rpcconn` | `pool.rpcconn` of one service, as a set: the choice from it is random |
| `rw` | the call that holds `pool.rw` in `response`; removers hold it for one step |
| `destroying` | whether `destroy` holds `rw.RLock`, from its first line to its return |
| `round`, `todo`, `fresh` | the two calls of `genCon`, the attempts left and what they dialed |
| `list[t]` | the list a remover has copied under `RLock` and not yet stored |
| `stale` | observes what a stored list changed besides the removal it was made for |

Names of connections are uuids, so a connection is one value. Several services would have
one `rpcconn` each under the same lock. `destroy` is two steps. `DestroySockets` takes `rw.RLock` and closes
the connections in the pool. `DestroyEnds` is its return, when `wrw.RLock` has been granted and the channels
of the calls are closed (those are `RpcCall`'s), and only that releases `rw`. It has no fairness: where a
reader is stranded, as in `rpc_stranded`, `wrw` is never free again, and every call that wants `rw.Lock`
waits for ever. `ResponseReturns` and `EndedLeaves` say that this is all that can keep a call or a removal
waiting. A waiting `rw.Lock` keeps out new `rw.RLock`s too, so nothing is assumed of removers while `destroy`
holds the lock.

### Header

Numbers, bytes and weights stand for themselves: `PutVarint` and `Varint` are the zigzag
varint of `encoding/binary` cut to four bytes, `Sign` and `Unsign` the permutations in
`Encoder` and `Check`. The state is one header on its way, of which at most one byte is
damaged. `MaxSize` is the largest size that four bytes have room for; beyond it `PutVarint`
panics before anything is sent.

### Framing

| Model | Code |
|---|---|
| `wpc[w]`, `size[w]` | a goroutine in `Response.Write` and the length of its packet |
| `ResponseOf[w]` | the `Response` it writes through, whose `rw` it holds in `write` and `put` |
| `wpc[w] = "put"`, `frame[w]`, `put[w]` | it holds the lock of the connection, and how far its frame is in the stream |
| `sent` | frames in the order in which they enter the stream |
| `stream`, `read` | every unit put into the connection, and how many were taken out |
| `phase`, `want`, `buf` | which loop of `onRecv` runs, the length it reads for, what `headerBuffer` or `dataBuffer` holds |
| `delivered` | the packets given to the callback |
| `conn`, `cause` | open or closed by an end or broken for writers, and why `onRecv` returned |

A unit of the stream names its frame and its place, so that a byte out of place is seen. A
piece may end anywhere. A header that is not made of the first units of one frame is
refused (what `Header` shows is the part of that which the bytes decide). A body longer than
`dataBuffer` makes the slice panic at the first read; the deferred function recovers and
closes. Writers may share a `Response`, as the calls of a client do, or each have their own,
as the replies of a server do. Empty packets are not written. One direction of a connection is
modelled; the other is the same code. `RpcCall` and `RpcServer` use a connection as
`FrameChannel` describes it, without the order, which they do not rely on. Packets are values: that
`onRecv` hands over a copy and not its buffer (`socket.go:182-183`) is taken for granted, and nothing
here would fail without it.

## Runs

| Run | Instance | Question |
|---|---|---|
| `rpc_timeout` | 2 calls with timers, 1 only-call, 2 connections, code 0, Destroy | replies, channels and entries stay in order until Destroy; no foreign packet even then; Destroy panics only over failed writes |
| `rpc_live` | 2 calls, one with a timer, 2 connections, codes 0 and 505, fair | unless a reader is stranded a call with a timer returns and a reply that was read reaches a call without one; refines `RpcContract` |
| `rpc_stranded` | 1 call | violation: a timed-out call that never returns |
| `rpc_destroyed` | 1 call, Destroy | violation: success without a packet |
| `server` | `ServerLife`: 2 connections, 4 requests (a call, an only-call, one without a method, one garbage), 2 workers, queue of 2, margin 2, fair | one answer per call, counters, free readers; every queued request is handled; after `Release` every worker leaves |
| `system` | `RpcSystem`: a call with a timer, an only-call, 1 connection, 1 worker, queue of 1, Destroy and Release | what a call returns is what the server did; nobody waits for nothing; the server is the one `RpcCall` knows |
| `pool` | 2 calls, 3 connections, pool of 2, fair | the pool keeps its size; only stale lists forget or revive a connection; calls get through `response`, ended connections leave, unless destroy keeps the lock |
| `pool_eight` | 3 calls, 4 connections, pool of 2 | violation: more live connections than the pool has places |
| `framing` | 3 writers, 2 locks, 2 sizes (one too large), header of 2, 2 units on the way, 2 frames, read deadline, fair | whole frames, in order, none refused; refines `FrameChannel`; frames arrive or the connection ends; `Write` returns; an end is noticed |
| `metrics` | 2 callers, 3 metrics each, channel of 2, margin 1, batches of 2, fair | one loop; the channel's bound; refines `MetricsBox`; callers get through; what is accepted is handed over |
| `consumer` | 3 partitions, 2 messages each, fair | `Consume` ends when interrupted, and with it its goroutines |
| `values` | words of 16 bits; some 500 messages; 22 sizes of a frame, a damaged byte out of 12 values; documents of three levels, paths of up to 3 names | read is what was written, a cut is noticed; one damaged byte does not change a size; a setting is that of its path |

Bounds. `MaxSid` equals the number of calls, so no call is kept from a Sid. Two calls
and two connections make every pair of parties meet that share the lock: two writers,
a writer and a reader, two readers; the third call adds the only-call, whose reply must
be dropped. One error code stands for all of them, as the client only tells 0 from the
rest; `rpc_timeout` leaves it out, `rpc_live` has it, and the proofs hold for any codes. Timers expire at any moment, so no time is counted.

A queue of two places with a margin of two is full as soon as one request waits, so refusal,
acceptance by two readers at once and a full queue are all a few steps away. In `system` a queue of
one with a margin of one refuses as soon as one request waits, so that a call and an only-call over one
connection meet every fate of a request; two connections are left to `rpc_timeout` and to the proofs.
A pool of two
over three connections can be filled, emptied, filled again and overfilled. `Conns` bounds how
often it dials: with no connection left a dial can only fail.

A header of two units can be cut in the middle, and so can every body; two units on their way
may be the end of one frame and the beginning of the next, and are fewer than a body, so that no
frame comes at once. Three writers over two locks have one pair with a lock in common and two
without. Two frames are enough for one to follow another, to meet it, or to be the one that is too
large; what more of them could do is left to the proofs, which hold for any number.

A channel of two places with a margin of one is passed by two callers at once and then full; three
metrics of each caller make a list longer than a batch of two. Three partitions are one more than
an interrupt and the one that waits in the channel can wake.

In `values` a word has 16 bits and an `int32` 8, so that varints of one, two and three bytes and
negative numbers at the ends of the range occur; strings of 130 bytes have a length of two bytes.
Most fields occur set and unset, a batch has up to two metrics, a map up to two entries in both
orders. Cut messages are cut within 8 bytes of their start and of their end (`Reach`); the middle of
a long string is one case. Documents have three levels, elements of one name twice among them.

Symmetry (`CallConnSymmetry`) is used only in runs without temporal properties; the
calls of a set are treated alike, and connections are.

Fairness. `FairSpec` assumes that a goroutine that can go on does (weak fairness of each
call, of each reader and of Destroy), and that a timer in a select fires. Nothing is
assumed of the server and the network. Weak fairness is enough for `wrw`: a writer that
has announced itself keeps new readers out, so what it waits for is not disabled again.

In `RpcServer` workers and pushing readers are fair, which takes for granted that the limiter
answers and methods end. In `ConnPool` dials end and nobody is kept from `rw` for ever but by
`destroy`, of which nothing is assumed: calls are finite in number, and Go's mutex hands itself to the longest waiter. No connection has to
fail, no reader to notice, and nobody to call `Destroy` or `Release`.

`ServerLife` adds that the goroutine that is in `Run` or `Release` goes on; nobody has to call
`Release`. In `Metrics` the producer answers, if only with an error after its retries; a
select that is entered over and over takes each case that is ready in the end. In `KafkaConsumer` the
user who wants the process to end interrupts it again as long as the channel is empty, and a
goroutine that again and again finds an interrupt takes one in the end (strong fairness, because
another may take it first; Go's select and channel queues are fair to those who wait).

In `Framing` the locks of `Write` and of the connection are fair, strongly, because a waiting
writer is enabled only from time to time; a `sync.Mutex` gives itself to one that has waited.
The network takes and gives what it can or reports an error. Nothing is assumed of `Close`, of the
deadline, or of goroutines that have nothing to write.

Deadlock checking is off where the system stops by itself, once all calls have returned.

## Proofs

`RpcCallProofs` proves for any calls, connections, codes and timers, from `ConstantsOK`
(the sets are what they are meant to be, and `Nil` is none of the values):

- `TypeCorrect`: `Spec => []TypeOK`. `TypeOK` alone is not inductive: a reply must be there
  to be dispatched, a lock held to be released. `TInv` adds that.
- `AnswersCorrect`, `NoPanicBeforeDestroy`, `NoLeftovers`, `OnlyTimers`: the invariants of
  `rpc_timeout`. They follow from `IInv`, which is `TInv` and, until Destroy is called, `Inv`:
  Sids are unique (`SidInv`); the map and the calls in flight name each other (`MapInv`,
  `InMapInv`); what is locked follows from where everyone is (`LockInv`); there is one
  request per call on its way and then one reply, which is the answer to the call that drew
  its Sid (`WireInv`, `ReplyInv`); a reader that sends has stored what it sends and its
  target still waits (`SendInv`); so a call that receives finds its own answer
  (`RepliedInv`). Without `ReplyInv`'s uniqueness a second reply could overwrite the entry
  of a call that has already received. One lemma per action shows that it keeps `Inv`;
  after Destroy `IInv` asks only for `TInv`.
- `OwnPackets`: what is left of that when Destroy closes channels under their calls. `OwnInv`
  follows a packet by the Sid it was drawn under: no entry (`OwnItems`), reply (`OwnReplies`) or
  request (`OwnRequests`) carries the packet of another call, whoever panics. It does not need `Inv`.
- `OnlyLeftoversPanic`: a channel in `callItem` that is closed belongs to a call whose write failed,
  to one that has just closed it with the lock in hand, or to Destroy itself (`LeftInv`).
- `Implements`: `Spec => ContractHolds` for a client that is never destroyed, one lemma per kind of
  step, from `IInv` and `LeftInv`. `KeepsContract` says it of any behaviour in which Destroy is not
  called. With Destroy it does not hold, see `rpc_destroyed`.
- `NoReplyLost`: until Destroy the reply to a waiting call that the server has answered is in `inbox` or
  with the reader as long as the connection stands: no step of the client drops a reply that somebody
  waits for. It needs `FlagInv`: no reply to a waiting call bears the mark of an only-call.

`RpcServerProofs`, for any connections, requests, workers and queue:

- `QueueBounded`, `ReadersFree`: a reader pushes only after it saw no more than `Cap - Margin`
  requests, so the queue and the readers at their push together hold at most one request per
  connection beyond that. Inductive with `TypeOK`.
- `CountersCorrect`: each step adds to or takes from a counter together with the set it counts.
- `OneAnswer`, `NoCallForgotten`: they need `PlaceInv`, a request is in one place only (not
  sent, with a reader, once in the queue, with one worker). Without it a second worker could
  still have what the first has answered.

`ConnPoolProofs`, for any calls, connections and size:

- `PoolBounded`: the holder of the lock has as many attempts as the pool has places left
  (`SizeInv`), and a list that waits to be stored is a part of an earlier pool.
- `ForgottenByStaleLists`, `RevivedByStaleLists`: a reader cannot remove its connection before
  the lock is released (`ReaderInv`), and what is removed is not live and not in the list to be
  stored (`RemoveInv`); so only `Store` of an outdated list can break them, and it records what
  it changed in `stale`.

The same of the server with its whole life (`LifeOneAnswer`, `LifeNoCallForgotten`,
`LifeCountersCorrect`, `LifeReadersFree` and the invariants under them), since every step of
`LifeNext` is one of `RpcServer`, leaves its variables alone, or only ends the process. What any step
does to requests and answers is said once (`HandStep`, `EveryStepHands`) and used by `OneAnswer` and by
`RpcSystemProofs`.

`MetricsProofs`, for any callers, channel, margin and batch: `OneLoopOnly`, `ChannelBounded` (each
caller between its look and its send is one metric, so a send trades one for the other) and `Refines`: `Spec => ImplementsBox`; a `Send` is an `Accept`, a `Report` a
`HandOver` of the first metrics of `lists \o mCh`, all else goes unseen.

`KafkaConsumerProofs`: `EndTogether`, for any number of partitions; once `Wait` has passed no
goroutine runs and none is started any more.

`ValuesProofs`, for any sizes up to `MaxSize` and any byte:

- `HeaderRoundTrip`: digit by digit; which byte is the last one of a varint depends on the
  size, and `VarintOfPutVarint` has a case for each length.
- `OneByteFound`: one damaged byte leaves one half of the header as it was, and `Check`
  compares the halves.

and for any set of elements closed under children, any documents and paths, from `ElementsOK`, `DocsOK`
and `PathsOK`:

- `SettingsCorrect`: `ConfigSpec => []SettingOfItsPath`. The loop of `aXml.Get` is a recursive function
  over the arguments, and so is what a path means. `Recursion` shows that such functions exist and meet
  their equations, by induction (`SetInduction`, in which a set takes the place of the predicate);
  `FindsThePath` then goes through both side by side. Where an element is missing the code starts over at
  the root: under the root `gffg` no later name matches there, because no path has `gffg` again, and
  under any other root `FindsAPart` says from where the rest of the path was read.

and for words of any number of bits, from `WordBitsAssumption`:

- `VarintBytes`: after `k` turns of the loop the word lacks its last `7k` bits (`ShiftedBounds`), and `SovBounds`
  says between which powers of two it lies, so the loop ends after `sovPacket` bytes and not before. With one
  byte less in `Size` the encoder would write into the field behind it.
- `VarintReadsBack`: what has been gathered and what is left of the word make up the word after each
  byte (`GatheredSoFar`).
- `VarintCutFails`: all bytes but the last one say that more follow.
- `VarintInBounds` is about any bytes. `Unmarshal` and `skipPacket` begin each field with this loop and
  always move on.

and for the messages, from `WidthsAssumption` (an `int32` has at least 7 bits and no more than a word),
`MessagesOK` (a message is what the code makes, with finite maps, and its size fits an `int`) and `NewFieldsOK`
(a new field has a number the reader does not know and fills its bytes):

- `FieldAtMoves`: `skipPacket` moves on in every round (`SkipRoundMoves`), so where it ends is a function of the
  place in the buffer (`SkipEndsExist`), and so are the fields from there (`FromExists`). Both inductions go
  from the end of the buffer to its beginning (`Downward`).
- `MarshalPuts`: `OfSize` says of a set of encodings that each has the same number of bytes; `OfSizeCat`,
  `OfSizeTagged` and `OfSizeMap` carry it from the varints to a batch of metrics. A map needs that
  `SumFunction` adds up in any order (`SumAdds`), a sequence the same of its indices (`SizeEachIs`).
- `ReadBack`: `Whole(type, m, x, s)` says that reading `s`, wherever it stands in a buffer, takes `m` to `x` and
  goes on behind it, and that half of `s` is an error. It holds for each field alone (`IntReads`, `TaggedReads`,
  `EntryReads`) and for one encoding behind another (`ReadsBoth`), for maps in any order (`MapReads`)
  and for nested messages, each of which is proved before the one around it. `SignComesBack` is about the
  negative `int32`, which travels as a word.
- `SkipMoved`: all that is read of an encoding depends on its own bytes, not on where they stand (`Within`), so
  a field that is not known is kept as it is (`NewField`, `MessageKeepsNew`).
- `CutReadsAsWritten`: `Cautious` says that what is read of a beginning of `s` is a message of which that is
  the whole encoding. A field by itself has it because half of it is refused (`CautiousOne`); of two, what
  is cut is in the one or in the other (`CautiousBoth`). A cut may fall between two entries of a map: then
  the message has a part of the map (`Parts`).
- `MessagesIntact`, `CutsNoticed`: from these and `ValuesInv`: what is on its way is an encoding of what was
  sent, with a new field around it or without its end. The two properties alone say nothing of the wire and
  are not inductive.

`FramingProofs`, for any writers, locks, sizes, pieces and capacity:

- `TypeCorrect`, `PacketsIntact`, `HeadersTrusted` follow from `IInv`: frames lie in the stream
  end to end (`SentInv`), at most one writer is in the connection and it fills the last frame
  (`WriterInv`), every unit is where its frame says (`StreamInv`), and what the reader has in
  hand is the part of the next frame that ends at `read` (`ReaderInv`). Without `ReaderInv` a
  header could be made of the units of a body.
- `Refines`: `Spec => ImplementsChannel`. Each delivery maps to an arrival of the next number;
  that packet `d` is frame `d` is `PacketsIntact`.

`RpcSystemProofs`, for any calls, connections, workers and queue, from `SystemOK` and `ConstantsOK`:

- `SystemInvariant`: `SysInv` is the invariants of both parts that the others need, and what joins them:
  a request the server has received was written by its call on the connection it chose (`SentInv`);
  what is in the wire belongs to a call that has written (`WireOwn`); what the server has in hand is
  still in the wire (`HandInv`); and the clients' account of the answers (`served`) is the server's
  (`AccountInv`).
- `SystemImplementsClient`: `SystemSpec => SeenByClients`. A reply of the server is an `Answer` of
  `RpcCall`: without `HandInv` it could be a second one. So `SystemKeepsContract`: clients that are not
  destroyed implement `RpcContract` with this server.
- `SystemImplementsServer`: `SystemSpec => Server!LifeSpec`, so all theorems about `ServerLife` hold with
  these clients. They are used through the instance `SP`; `ServerConstants` proves what `RpcServer`
  assumes of its constants for the values they have here.
- `EndToEndHolds`: `AccountInv` with `Inv` of `RpcCall` and `CodesOfServer`, that a code the client does
  not make itself is the server's.
- `NobodyWaitsInVain`: `NoReplyLost` of `RpcCallProofs` says where the request or the reply of a waiting call
  is in the client's model, `HandStep` and `NoCallForgotten` where it is in the server's.

`ConstantsOK` of each module (`SystemOK`, `FramingAssumption`, and in `ValuesProofs` those named above,
`SizesAssumption` and `DamagesAssumption`) is all they assume.

Only model-checked: the liveness properties, which are out of the prover's reach. Every other property
of a passing run is stated by a theorem: what a run shows for one choice of the constants the theorem
says for all of them.

## Findings

- `rpc_stranded`: the reader of a connection looks up an entry and sends on its channel
  with `wrw.RLock` held (`client/pools.go:114-123`). If the timer of that call expires in
  between, the call waits for `wrw.Lock` (`client/client.go:132`) and nobody receives. The
  call never returns, and no later call gets the lock.
- `rpc_destroyed`: `destroy` closes the channels of calls in flight (`pools.go:66-68`). The
  call takes that for a reply, closes the channel again and panics; `Client.Call` recovers
  and returns neither an error nor a packet. `wrw` is left locked.
- `pool_eight`: `removeByClient` stores a list it copied before it let go of the lock
  (`pools.go:207-231`). A connection dialed in between is forgotten, open and with a reader,
  and the pool is filled up beside it: a service has more than 8 connections.

## Plan

1. `RpcContract`, `RpcCall`, `RpcCallProofs`: done.
2. `RpcServer`, `RpcServerProofs`: done.
3. `ConnPool`, `ConnPoolProofs`: done.
4. `Header`, `FrameChannel`, `Framing` and their proofs: done.
5. `MetricsBox`, `Metrics`, `MetricsProofs`: done.
6. The registry as far as the life of a server needs it, `ServerLife`: done.
7. `Wire`, `Config`, `Values`, `MCValues`: done.
8. `KafkaConsumer`, `KafkaConsumerProofs`: done.
9. `RpcCallProofs`: what holds after Destroy, and that a client without it implements
   `RpcContract`: done.
10. `RpcSystem`, `RpcSystemProofs`: done.
11. `Config` proved for all documents and paths: done.
12. `Varints`, proved for words of any width: done.
13. `Wire` without recursive operators, and proved: done.
14. Open: the registry beyond the life of a server (see below).

## Not modelled

- The registry beyond `Register` and `Destroy` of a server: `Provider` and `Consumer` create clients
  of the Polaris SDK, `GetNode` and `Limiter` ask them; their answers are free choices where they are
  used.
- `Float32` and `Float64` of the configuration, which differ in the function of `strconv` only, and
  the branches of the readers for a value that is not a string, which an XML file cannot give.
- The ticker of `Server.Run`, which reads the length of the queue twice a second for a metric.
- An `OnlyCall` is answered when it is refused, limited or fails (`server.go:198-256`), although
  `client/options.go:21` says that the service will not respond; `RpcServer` has these answers, and
  the client drops them.
- The example programs and their generated code (the same as `proto`, for other messages), logging
  and profiling: they keep no state the system depends on.
- The Polaris and Kafka libraries, the network and the Go runtime, of which only what the code can
  observe is there.

Time is not counted: a timer may fire whenever it is set.
Memory that several goroutines use without a lock is not modelled as a data race: the fields of
a `CallCond` are written under `RLock` by readers of different connections only if two replies
carry one Sid, which `ReplyInv` rules out.

