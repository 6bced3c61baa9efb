# mythunder in TLA+

mythunder is the program of a capture board. It reads frames from an FPGA
(`/dev/eimfpga`), cuts them into payloads, adds the position, time, angle and
temperature it has last received, and sends the packets to a host over one TCP
connection (libevent). The host may ask for single values over the same
connection. A record manager can keep the captured data in files.

The modules here are translated from the sources under `src/`; line numbers
refer to them. `PROJECT.json` maps each definition to its lines.

## The system

| part | source | state | operations |
|---|---|---|---|
| uplink | `datasocket.cpp`, callbacks in `main.cpp` | `m_bufev`, `m_sockstatus`, `started_`, `detached_` | `init`, `restart`, `setcb`, `submit`, `release`, `on_socket_event`, `handle_timeout` |
| capture path | `eimdata.cpp`, `boardctl.cpp` | `readdata`, `first_frame`, `m_rxevbuf` | read, header scan, `boardctl::submit`, payload loop |
| telemetry | `boardctl.cpp`, `serialport.cpp`, `hidtemp.cpp` | members of `boardctl`, `m_board` | `submit_gpstime` and its four sisters, packet assembly |
| serial receive loop | `serialport.cpp` | `gps_state`, `head_index`, `cnt`, `pdata`, `t_rxgpspkt` | one byte |
| temperature device | `hidtemp.cpp` | `m_devfd`, `ev`, `submit_temperatue` | `init`, read of events, `submit_tempature` |
| record manager | `filesysmgr.cpp`, `util.cpp` | index file, data files, `_mgrhdr`, open record | `submit`, `release`, `remove_first`, `append`, constructor |
| host requests | `main.cpp:237`, `boardctl.cpp:121` | input of the bufferevent, static reply | `on_datasock_read`, `host_request_proc` |
| thread wrapper | `thread.cpp` | `started_`, `detached_`, `flag_`, `cond_` | `start`, `detach`, `stop`, `join`, `cancel`, `suspend`, `resume`, `wait` |
| start and shutdown | `main.cpp` | the global pointers | `main`, `illegal_inst_handler` |

Five threads run: the libevent loop in `main` (all callbacks), the EIM thread,
the boardctl thread, the GPS thread and the temperature thread. A sixth, the
`DataSocket` thread, prints a line and ends. They interact like this:

    GPS thread  --submit_*-->  boardctl members  <--submit_tempature--  temperature thread
                                    |
    EIM thread --submit--> m_rxevbuf --> boardctl thread --DataSocket::submit--> bufferevent --> host
                                                                ^
    event loop: init / restart / release (m_bufev), on_datasock_read --> host_request_proc

Only `m_rxevbuf` (libevent's own lock) and the record manager (`cs`) are
protected. `m_bufev` and the members of `boardctl` are shared without a lock.

`EIMDATA` is given the record manager, but its call of `CFilesys_mgr::submit`
is commented out (`eimdata.cpp:86`); `main` constructs the manager and the
signal handler destroys it. It is modelled as the component its interface
offers.

### What makes each part correct, and what is hard

- **Uplink.** No bufferevent is lost or used after it was freed; every loss is
  noticed and repaired; the packets of one connection have no gap. Hard: two
  threads and no lock, a failed connect recorded in two ways, `release()`
  inside the loop.
- **Capture path.** Bytes reach the payloads in order and once. Hard: reads of
  any length, the scan over stale cells, unsigned differences, length and
  removal in two steps.
- **Telemetry.** A packet is never older than what was known when it was
  begun, nor is what an answer was asked for. Hard: three threads copying
  piecemeal, and a static answer of which a request renews a part.
- **Receive loop.** Never outside its packet, for any bytes; which packets it
  finds. Hard: four variables reset apart from each other.
- **Record manager.** The index describes the files; the capacity is kept;
  unsigned lengths do not wrap. Hard: a death between any two writes.
- **Host requests.** Answers match requests. Hard: a stream treated as
  messages, a static reply.
- **Temperature device.** The temperature shown is that of one report. Hard:
  reads of any number of events, cells that keep old ones.
- **Thread wrapper.** No lost wakeup, no thread that nobody can join. Hard: one
  id and one flag for any number of threads, cancellation inside a wait.
- **Start and shutdown.** A signal ends the process, and nothing is used after
  it was deleted. Hard: the handler runs in the middle of any thread, takes the
  allocator's lock, and deletes objects whose threads run on.

## The modules

| module | models | composes |
|---|---|---|
| `UplinkSession` | abstract: what the uplink promises | |
| `DataSocket` | the uplink, event loop and boardctl thread | refines `UplinkSession` |
| `CapturePath` | EIM thread and boardctl thread around `m_rxevbuf` | |
| `MyThunder` | from the device to the host | `CapturePath`, `UplinkSession`, the event loop |
| `Telemetry` | GPS, temperature and boardctl threads around the members | |
| `TelemetryWire` | packets and answers on one connection | extends `Telemetry` with `host_request_proc` |
| `Temperdev` | the temperature taken out of HID events | |
| `TelemetryText` | the conversions of the GPS hour and the temperature | |
| `GpsParser` | the serial receive loop | |
| `CFilesysMgr` | the record manager with deaths of the process | |
| `FilesysDisk` | first start, bytes in the files, full disk, failing `rm` | extends `CFilesysMgr` |
| `HostRequest` | requests and answers | |
| `Cthread` | the thread wrapper over pthreads | |
| `Lifecycle` | `main` and the signal handler, around five threads | |
| `DataSocketProofs` | proofs about `DataSocket` and `HostRequest` | |
| `CapturePathProofs` | proofs about `CapturePath` | |
| `MyThunderProofs` | proofs about `MyThunder` | cites `CapturePathProofs` |
| `TelemetryWireProofs` | proofs about `TelemetryWire` and `TelemetryText` | |
| `GpsParserProofs` | proofs about `GpsParser` and `Temperdev` | |
| `CFilesysMgrProofs` | proofs about `CFilesysMgr` and `FilesysDisk` | |
| `CthreadProofs` | proofs about `Cthread` | |
| `LifecycleProofs` | proofs about `Lifecycle` | |
| `MC*` | the instances TLC checks | |

Two models that share a module of proofs have names of their own for the
initial states and the steps: `TextSpec`, `TemperdevSpec`, `RequestSpec`.

### DataSocket

A bufferevent is an address of `Bevs`; a freed address can be given out again.
`main` is where the event loop is inside `handle_timeout`, `restart` and
`release`; each of its steps another thread can observe is an action. `submit`
of the boardctl thread is three: the test of `m_bufev` (`datasocket.cpp:114`),
the second read of it, and `bufferevent_write` (116). Writing to a freed
address loses the packet or ends the process (`alive`), and to null ends it.
`init` and `setcb` run before the boardctl thread exists and are one step,
`MainInit`. The network (`net`, `ConnUp`, `ConnLost`) is external: no route
(connect fails at once), refused, or reachable.

`raced` is a history variable: since `submit` tested `m_bufev`, a release or
restart was under way. `DanglingOnlyIfRaced` says the window is the only way to
a bad pointer; it does not say the window is harmless, and it is not.

`UplinkSession` has no pointers or status: at most one session, and each packet
the board offers joins it at its end or is dropped. While a session is open
only its first packet can be dropped, and only if its `submit` had begun before
the session was opened (`late`): it holds a null pointer, or that of the
bufferevent before. Where a packet would be dropped the process may end instead
(`Die`). The refinement maps `open` to "some bufferevent is allocated", `log` to
what was written to the one `m_bufev` points to, `n` to the packets `submit` is
done with, `late` to `Late` (`submit` is about to write, and not to the
allocated bufferevent) and `alive` to itself.

### CapturePath

A byte is its position in the device's stream, its content decides the scan.
One turn of the EIM loop is one step, since nobody else sees its variables and
`evbuffer_add` is locked. `EimRead(n)` is a read of any length: the chunk is
scanned as the do-while does it (the short behind the end included, which is
why `readdata` keeps stale cells), and the first chunk is handed on *from its
front* though shortened by what precedes the header (`eimdata.cpp:91`). So
byte `t` of the output is `OutPos(t)`: with a header `skip` bytes into that
chunk, its last `skip` bytes are not handed on, though they stand at or behind
the header. `StreamAccounted` says that these are the only ones missing
(`TailMissing`), and that nothing is doubled or moved. An odd chunk without a header, and a failed read, make the length
nearly 2^32: the add is refused, or the process ends.

### MyThunder

The capture path runs as in `CapturePath`, through `INSTANCE`, and `submit` of
the boardctl thread is `Put` or `Drop` of `UplinkSession`: the detailed
`DataSocket` need not be run along, because it is proved to implement the
session (`UplinkIsSession`). What the session adds here is the `output` of its
bufferevent, which the event loop sends (`Deliver`) and which is lost with the
connection (`Release`), a packet sent in part included. A packet carries its
number and the bytes `bufferevent_write` copied. `SubmitDies` is the exit the
unlocked window leaves. A session can be opened too late for a packet only
while the boardctl thread is in `submit` (`Connect`).

`HostBytesTile` has two parts: a received packet carries the bytes of its number
(`BytesInPlace`), and the packets of one connection, put together, are a piece
of the device's stream, each byte followed by its neighbour but for the `skip`
bytes the first chunk lost (`Follows`). `Delivered` says of each payload that is
captured whole and not yet submitted when a connection is there: if the
connection and the process last, the host gets it. Being lost does not count
as an answer to that. The answers to the host are on the same connection;
they are in `TelemetryWire`.

### Telemetry

A member is a set of words, copied in any order; each word holds the number of
the fix or sample it came from. `Fresh` and `TornOnlyIfOverlap` say what
remains true of a packet without a lock. The module has no run of its own: its
steps are taken, and its properties checked, in `TelemetryWire`.

### TelemetryWire

Extends `Telemetry` with the main thread, which copies the words of
`m_location`, `m_temparture` or `m_direction` into the static reply. Nobody ever
stores to `m_direction`; its words are 0. `replymsg` holds the words that are in
the body, and `Place` says where in it each is copied to: a copy replaces what
stood in its place and leaves the rest, and the whole body is sent
(`boardctl.cpp:138`, 144, 150, 156). `asked` are the words of the request being
answered; a request of an unknown type asks for none and gets the body as it is.

`wire` is the history of all messages of both kinds, each with what it was asked
for and with the length `wire` had when the message was begun, so that
`WireInOrder` can say when one may be older than another in front of it.
`NeverStale` and `MixedOnlyIfOverlap` say of packets, and of the words an answer
was asked for, what `Telemetry` says of packets; that no packet is older than
the one before is part of `WireInOrder`. None of the three says anything of the
rest of an answer, which may be of any age: the second half of a position
behind a temperature, or all of the answer to an unknown type. Of that,
`RestIsRepeated` says what it is: each word is the one that the latest answer
asked for it has carried.

### Temperdev

An event is its number; from it follow its report and its place. `HidRead` is
a read of all that is queued, up to the size of `ev`; the cells behind it keep
what they held. A cell never filled, or the text of a thread that reads some
other descriptor, may hold anything. The number of events of a report is a
constant, since the device decides it. `cut` records that a read met half a
report, for one of two causes; without them `WholeUnlessCut`.

### TelemetryText

The two conversions as operators over all inputs: any two characters for the
hour, any 16-bit sample. The machine around them only lets the receiver's clock
run, so that the times of successive fixes can be compared.

### GpsParser

One byte is one step, over every stream. The two lengths are constants, with
the assumption that the copy of the tag behind itself (`serialport.cpp:282`)
fits: 6 + 6 <= 43. `Frames` is a definition of the packets of a stream without
a loop; `FindsFrames` compares.

### CFilesysMgr

Each write to disk is an action, in the order in which it leaves the stdio
buffer: the clearing of the last node (`filesysmgr.cpp:514`) reaches the file
at the `fseek` before the header, after the `rm`. `Crash` can come between any
two; `Restart` is the constructor that finds an index file. `torn` records that
a removal was cut short, after which a node may be there twice and its file
name may be reused; the properties that do not survive this say so.

### FilesysDisk

Extends `CFilesysMgr`: each of its steps is taken with the bytes it moves in
the data files. `fwrite` may be short, `rm` may fail, and a death loses part of
what a `FILE` buffered. In front of it is the constructor's first start:
between the creation of the index file and its header the process can die
(`Death`), and the next start finds an index without a header (`ReadNothing`).
From there on nothing of `CFilesysMgr` applies, and what it does is not
followed further than the header it writes.

### Cthread

One object, its owner, and the threads it has created. The owner calls in any
order the remarks of `thread.h` admit. pthreads is external: whether an id may
still be used (`handle`), who is cancelled, and the mutex, which is lost when a
thread dies in `pthread_cond_wait`. The critical sections of `cond_` are one
step each. `crowd`, `over`, `joined` and `stale` are histories of what the
owner did, for properties of the form "this goes wrong only if".

### Lifecycle

`main` is the step that comes next, `handlers` the stack of handlers that runs
on top of each thread and suspends it. The kernel gives a signal to the main
thread unless it runs a handler, as Linux does. `heap` is the lock of the
allocator. Reading a deleted object goes on or ends the process (`Touch`); a
read of `m_brunning` there gives anything. The second `release()` sleeps is
longer than anything the EIM thread does but wait for the device or for a
thread a handler stopped (`SecondOver`): that is the one assumption about time.

### HostRequest

The bytes of the requests arrive in any pieces; each arrival is one call of
`on_datasock_read`, which takes up to 100 bytes (`MaxRead`) and answers the
first four. Cells nothing arrived for hold anything.

## The runs

| run | instance | shows |
|---|---|---|
| `uplink` | 2 addresses, 3 packets | `TypeOK`, `NoLeak`, `LoopConsistent`, `DanglingOnlyIfRaced`, `InitFailIsFinal`, `ImplementsSession` (refinement of `UplinkSession`), `Reconnects` |
| `capture` | chunks of up to 6 bytes, payloads of 3, 7 streams of 9 bytes | `StreamAccounted`, `SyncIsHeader`, `FirstHeaderTaken` |
| `board_to_host` | chunks of up to 6 bytes, payloads of 2, 2 streams of 8 bytes, 2 connections | `HostInOrder`, `HostBytesTile`, `Delivered` |
| `telemetry` | 2 words of position, 1 each of temperature and direction in the place of the first, a fix, a sample, a packet, 3 answers | `NeverStale`, `MixedOnlyIfOverlap`, `WireInOrder`, `RestIsRepeated` |
| `telemetry_text` | all characters, 42 hours, 18 samples | `DayEarlyOrRight`, `TruncatedAtMost` |
| `temperature` | 9 cells, 4 reports of 4 events | `TemperatureRight`, `NeverGoesBack` |
| `gps` | tag of 2, packet of 4, all streams of 11 | `PacketIntact`, `MissedOnlyIfMasked`, `FindsFrames` |
| `files` | capacity 4, records of 2 or 3, 7 records, 2 deaths | `TypeOK`, `LengthAccounted`, `NoWrap`, `OldestIsClosed`, `IndexIntact` |
| `disk` | capacity 4, records of 2, 5 records, a death running and 2 at start | `EmptyIndexIsFinal`, `NodesTellLengths`, `DiskBounded` |
| `host` | up to 3 requests a connection, reads of 8 | `BodyMatchesType`, `AnswersInOrder` |
| `thread` | 3 threads, `flag_` from -2 to 2 | `NoLostWakeup`, `ThreadsAccounted`, `ResumedGoesOn` |
| `lifecycle` | 2 signals of 2 kinds | `LateUseExplained`, `JoinOnlyInWindow`, `SignalEnds` |

Some of these invariants are conjunctions of named parts, each with its own
comment in the module, and in most modules the type invariant is a part of one
of them:

| invariant | parts |
|---|---|
| `StreamAccounted` | `StreamInOrder`, `AsManyHanded`, `TailMissing`, `PayloadsTile`, types |
| `HostInOrder` | order and gaps of what the host has, `Accounted`, types |
| `HostBytesTile` | `BytesInPlace`, one payload behind the other |
| `IndexIntact` | `CountsAgree`, the records and their files |
| `NeverStale` | `Fresh` (packets), `ReplyFresh` (answers), types |
| `MixedOnlyIfOverlap` | `TornOnlyIfOverlap`, `ReplyTornOnlyIfOverlap` |
| `DayEarlyOrRight` | the date, `HourKeepsWidth`, types |
| `TemperatureRight` | `WholeUnlessCut`, `Recovers`, types |
| `PacketIntact` | `NoOverrun`, `Contiguous`, `PublishedTagged`, types |
| `DiskBounded` | files and their bytes, `RecordsBounded`, types |
| `AnswersInOrder` | order and types of answers, `AllAnsweredIfSingle`, `AnswersBounded`, types |
| `NoLostWakeup` | `AsleepOnlyIfSuspended`, `StuckOnlyByCancel`, types |
| `ThreadsAccounted` | `ZombiesExplained`, `StaleIds` |
| `LateUseExplained` | `UseAfterDelete`, `DoubleDelete`, `EimEndsOnlyWhenTold`, types |

Why the bounds are enough:

- *Uplink*: one address is in use at a time (`NoLeak`), so two give every case:
  the stale pointer misses the new bufferevent, or aliases it. Three packets
  give a session a first, a middle and a last one. Reconnections are unbounded.
- *Capture*: the streams have a header at an even or odd place, at a chunk's
  end, split over chunks, twice, and words that look like half of one; chunk
  lengths 1 to 6 are odd and even, shorter and longer than a header. Six is the
  shortest chunk that can hold a header behind other bytes (`skip` > 0).
- *Telemetry*: a second word is enough to be of another fix than the first,
  which may be what was there before any fix; an answer and a packet in the
  making at once, and one before and one after the other; and a third answer,
  for an older and a newer position behind other data. Of two packets the
  proof speaks.
- *GPS*: packets short enough that two follow, touch or contain each other, in
  a stream with room for a rejected tag before and between them.
- *Files*: the fourth record is the first to come with a removal, the others
  follow; two deaths let one hit the repair of the other.
- *Board to host*: up to four payloads and two connections: payloads before, in
  and after a connection, lost with it and lost between two; a submit that
  misses a connection; and a first chunk that costs bytes inside a payload.
- *Disk*: the fourth record is the first to come with a removal; the first
  start and the process that runs are struck by deaths of their own.
- *Temperature*: nine cells do not hold a whole number of reports, so that a
  backlog is cut; four reports leave two for the recovery.
- *Text*: a day and its end; the samples are those around each change of the
  number of digits, since the conversion treats all between alike.
- *Thread*: a third thread lets two sleep while one is current.
- *Lifecycle*: one signal shows each place a handler can strike; the second is
  nested in it, on another thread, or after it.
- *Host*: two requests fit a read, three do not.

`CHECK_DEADLOCK` is off where the system stops: the process can die, a stream
ends, or a bound stops the only thread.

**Fairness.** `uplink` assumes weak fairness of the event loop (its timer
is `EV_PERSIST`, `main.cpp:222`), of a `submit` that has begun, and of a
connect to a host that is reachable; nothing of hosts that are not, and no
order between threads. `board_to_host` assumes that the boardctl thread keeps
running and that the event loop sends the output of a connection that stays,
and nothing of the device. `thread` assumes only that a thread in `wait` that
can take the mutex takes it. `lifecycle` assumes that threads and handlers that
can go on do, that the allocator's lock is given back, and strong fairness for
those who wait for it, since it is free again and again; nothing of the device
or of `main`. These are stated for all holders of the lock, and all handlers,
together, which is the same: one thread at a time holds it, and handlers end.

What the properties say about weak points of the code, since they hold:
`InitFailIsFinal` (a board that boots without a route never retries),
`DanglingOnlyIfRaced` with the exit `alive = FALSE` (the unlocked window
exists), `StreamAccounted` with `skip` (the tail of the first chunk is lost and
bytes before its header are sent), `RestIsRepeated` (an answer carries what
nobody asked for, as old as it may be), `SyncIsHeader` (the short behind the
chunk can be taken for half of a header; its guard leaves that out), `MissedOnlyIfMasked` (a `$` just before a
packet hides it), `LengthAccounted` (each death can leave the length wrong for
good), `DiskBounded` (and so can it leave up to three files more than the
capacity has room for), `AnswersInOrder` (only for requests that arrive whole), `WireInOrder` (an
answer can overtake an older packet), `TemperatureRight` (only for HID reports
that are queued whole), `DayEarlyOrRight` (from 16 o'clock UTC the date is that
of the day before), `TruncatedAtMost` (no tenths from 100 degrees on),
`EmptyIndexIsFinal` (one death at the wrong moment and the index is never
whole again), `NodesTellLengths` (a full disk goes unnoticed), `LateUseExplained`
(what it takes, which is a silent device or a second signal),
`JoinOnlyInWindow` and `SignalEnds` (the two ways a signal fails to end the
process), `ThreadsAccounted` and `NoLostWakeup` (what an owner of a `Cthread`
must not do).

## The proofs

`tlapm` proves every safety invariant and action property that a run checks,
and the refinement, for all values of the constants the assumptions admit.
What is said of the bounds above (addresses, packets, streams, readings,
signals, threads, deaths) therefore holds for any number of them. Each module
of proofs names its inductive invariant `IInv`, or as given here.

`DataSocketProofs`: `TypeCorrect`, `NothingLeaks`, `LoopIsConsistent`,
`DanglingNeedsRace`, `FailedInitIsFinal`, `UplinkIsSession`; for `HostRequest`
`BodyAlwaysMatches` (of both halves of the body), `AnswersStayInOrder`.
*Assumptions*: `NULL` is no address; the bounds are numbers; a read takes at
least a request (`ReadAssumption`; 100 bytes in the program).
*Argument*: `NoLeak` alone is not inductive: that the address freed by
`release` is the one `m_bufev` holds depends on where the event loop is.
`MainInv` says for each place of the loop what `m_bufev`, the bufferevents,
the callbacks and the status are; `BoardInv` what the pointer of a `submit` in
progress can be, raced or not. For the refinement `LogInv` adds that the
packets of the open session are consecutive and end with the last one disposed
of; each step is then mapped to `Open`, `Close`, `Put`, `Drop`, `Die` or a
stutter.
For the answers, what the last one says of its request is related to how many
bytes of it were taken.

`CapturePathProofs`: `StreamStaysAccounted`, `SyncIsAlwaysHeader`,
`NoHeaderOverlooked` (an action property).
*Assumptions*: lengths are positive, a stream is a function on its positions.
*Argument*: `ChunkInv` keeps the chunk with the first header behind the
reader, `BoardInv` relates what was taken out of `m_rxevbuf` to what was sent
at each place of the boardctl thread, and `HandedOn` is the rest of
`StreamAccounted` but for `TailMissing`: `PlacesKept` says that `OutPos` leaves out the tail of the first chunk and no
other place, from which `TailMissing` follows. The scan is proved to stop at the first
header the two-byte steps meet, whatever older reads left in the cells behind
the chunk.

`MyThunderProofs`: `HostAlwaysInOrder`, `HostBytesInPlace`.
*Assumptions*: those of `CapturePath`, repeated as `CaptureAssumption`.
*Argument*: the capture path keeps its own `IInv` under every step of the whole
(`C!IInv`, cited from `CapturePathProofs`); `CountInv` says that the board and
the session count alike, `QueueInv` that the output holds the newest packets
one behind the other, `HostInv` that what the host has is older and, on the
same connection, ends where the output begins. `OutputTiles` carries the bytes
along, and `Neighbours` takes the step from the places to the stream. The detailed `DataSocket` is replaced by the session `UplinkIsSession`
proves it to implement.

`TelemetryWireProofs`: `TelemetryNeverStale`, `MixNeedsOverlap`,
`WireStaysInOrder`, `AnswersRepeat`; for `TelemetryText` `DayIsEarlyOrRight`,
`OnlyTenthsTruncated`.
*Assumptions*: positions, temperatures and directions share no word, the words
of an answer are words of a position, and those of one request have places of
their own in the body (`PlaceAssumption`).
*Argument*: a member lies between the last complete reading and the latest one
and never goes back (`SensorInv`, `BehindInv`); a copy in progress has, of the
words it has, nothing older than what was complete when it began and than any
message in front of it (`CopyInv`, the same for packet and answer).
`RestInv` says of the body what `RestIsRepeated` says of the messages: what it
holds and is not being asked for is what the latest answer asked for it has
carried. The
conversions are proved by the number of digits of the sample, all 65536 of
them, and by the hour of the day.

`GpsParserProofs`: `PacketStaysIntact`, `MissedIsMasked`, `LoopFindsFrames`;
for `Temperdev` `TemperatureStaysRight`, `ReadingNeverGoesBack` (an action
property).
*Assumptions*: the copy of the tag behind itself fits the packet (6 + 6 <= 43);
a report and the cells are longer than three events (`submit_tempature` reads
the third and fourth cell).
*Argument*: `PlaceInv` ties the four variables that advance apart together at
each place of the loop. `DoneInv` says of every `$` behind the loop why it is
not a packet if it was not published. `CutInv` says that on *every* stream that
continues the present one, the definition `Frames` goes on where the loop is:
that `Frames` is what its equations say is proved by well-founded induction on
the positions. In `Temperdev`, `AgeInv` orders text and cells by age, and
`UncutInv` says that without a cut each read has begun with a report.

`CthreadProofs`: `NoWakeupLost`, `EveryThreadAccounted`.
*Argument*: `WaitsAlone` (without a crowd one thread at most is in `wait`),
`LostByCancel` (a mutex is lost only with a dead thread), `IdsGivenUp` (what
the flags say of the ids pthreads has forgotten).

`LifecycleProofs`: `LateUseAlwaysExplained`, `JoinStaysInWindow`.
*Argument*: the first handler runs on the main thread and never returns, so
`main` is where the first signal found it (`HandlersInv`, `MainInv`); a delete
is followed by the end of the process unless a handler ran elsewhere or the
device kept the EIM thread (`DeleteInv`, `ToldInv`, `OneInv`); each delete is
that of another handler, each handler that of another signal (`CountInv`, with
the cardinality of the set of handlers).

`CFilesysMgrProofs`: `TypeCorrect`, `LengthNeverWraps`,
`OldestIsAlwaysClosed`, `IndexStaysIntact`, `LengthStaysAccounted`,
`RecordsStayBounded`; for `FilesysDisk` `DiskKeepsManager`,
`EmptyIndexStays`, `NodesAlwaysTell`, `DiskStaysBounded`.
*Assumptions*: a `submit` is no longer than a record, and the capacity is at
least two records (256 MiB and 128 MiB in the program). The sums, and what
rests on them, also need the lengths of all records to fit an `unsigned long`
(`WordAssumption`), which bounds the deaths: in the program they fit for nine.
The other theorems hold for any number of deaths.

- A removal begins only when `current_length` exceeds the capacity, which is
  more than the longest record; `LengthInv` bounds the length of every node, so
  the difference cannot wrap whatever was lost. `CountInv` relates the header
  in memory, the one on disk and the index file at every point between writes.
- `FileInv` needs to know the records *while* `remove_content` moves them:
  `Rec(i)` is where the i-th one is at each moment of the copying, and with it
  every step of a removal leaves the records as they are until the header is
  written. None of it needs `rm` to have removed the file.
- `Held(u)` is the sum of the lengths of the records, or of what they exceed
  `u` by, at each moment of the copying. `AccountInv` compares it with
  `current_length`: only a death changes the difference, by one record at most.
  The bound on the records comes from `DebtInv`: each record is paid for by at
  least `DATA_REC_UNITLEN` of `current_length`, but for the open one and two
  for each death; `NumberInv` draws the conclusion from that when `release`
  has compared `current_length` with the capacity. `SumFunction` adds in an
  order of its own choosing; that the order does not matter is proved first, by
  well-founded induction.
- On the disk, each step is one of `CFilesysMgr` or none of its
  (`DiskKeepsManager`), so all of the above holds there. `StoredInv`, `TellInv`
  and `SizeInv` follow the bytes, `BootInv` the constructor. `OrphanInv` counts
  the files nobody knows by name: a death makes one at most, a failed `rm`
  another, no other step any. The bound on the files first stated, two for each
  death, turned out to be wrong in the proof. A death while `remove_content`
  copies can leave three: the open record, whose node says 0 for good; a node
  that is there twice and whose length is therefore taken off twice; and the
  file of the first record, whose node is gone. TLC finds all three after one
  death, with a capacity of 5 and records of 2. `DiskBounded` now says three.

Only model-checked: liveness, `Reconnects`, `Delivered`, `ResumedGoesOn` and
`SignalEnds`, which is beyond the prover.

## Not modelled

- The termios calls of `Serialport::init` (in `Lifecycle` it is one step that
  succeeds or fails) and `all_hid_device_report`, whose call is commented out.
- `gunparse.cpp` and the `DSPGUN` half of `serialport.cpp`: compiled out (the
  Makefile's substitution rules build without `-DDSPGUN`).
- `_read_msg`, `_read_block`, `_write`, `set_socket_param`,
  `CFilesys_mgr::report`, `temperdev::release`,
  `DataSocket::init(int, int, size_t)`: no caller.
- The SIGILL branch of the handler, which prints and returns to the illegal
  instruction; signals it is not installed for.
- The lock of stdio, which the handler's `printf` needs as its `delete` needs
  that of the allocator.
- The exhaustion of memory; a loss of power; a write to the index file that
  fails; what a record manager does with a header nobody wrote.
- The ring of the hiddev driver running over while the thread sleeps; a device
  opened in the middle of a report.

## The plan

Done: the uplink and its abstract session, the data that flows into it
(capture, telemetry, GPS, temperature, text), the record manager and its disk,
the host requests, the thread wrapper, the life of the process; the composition
from the device to the host and of packets with answers; the proofs of all
their safety properties.

Left, in this order:

1. An abstract specification of the capture path with the session, a stream of
   numbered payloads the host gets a part of, and the proof that `MyThunder`
   implements it.
2. An abstract record store (append, and forget the oldest), and the proof that
   `CFilesysMgr` implements it as long as no removal is cut short.
3. The safety half of `SignalEnds`: in which states a process that was sent a
   signal can be stuck.
