# Formal models of the pico meter adapter

The program runs on a Raspberry Pi Pico (two cores, FreeRTOS, lwIP). It reads an
Eastron smart meter over RS-485 and serves the values as a SunSpec Modbus TCP
device, with a webserver, an access point (DHCP and DNS), WiFi management, a
USB console and settings in flash. This directory holds TLA+ models of its parts,
the TLC configurations that check them, and proofs for TLAPS.

Everything is translated from the code in `src/` and `include/` of the
repository. `PROJECT.json` maps each definition to its lines.

## Inventory

Threads: lwIP's *tcpip thread* runs every network callback, one at a time.
The tasks `usb_comm_task`, `wifi_search_task`, `sunspec_server_task` and
`update_meter_task` share one priority, are time sliced over two cores, and
share most state with the callbacks without a lock.

| component | state | operations | hard behaviour | correct when |
|---|---|---|---|---|
| SunSpec server (`sunspec_modbus.h/.cpp`) | connection list (swap removal), `cur_client`, task handle and notification | callbacks accept, recv, poll, err; the task's read / execute / write | callbacks between any two accesses of the task; pcb addresses are reused; resets leave entries behind | slots accounted for, no lost wake-up, replies reach their requester, each request executed once and answered |
| DHCP server (`dhcpserver.c`) | lease table with 16-bit expiry | init, deinit, DISCOVER, REQUEST | clock wraps, offers reserve nothing, ACKs get lost | one client per address; refused only when full |
| Settings store (`persistent_storage.h`) | flash, one shared buffer, a mutex | write, read | power failure and refusals between erase and program; settings share sectors with each other and the image | a register per setting; neighbours survive |
| HTTP connections (`tcp_server.h`) | table of 4 pcbs, message buffers | accept, recv, poll, err, send_data | a response can end its own session; table full; aborts | slots accounted for, live pcbs closed once, partial responses end the session |
| HTTP responses (`tcp_server.h`, `webserver.h`) | one buffer per request, the frame being sent | set status and headers, write a body in pieces, format values, send | bodies around the buffer size; lwIP takes part of a frame, none, or refuses | everything written is sent once, in order, with the declared length; sending comes back |
| HTTP requests (`tcp_server.h`, `string_util.h`) | none | parse one segment | requests in several segments | |
| WiFi manager (`wifi_storage.h`, `main.cpp`) | credentials, host name, change flags, scan list | the task's loop; set and connect from web and USB | flags cleared after concurrent changes, a retry second that can be skipped; the list compacted while the driver fills it | newest credentials get tried; networks in reach are in the list |
| Access point (`access_point.h`) | `active`, the radio's mode, sockets of DHCP and DNS | init, deinit, from the WiFi task, the webserver and the USB console | check-then-act on `active`, a small pool of control blocks | `active` says what is up, nothing is leaked, it comes up without WiFi |
| Meter bridge (`main.cpp`, `eastron_modbus.h`) | two register images, `sunspec_mutex` | readout, copy, serve | failed readouts, readers between copies | served values are of one readout |
| Log (`log_storage.h`, `static_types.h`) | ring of 128 entries | push from every thread, iterate | pushes that meet, pushes during iteration, formatted length beyond storage | newest entries, in order; a page is complete and ends |
| NTP client (`ntp_client.*`) | address, time base, last answer | request, answer, set by hand | cached DNS answers, the end of an NTP era | never ahead, late only by the way of the answer |
| DNS server (`dnsserver.c`) | none | answer a query | packet arithmetic on cut queries | the answer stays within the buffer |
| Endpoints (`webserver.h`), USB (`usb_interface.h`) | none of their own | call the above | two callers of the same operations | |
| Passwords (`crypto_storage.h`) | one setting | set, check digest | | |
| Board support, `http_solarapi.cpp` (not built), pages, build files | | | | not modelled |

How they interact: the endpoints run inside the HTTP server's recv callback and
change settings, WiFi state and the access point; the WiFi task starts the
access point, which starts and stops DHCP and DNS; the meter task and the
SunSpec task meet in the register image under `sunspec_mutex`; every component
logs. Settings are read at start-up.

## Modules

| module | what it is |
|---|---|
| `SunspecServer` | the Modbus TCP transport and the task that polls it |
| `RequestService` | what it promises to clients that wait: one request at a time, executed once and answered to its session |
| `DhcpServer` | the lease table |
| `Settings` | what the store promises: one atomic register per setting |
| `PersistentStorage` | the store as written, down to flash sectors and pages |
| `HttpServer` | the webserver's connections |
| `WifiStorage` | credentials and host name, their setters, and the task that adopts them |
| `LogRing` | the log's ring, its unlocked pushes, and the reader that prints it |
| `MeterBridge` | a round of the meter task, and the Modbus readers of its image |
| `MeasurementBoard` | what the bridge promises to readers: rounds that appear as a whole |
| `HttpResponse` | how a handler's response is cut into frames and sent |
| `AccessPoint` | starting and stopping the access point from three threads |
| `NtpClient` | where the time of `/time` comes from |
| `DnsServer` | the walk over a query and the place of the answer |
| `WifiScan` | the list of networks between the radio and the task that compacts it |
| `MCPages`, `MCNetwork` | instances of the seven modules above, and their joint properties |
| `MC...` | the other instances TLC checks |
| `..._proofs` | theorems and proofs of the module they extend |

### SunspecServer

The tcpip thread's callbacks are one action each (`Accept`, `Recv`, `PeerClose`,
`Poll`, `Err`). The task is cut at each access to shared state: `read_bytes`
reads `conns.size()` once (`BeginScan`), looks at entries one by one (`ScanHit`,
`ScanMiss`), takes a span, clears the buffer (`Clear`), publishes its handle
(`Arm`), waits (`Take`, `Timeout`) and scans again; the Modbus actor reads the
frame (`Serve`, external code) and `write_bytes` replies to whatever entry is at
`cur_client` then. Behaviour that the model shows and a test would hardly:

- a reset by the peer never frees its slot (`tcp_server_err` looks for a null
  socket); once resets have filled the list, the next client makes
  `tcp_server_result` read the list through a null pointer (`fault`);
- the entry that a reset leaves behind receives the data of the next session on
  the same pcb address;
- a request served while its slot is moved by swap removal is answered to
  another session (`moved`), an index beyond the end falls back to slot 0;
- data before the task's first wait notifies a null handle.

The properties are stated with these cases as provisos (`moved`, `skipped`,
`resets`), which are history variables set exactly where the case happens, so
that each property says that nothing else can go wrong. With three slots a
further case shows: a swap removal can put the entry of a later session before
a stale one on the same address; the later session then has data in both, its
close removes the first, and the other is served for a session that has ended.
`ReplyToRequester` therefore asks that the requester is still open or that
nothing was reset, and the theorem shows that no more is needed.

For clients that wait for an answer before they send again, all of this comes
down to `RequestService`, and `Service` is the refinement mapping: a session is
open while a pcb is owned by it, a request is in hand from the Modbus actor to
the reply, and the list, the scans, the handle and the notification are not
seen. The promise ends when the slot in hand is moved or a session is reset
(`Disturbed`), as the specification says itself.

### DhcpServer

One action per message type plus the clock, `Start` and `Stop`. `granted` and
`until` are history variables with the exact ends of leases. The clock is taken
modulo `Unit * Units` where the code takes it modulo 2^32. A client's lease is
over when its own time is over, and the ACK that tells it may be lost. Leases
that ended more than half a wrap ago look unexpired again: the properties allow
for it, and `NoDoubleLease` shows it does no harm to clients. Renewals by
RFC 2131 carry no option 50 and are ignored by the code, so a client keeps an
address beyond half its lease only by asking again with the option.

### PersistentStorage and Settings

A write is `Call`, `Acquire` (mutex, data into the buffer), `Merge` (head and
tail of the window out of flash), `Erase` per sector, `Program` per page, and
`Return`. A byte is the set of its one bits: erasing sets all, programming
intersects. With `Faults`, `Crash` may happen anywhere, and `EraseRefused` and
`ProgramRefused` are the error returns of `flash_safe_execute`. `lost` is a
history variable with the addresses a fault has cost. The refinement mapping
takes a write as done when its window is merged: from there to the end of the
program a setting in the window is read from the buffer, else from flash.

### HttpServer

One action per callback. A request is parsed and answered inside its `recv`
callback, so `Respond` is a whole response, and `RespondCut` one in which lwIP
kept refusing a frame and `send_data` closed the session under the handler.
`Abort` is an error callback with `ERR_ABRT`, which the code ignores. Closing a
pcb that is already free is undefined behaviour: `fault` may be set, and nothing
is promised after it.

### WifiStorage

Nothing is locked here, so the setters (`connect_to_wifi` and `set_hostname` of
the webserver, `connect_wifi` of the USB console) and `wifi_search_task` are cut
at their accesses to the shared fields: `FillSsid`, `FillPwd`, `Flag`,
`StoreSsid`, `StorePwd`; `FillName`, `FlagName`, `StoreName`; and a round of the
task from `HostCheck` to `Sleep`. Settings are numbers; `text` is what a field
reads as a C string, which is what the driver takes. What the model shows:

- credentials flagged between the connect call and the end of
  `update_wifi_connection` are marked as adopted but were never tried
  (`missed`), until a retry second is met; the same window exists for the host
  name (`missedName`), and nothing repeats that one. The properties say that
  these windows are the only losses;
- two setters may leave the name of one network with the password of another,
  in RAM and in flash alike;
- the retry second can be skipped for ever, since rounds take longer than one.

The access point, which the same task starts, is a module of its own (the two
share no variable but the task's loop), and storing a setting is one step
(`Settings` promises it).

### LogRing

A push is cut at its stores: `PushRead` reads the indices, `PushStart`,
`PushWrite` and `PushFull` store them, and `Fill` is the caller filling the entry
that `push` returned. The reader of `print_errors` is cut at its reads: `Begin`
and `End` construct the iterators, `PrintEntry` prints one entry and advances,
`Finish` leaves the loop. `raced` and `disturbed` are history variables: a push
met the stores of another or its unfilled slot; a page met a push that drops an
entry. What the model shows:

- as long as pushes do not meet, the ring is the newest entries (proved). When
  they meet, two may take the same slot and one entry is lost;
- between the last two stores of the push that makes the ring full, it looks
  empty: a page that finishes there misses entries (`PageComplete` excepts it);
- `print_errors` goes on after the response buffer is full, so `/logs` shows the
  oldest entries of a long log and leaves out the newest.

### MeterBridge

`ReadFirst`, `ReadSecond` and `ReadSign` are the two readouts and the unlocked
read of `invert_watts`; `Lock`, `Copy` register by register, `Unlock`; clients
(the Modbus actor and the page /measurements) `Ask`, take the mutex, read one
register after the other and give the mutex back. `copy` numbers the copies. A register is its age in rounds, so that values of different rounds
can be told apart; a failed readout leaves the old ones of its half.

The refinement mapping to `MeasurementBoard` takes a round as posted when the
task takes the mutex: from then on a register that is still to be copied is
read from the readout, though the image holds the old one. A reader's view is
fixed when it begins; that registers it reads later are still of that view is
what the mutex is for.

### HttpResponse

The units of a response are numbered as the handler gives them. `WriteBody` is
`res_write_body` up to its loop, `AppendChunk` one loop, `EndBody` the setting of
the body view, `Format` an `append_formatted`, `Last` the final `send_data`;
within `send_data`, `Write` is a `tcp_write` that takes what fits, `Refused` one
out of memory, `GiveUp` the end of its tries, `OutputFailed` a failed
`tcp_output`. What the model shows:

- a body longer than 31 whole frames is cut off without notice, and so is a log
  that does not fit the buffer; nothing else is lost, doubled or reordered, and
  the declared length is right for all but these;
- when the session's send buffer is full, `tcp_write` is asked for zero bytes and
  succeeds: `send_data` loops for ever in the tcpip thread, though its comment
  promises "10 retries" (`tcp_server.h:477`). `SendReturns` says that this is the
  only way it does not come back.

### AccessPoint

`init` and `deinit` test `active`, switch the radio, start or stop DHCP and DNS,
and set `active` at the end; the threads that call them are cut at each of these
steps. `overlapped` is a history variable: two threads were inside at once. Then
control blocks leak, or `active` is left set with the radio off, and nothing
starts the access point again. Without an overlap `active` is right (proved).

### NtpClient and DnsServer

`UpdateTime` sends a request only when lwIP's DNS entry has expired (a cached
address takes the branch that does nothing more); `DnsFound`, `DnsFailed`,
`Expire`, `Answer` and `Lose` are the network, which may deliver an answer
twice or late (`Recv`); `SetTime` is the browser. The 32-bit timestamp is sign-extended,
which is right only because the correction for the era that ends in 2036 undoes
it: `ClockBehind` checks both sides of the end of the era.
`DnsServer` is the walk over the labels of a query, with label lengths and the
length of the packet chosen freely, and the place where the answer is written.

### WifiScan

`update_scanned` and the driver's callback `_scan_result` share the list without
a lock, so both are cut at their accesses to it: `CheckScan`, `StartScan`, then
`remove_if` from the back (`BeginSweep`, `TestEntry`, `SwapLast`, `Shrink`,
`EndSweep`); `Hear`, the callback's loop `LookAt`, and `Refresh`, `Overflow` or
`Reserve`, `Grow`, `FillEntry`. `raced` is a history variable: both were in the
list at once. What the model shows:

- the condition that should force a new scan after 10 seconds
  (`wifi_storage.h:91`) subtracts the wrong way round and the difference is
  unsigned, so a scan in progress is started again from the next second on;
- a network heard after the task read the clock counts as old, by the same
  unsigned difference, and is removed though it was just seen;
- when both meet, an entry may be lost, doubled, or come back, but the size stays
  within the array (`ScanTypeOK`), and as long as they have not met the list is
  what it should be (`ListIsRecent`).

### MCPages and MCNetwork

The parts of these instances share no variable, so each runs while the others
stay in an initial state: that covers every behaviour of each part, and avoids
the product of their states. `part` says which one runs.

## Runs

| run | checks | shows |
|---|---|---|
| `sunspec_any` | types, `SlotsAccounted`, `OpenIsListed`, `NoLostWakeup`, `ReplyToRequester` | any clients, resets and closes in every interleaving with the task |
| `sunspec_polite` | `IsRequestService`, `RequestAnswered` | clients that wait for their answers: the server refines `RequestService`, and each request is answered |
| `dhcp` | types, `NoDoubleLease`, `OfferIsFree`, `RefusedOnlyWhenFull` | three clients, two addresses, more than one wrap |
| `storage_faults` | types, `OnlyOwnWriteChanges` | power failures and refusals at every step |
| `storage_faultless` | `IsSettingsStore`, `WriteReturns` | refinement of `Settings`, and progress |
| `storage_ok` (violated) | `OkMeansStored` | `PICO_OK` is returned although nothing was stored |
| `http` | types, `OpenHasSlot`, `SlotsAccounted`, `ClosesLivePcbs`, `CutIsClosed`, `FullEnds` | every end a session can have |
| `http_reset` (violated) | `ResetClosesNoOther` | one client's reset closes all |
| `wifi` | types, `TriedUnlessMissed`, `FlashFollows`, `NameAnnounced` | both setters against the task |
| `wifi_usb` (violated) | `TriedAsStored` | the driver is given more than what was stored |
| `pages` | types, `RingIsNewest`, `PageInOrder`, `PageComplete`, `PageEnds`; `IsMeasurementBoard`, `SignFollows`; `ResponseWhole`, `SendReturns` | the log read while two threads push; measurements read while the task copies a round (refinement of `MeasurementBoard`); responses around the sizes of frames |
| `network` | types, `ApUpWhenActive`, `ApComesUp`; `ClockBehind`; `DnsReplyFits`; `ListIsRecent` | three threads around the access point; a lossy network and a browser set the clock; queries of every shape; networks heard while the list is compacted |

Definitions named `Mutant...` are not part of the models. Each is a plausible
bug in one mapped definition, used to confirm that a property notices it.

Bounds, and why they are enough:

- SunSpec: 2 pcbs, 3 slots, 2 cells and one request per session, 4 sessions, one
  reset. Swap removal needs two connections; a stale entry and later sessions
  give a reused address, a stale entry behind a live one, and a full list. A
  buffer fills up through sessions that share a stale entry. `sunspec_polite`
  has two slots, two requests per session, two sessions and no resets, since its
  properties exclude them.
- DHCP: 3 clients for 2 addresses; a lease of 5 ms, units of 3 ms, 6 units: the
  clock of 24 ms wraps at 18, and leases end, are renewed, and look unexpired
  again within it. The code's numbers satisfy the same assumption
  (`Lease + Unit <= Half`).
- Storage: sectors of 4 bytes, pages of 2, one-bit bytes, a layout of 5 bytes at
  the end of two sectors, with one field across the boundary and one that shares
  a sector with it; three bytes of image in front.
- HTTP: 3 pcb addresses, 2 slots, 4 sessions, 2 aborts; `http_reset` none.
- WiFi: 2 values, of which one may be there at start-up, so that each setter sets
  one or one of them replaces a value (3 values for `wifi_usb`); a retry period
  of 4 seconds with rounds of 1 or 2, which meet the retry second or skip it.

- Log: 2 loggers, 3 slots, 5 pushes, a page of 2 entries: the ring gets full,
  drops an entry twice, and a page is cut by its room.
- Meter bridge: 2 clients, 2 copies, ages up to 2: a reader before, within and
  after each copy, a readout that fails once or twice.
- Responses: a buffer of 9 units (frames of 8), 3 pieces, 2 tries, a send buffer
  of 30, heads of 1 and 2; bodies of nothing, of about one, two and three frames.
- Access point: 3 threads, and 3 control blocks for the 2 that are needed, so
  that two calls of `init` exhaust the pool. NTP: an era of 16 s that ends at
  second 7 of 14; two servers, one answer under way. DNS: the code's own sizes,
  with datagrams and labels around each of its limits.
- Scan list: 3 networks for 2 entries, no time to live, 2 seconds: the list
  overflows, entries grow old, and are swapped with one that stays or one that
  goes. Entries that live for a second, in 3 seconds, behave no differently.

Each client sends at most `Window` requests: neither server calls
`tcp_recved`, so the receive window of a session is never reopened.

Fairness: `sunspec_polite` assumes weak fairness of the server task only, which
the scheduler gives it (its wait ends after 1000 ms); clients owe nothing.
`storage_faultless` assumes that a task past the mutex keeps running and that a
task that waits for the semaphore eventually gets it (FreeRTOS wakes its longest
waiter). `http` assumes that lwIP's timer polls an open session that stays idle.
A client delays the poll only by acknowledging responses, and its receive window
bounds how many it can ask for.
`wifi` assumes weak fairness of the task and of a setter that has begun; nothing
is assumed of the driver or the network.
`pages` assumes weak fairness of the log's reader, of the meter task and of the
Modbus reads, strong fairness of taking `sunspec_mutex` (FreeRTOS wakes its
longest waiter), and weak fairness of the tcpip thread within a response; a
failing `tcp_output` is not relied on. `network` assumes weak fairness of the
three threads within `init` and `deinit`, and of the WiFi task's own call.
Deadlock is checked where the model cannot stop; bounded sessions and undefined
behaviour end a behaviour of the two TCP servers.

## Findings

- `storage_ok`: `_write_impl` returns `PICO_OK` after a refused erase or program
  (`persistent_storage.h:170`); callers log "Failed to permanently store ..."
  on anything else, so that message never appears. A refused erase followed by a
  program leaves the AND of old and new bytes.
- `http_reset`: `tcp_server_err` passes a null client to `tcp_server_result`
  (`tcp_server.h:221`), whose loop then closes every client, while its log line
  says "no client".
- `wifi_usb`: `connect_wifi` of the USB console fills the credentials without
  `make_c_str_safe` (`usb_interface.h:89`), which the webserver's handler calls.
  After a longer value, the driver is given the new one and the end of the old.

## Proofs

All theorems hold for every value of the constants that satisfies the named
assumptions of the module (finite pool, sizes positive, layout disjoint and
within flash, sector a multiple of the page, `Lease + Unit <= Half`), and where
it is said for clients that wait (`~Pipelined`).

- `SunspecServer_proofs`: `TypeCorrect`, `SlotAccounting`, `OpenSessionsListed`,
  `WakeupNotLost`, `RepliesReachRequesters`, `OnceExecuted`, `ServesRequests`,
  `OnlyWhatCame`, `RoundEnds`. The first invariant counts, for each
  pcb, that listed entries are one per live session plus the entries resets have
  left; no two open sessions share a pcb, and the lengths are kept by counting.
  Swap removal is one lemma on the list. `WakeupNotLost` needs that no entry the
  scan has passed holds data unless the task was notified; and
  `RepliesReachRequesters` that an entry with data belongs to the session whose
  data it is, as long as that session lives or nothing was reset. `OnceExecuted`
  (for clients that wait, `~Pipelined`) adds that a buffer with bytes holds the
  last request of its session, unanswered and not executed, up to the write.
  `ServesRequests` is the refinement of `RequestService`: the same invariant
  makes `Serve` its `Execute` and the write its `Answer`, closes and the poll's
  timeout its `End`, and every other step a stutter. `OnlyWhatCame` needs no
  such proviso: with any resets and moves, what is executed and answered was
  sent. `RoundEnds` bounds the steps of one round by `2 * Slots + 6`, although
  the list changes under it, since its length is read once per scan.
- `DhcpServer_proofs`: `TypeCorrect`, `OneClientPerAddress`, `OffersAreFree`,
  `RefusalsJustified`, `LeasesAreKept`, `OffersAreGranted`. A client that holds
  a slot is in the slot's `mac`, and
  the slot's `granted` is the end it was told or later, and is what `expiry`
  stands for. Arithmetic lemmas bound the error of the stamp and show that a
  lease that runs is never `Past`. So the table never gives up a running lease:
  its client would be granted it again and is offered no other slot
  (`LeasesAreKept`); and an offer, which reserves nothing, is at least one the
  server would grant next (`OffersAreGranted`).
- `PersistentStorage_proofs`: `TypeCorrect`, `MutualExclusion`,
  `NeighboursSurvive`, `Refinement`, `WritesEnd`. The invariant says what flash,
  buffer and `cur` have to do with each other in each phase: erased up to the
  cursor, programmed up to it, the buffer equal to the window's visible bytes.
  `Refinement` shows that `Merge` is the one step that writes and that all
  others leave the mapped state alone. `WritesEnd` bounds the steps a holder
  still makes by four sectors' worth, with faults or without.
- `HttpServer_proofs`: `TypeCorrect`, `SessionsHaveSlots`, `SlotAccounting`,
  `NoDoubleClose`, `PartialIsClosed`, `FullTableDrains`. Without aborts slots
  and open sessions correspond one to one; a lemma on `ClearSlots` counts the
  slots and sessions that a close removes; sessions are numbered once, so that a
  new session is never one that was cut short. A full table therefore has an
  open session, and lwIP's poll of any of them frees a slot.
- `WifiStorage_proofs`: `TypeCorrect`, `CredentialsTried`, `FlashAgrees`,
  `NameNotForgotten`, `NameIsAnnounced`. The
  first invariant adds that the driver was told the credentials when the task is
  about to clear `wifi_changed`, unless one was flagged meanwhile; the second,
  that where flash differs from RAM some setter has still to store the field.
  The third says the same of the host name in its two steps: while the task is
  past the first, DHCP has the name, past the second mDNS too, or another was
  set meanwhile. A name that is owed is then announced within ten steps.
- `MeterBridge_proofs`: `BridgeTypeCorrect`, `OneRound`, `BridgeIsBoard`,
  `MutexIsGivenBack`, `SignIsFollowed`. A reader inside the
  mutex has read what the image still holds, and while the mutex is not the
  task's the whole image is of one copy and each half of one age. From it follow
  `OneRound` (`ServedTogether`) and the refinement of `MeasurementBoard`: `Lock`
  is `Publish`, and the registers copied under the lock are seen by nobody.
- `Network_proofs`: `AnswersFit`, `ClockRight`, `AccessPointAgrees`,
  `AccessPointNears`, `ScanTypeCorrect`
  and `ListFollowsRadio` for the four parts, `TypeCorrect` and `NetworkSafe` for
  their instance. The access point's
  invariant says, for each step inside `init` and `deinit`, what the driver and
  both sockets are at; the clock's bounds the age of every answer under way and
  uses a lemma that the era correction undoes the sign extension. For the list,
  sizes and indices are bounded through every race; without one, entries are
  unique, those heard are kept, those the compaction has looked at are recent,
  and the callback knows which entries are not its network.
- `Pages_proofs`: `LogTypeCorrect`, `RingKeepsNewest`, `EntriesInOrder`,
  `NothingLeftOut`, `PrintingEnds`, `SendingEnds`, `ResponsesAreWhole` for the
  parts, `TypeCorrect` and `PagesSafe` for their instance. Without a race there
  is one push between its first read and its last index store, and the indices
  are those before, within or after its stores; entry n is at place n - 1 modulo
  the size, or its logger is about to fill it. A page that no push disturbs
  prints place after place from the oldest entry, finding the entry that belongs
  there or a slot never filled, and the end it took is behind all it began with.
  That a page ends needs none of this: the reader advances towards an index
  that it took before, in a ring of fixed size.
  For responses: units sent, under
  way and in the buffer are the units given, in order, and for each phase of the
  handler what is left of the body and where the body view starts.

Liveness. Fairness and ENABLED are out of the prover's reach, so the properties
`RequestAnswered`, `WriteReturns`, `FullEnds`, `NameAnnounced`, `PageEnds`,
`SignFollows`, `SendReturns` and `ApComesUp` are checked by TLC alone. For each,
the part that is about states and steps is proved for every value of the
constants: a number that says how far the thread is from the end, that is
bounded, that each of its steps lowers, and that no step of another raises.

| property | its safety part | theorem |
|---|---|---|
| `RequestAnswered` | a round of the task is at most `2 * Slots + 6` steps; it does not sleep on data | `RoundEnds`, `WakeupNotLost` |
| `WriteReturns` | the holder has at most `4 * Sector + 4` steps left | `WritesEnd` |
| `FullEnds` | a full table has an open session, and its poll frees a slot | `FullTableDrains` |
| `NameAnnounced` | a name that is owed is flagged, at most 10 steps from being announced | `NameNotForgotten`, `NameIsAnnounced` |
| `PageEnds` | a page is at most `Size + 2` steps from its end, raced or not | `PrintingEnds` |
| `SignFollows` | the sign is at most 12 steps behind; the mutex is given back in 4 | `SignIsFollowed`, `MutexIsGivenBack` |
| `SendReturns` | what is left to send or the tries go down, unless there is no send buffer | `SendingEnds` |
| `ApComesUp` | without WiFi and overlap, at most 11 steps from being up | `AccessPointNears` |

What stays with TLC is the step from these to `~>`: that the thread is scheduled
and its action enabled. For `RequestAnswered` also that rounds are repeated until
the request's entry is the first with data, which holds because each session
has at most `Window` requests and is not bounded by one round.

## Plan

Modelled, checked and (but for what is said above) proved: the servers, the
stores, the WiFi task, the scan list, the access point, the log, the meter bridge,
responses, the clock and the DNS server. Left:

1. Compose: endpoints as callers of the settings store and the WiFi manager, so
   that storing a setting is not one step, and the restart that reads them back.
2. HTTP requests: the views into one segment that the parser hands to handlers.

## What is not modelled

- The vendored drivers in `wiznet/` (about 30,000 of the repository's 34,000
  lines of C): register access over SPI for boards with Ethernet, of which the
  program calls the set-up only. They keep the share of lines the map covers
  low; the program's own code is about 3,900 lines.
- HTTP request parsing, which is a pure computation over the text of one
  segment, and the digest authentication, one over hashes.
- libmodbus: the Modbus actor executes a frame in one step; an answer of the
  meter that comes late, and writes by Modbus clients to the SunSpec image.
- Reads of the registers by the USB console, which take no lock at all.
- The length that `fill_formatted` stores for a long log line
  (`static_types.h:35`): texts have no length in `LogRing`.
- The page that prints the list of networks while it changes, and their signal
  strengths.
- lwIP's internals (a pool of pcbs and its callbacks), memory exhaustion other
  than a failed accept or write, calls to lwIP from outside the tcpip thread as
  data races, and time inside callbacks (`send_data` sleeps in the tcpip thread
  up to 90 ms per frame).
- `http_solarapi.cpp`, which is not part of the build, static pages, board
  support and build files.
