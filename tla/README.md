# Verification of esp32-ntp

TLA+ models of the firmware of a GPS-disciplined NTP server (an ESP32-S3 with a
u-blox receiver, a W5500 Ethernet chip and an optional MAX7219 display), the TLC
configurations that check them on small instances, and TLAPS proofs of the
results that hold for every size. The models follow `src/components` and
`src/main`; `PROJECT.json` gives, for every definition, the lines it stands for.

    tlc -config MCSeqlock.cfg MCSeqlock        # any of the configurations below
    tlapm EthLinkProofs.tla                    # any of the proof modules

## The system

| component | state | operations | works with |
|---|---|---|---|
| GPS discipline (`gps`) | sentence stamp, pulse capture, anchors, frequency fit, lock and holdover | `uart_task` stamps RMC sentences and collects the satellite table; the capture interrupt publishes an edge; `loop` and `handle_pps_deferred` pair, guard, set the clock, move the anchors | shared words and sequence counters, read by the NTP task on the other core |
| NTP server (`ntp_server`) | per-client buckets (rate, interleaved state), cached ARP resolution, request in hand | `loop`: receive, stamp, route, prime, send late-stamped, remember; `reopenSocket` | anchors (reads), W5500 UDP socket (calls), link watchdog (callback) |
| W5500 drivers (`w5k`, `w5500`) | socket states, transmit and receive rings, interrupt stamps | open, prime, stage, fire, send, recv, discon | the chip, over one SPI bus under one mutex |
| DHCP client (`w5500_dhcp.c`) | phase, timers, lease, lease cache in flash | `init`, one `tick_1s` and one `run` a second | a UDP socket, the chip's address registers, flash |
| Ethernet link (`w5500_eth`) | link, health timer | `begin`, `start`, `loop` (rebuild, link transitions, restart) | DHCP client, callbacks to the NTP server and the MQTT client |
| Settings store (`config`) | values, dirty flags, stored flags, start counter | `cfg_init`, `cfg_stage`, `cfg_clear`, `cfg_commit`, `cfg_factory_reset`, `cfg_boot_begin`, `cfg_boot_healthy` | flash; the web page, `app_main` |
| Web interface (`webui`) | one connection, one request buffer | `loop`, `pumpRequest`, `handleConnection`, the settings form | settings, statistics of the other parts |
| MQTT publisher (`mqtt_publish`) | connection state, transmit buffer, timers | `loop` and its state handlers | a TCP socket; callback of the link watchdog |
| Wi-Fi station, display | vendor glue; output only | | |
| Boot and tasks (`main`) | | safe mode, then network, server, tasks | everything |

Who runs where matters: the discipline task has core 0 (with the capture
interrupt); the NTP task, the UART task and, every 20 ms in the NTP task, the
housekeeping of link, web and MQTT share core 1. So a request and its reply are
handled by one thread, but every word the discipline task publishes is read on
another core while it is being written.

What is hard, part by part, is listed in `PROJECT.json` under `hazards`, at the
line where it bites. In short:

* **interrupt against task, core against core**: three seqlocks and one anchor
  without any (`gps.cpp:815-819` against `ntp_server.cpp:304-308`);
* **two asynchronous sources for one fact**: the pulse says when a second began,
  a sentence that may be late, lost or half-stamped says which;
* **recovery that must not be worse than the fault**: guards that skip bad
  pulses must not lock out good ones; a watchdog that rebuilds a chip must not
  move the device to another address; safe mode must be reached and left;
* **partial failure**: a send that does not complete leaves bytes in the chip's
  ring, or resets the publisher in the middle of a handler; a commit writes field
  by field; a close command may not be taken;
* **peers that vanish**: a DHCP server, a browser or a broker that says nothing
  more, and sessions of a broker that outlive their connection;
* **stale state**: cached ARP, cached lease, a request buffer that still holds
  the request before.

## Modules

| module | models | proved about |
|---|---|---|
| `Seqlock` (abstract: `AtomicSnapshot`) | odd/even handoff of the pulse capture, `gps.cpp:136-148`, `633-651` | `GpsDisciplineProofs` |
| `GpsDiscipline` | discipline task, UART task and receiver | `GpsDisciplineProofs` |
| `SkyTable` | the satellite table: sentences, sweeps, a reader that preempts | `GpsDisciplineProofs` |
| `ServedTime` | anchors and timestamps of a reply, both cores | `ServedTimeProofs` |
| `NtpReply` | one request after the other, from the buckets to the wire | `NtpReplyProofs` |
| `RxStamp` | the interrupt line, its two handlers and the task's pass: which edge stamps which datagram | `RxStampProofs` |
| `DhcpClient` | the client, the server and the network: parts of steps | `EthLinkProofs` |
| `EthLink` (extends `DhcpClient`) | boot, watchdog, rebuild, DHCP as it is driven | `EthLinkProofs` |
| `Settings` | store, form, lock, start counter | `SettingsProofs` |
| `WebServer` | the page's connection and buffer | `WebServerProofs` |
| `MqttPublisher` | the publisher, its socket, the broker and its sessions | `MqttPublisherProofs` |
| `MC*` | constants for TLC | |

How they fit: `Seqlock` is the justification for taking the pulse in one step in
`GpsDiscipline` and the capture anchor in one step in `ServedTime`.
`GpsDiscipline` says which second a pulse is given; `ServedTime` assumes a right
one and asks what the other core makes of it; `RxStamp` asks which datagram the
two stamps of an arrival belong to; `NtpReply` takes them as given and asks what
is told to whom. `EthLink` composes the DHCP client with the
watchdog and, through the chip and the callback, with the NTP socket. `Settings`
holds the form's meaning and `WebServer` its transport. `MqttPublisher` is
polled by the same task as the link and the page, and reset by the same callback
as the NTP socket. `SkyTable` stands beside `GpsDiscipline`: what it collects is
shown on the pages and never touches the time.

### Seqlock
`BeginPublish`, `StoreField`, `EndPublish` are the interrupt's two bumps and the
stores between them, in any order, since the barriers order them only against
the counter. `Wake` to `Retry` are the reader's loop. `AtomicSnapshot` is what
its users rely on: publish at once, take at once, something newer or nothing.
Fairness: the interrupt runs to its end, the task is scheduled.

### GpsDiscipline
Time is in units, `U` a second. Each unit the receiver pulses or does not
(outage, noise, a sentence late or lost are faults, counted), and the tasks run
as their guards say: a unit does not pass while a handler is under way, but the
UART task's two stores (`lastNmeaUnixSec`, then `lastNmeaUpdateUs`) interleave
with the handler's steps (take the edge, read the age, read the second,
commit). One commit is one of `Accept` (set clock, anchor, statistics, fit),
`SkipMispair`, `StaleNmea`; `HoldoverBegins` is the rest of `loop`. The fit is a
ring of phases: what matters is whether its samples share a timeline.

### SkyTable
The receiver reports a sky, the satellites in the order it reports them with the
talker of each, sentence by sentence: GGA, one GSA and a run of GSV per talker,
then the RMC that opens the next cycle. `says` is the sentence the UART task
hears next, by kind, talker and the satellite it begins at; `Following` is the
sentence after it. The parsers take a satellite a step: `ParseGsa`, `RecordUsed`
and `ParsedGsa` collect the used ones, `ParseGsv`, `RecordSat` and `ParsedGsv` the
table and the sums of a run, with their capacity limits and the search for
duplicates. `SatCommitCycle` marks the used ones and starts the copy, whose steps
(`CopyHead`, `CopyTail`, `PublishCount`) are the words of the entries and the
count, in program order. The readers run on the same core at a higher priority
and do not block while they read, so a read is one step and may come anywhere: it
is the operator `GetSatellites`, and invariants about it are statements about every
read. A satellite's id is kept in a byte (`Byte`), whatever the sentence said; of its
C/N0 only the sweep it was measured in is kept, so there is nothing to clamp.
Characters, position and dilution are left out; a sentence whose checksum fails is
one that is lost (`Loses`).

### ServedTime
`StoreSec`, `StoreFrac`, `StoreMono` and the loads `LoadMono`, `LoadSec` are
single steps of the two cores, one for each half of the 64-bit timer value, in
either order; the capture anchor moves at once. The handler runs within `Delay`
of its pulse, and requests arrive meanwhile. A request takes its arrival time and
tries the capture (`Capture`: the fit valid, the anchor neither old nor far from it,
`Convertible`); the timer's conversion either confirms it (`WriteT2`) or throws it
away and is made once more, from the anchor as it is then (`RejectCapture`).

The transmit time is written before the send. `Predict` asks for the instant
`txStart + s_txCorrectionUs`, an average of what earlier sends took; `WriteT3` is the
late-stamped path, `WriteT3Fallback` the blocking one, which a reply takes that could
not be staged (`Reply`) or was staged and not completed (`FallBack`, which asks
again). `Sent` measures the send and moves the average to any value between the old
one and the new span; `Unsent` leaves it. An interleaved reply converts nothing for
its t3 but is measured all the same. `longest` remembers the longest send. The Wi-Fi
path predicts nothing and is covered as the fallback with an average of zero.

The trims `pps.cal` and `serve.cal` are constants, and may have either sign. `raced`
remembers whether a load fell between two stores of one pulse, `torn` whether the high
parts of the two halves that were loaded differ, so that the value put together is of
no pulse.

### NtpReply
Steps of the handler: `Receive` (bucket, window, interleaved or basic, kiss of
death, cold or warm), `ArpPrime`, `Stage`, `Fire` or `Fallback`, `Commit`,
`PrimeAfter`. The clients, the loss, repetition and delay of what they send are
a choice of origin among all timestamps the client was ever given. The chip has
one transmit ring and one resolved destination; `ChipReset` takes both.

### RxStamp
INTn is low while RECV or an enabled SENDOK is set in the socket's interrupt
register, and only its falling edge is seen: `Interrupts` is every change of the
register, with the edge it makes. An edge raises two interrupts: the capture's
(`CaptureIsr`, the tick the hardware latched) and the pin's (`StampIsr`,
`CountIsr`: the stamp, then the count and the notification). The task's pass has
a step for every register it reads or writes and every word it shares with the
handlers: `Probe`, `ReadCapture`, `ReadStamp`, `ReadCount`, `RecvFrom`,
`ClearRx`, then `Answer` or `Drop`, and the sends (`Prime`, `Stage`, `Fire`,
`Reap`, `Measure`, `Check`, `Fallback`, `Reopen`). Arrivals and completions come
between any two of them. A datagram carries the edge it came under: its own, or
the one INTn was still low for. `IsrPrompt` says that an interrupt has run by the
end of an SPI transfer: the shortest transfer was measured at 6.2 us
(`w5500_fast.h:11-13`), the entry of the interrupt at 1 to 2 us
(`gps.cpp:232-233`). A runt is a datagram too short for a request; `RuntsToPass` of
them look like one to `w5k_rx_ready`.

### DhcpClient, EthLink
Ages in seconds; every phase of the client; messages are sets, so they are
reordered, delayed and, by `Lost`, lost. A step that changes the transaction id
empties them. `EthLink` drives it: `Begin`, `AwaitLink`, `Acquire`, `Fallback`
(start-up), then per second `CheckHealth`, `Rebuild` (with `Reopen`, the
callback), `FollowLink`, `ServeDhcp`. The world pulls cables, kills and revives
the chip, blanks its registers, cuts power, moves the reservation and puts other
hosts on addresses.

### Settings
`Post` opens the form, which is any tokens in any order and number: `StageField`
takes any field with any value, `ClearPassword` is the token `ui.pass.clr=1`. A value
that is refused ends the form, and what was staged before it stays, for the next form
to commit. A value of `ui.lock` is spelled with a 1 in front or not (`plain`): the
check for the password looks at that character alone (`config_store.c:324`).
`unchecked` remembers that what is staged went past that check, and `uncheckedCommit`
that what was last committed did. `FormStaged` starts the commit,
`SkipField`/`WriteField`/`WriteFails`/`Committed` go through it one field at a
time, and `PowerFails` may come anywhere. `FactoryReset` restarts the device whether or
not flash could be erased. The table is any sequence of fields that
has the password before the lock, as `g_cfg_fields` does (`config_store.c:123-125`).
`Boot` and `Settle` count starts; a wiring setting exists that is in range and
costs the network.

### WebServer
A request is so many units of header and of form. `Pass` is a poll of `loop`;
`World` the client (send some, leave, reset), the chip (closing, closed) and the
rebuild. `text` is what the buffer holds up to its terminator, with the
connection it came over.

### MqttPublisher
`Loop` is one poll: the handler of the state it finds, with every outcome of
`pumpSend` (the chip takes the packet, is not ready for it, or the send fails).
What a handler does after a failed send that has reset the publisher under it is
kept: `HandleTcpConnecting` ends in `SENDING_CONNECT` whatever happened,
`HandlePublishingDiscovery` moves the index on. The chip takes a packet whole when
the one before has been acknowledged and there is room. `ChipRebuilt` is the link
watchdog's callback, `ChipLost` a chip that forgot its sockets before anybody
noticed, `Restart` a restart of the device. The broker keeps a session per client
identifier, with a will it publishes when the session ends without a farewell;
closing the socket is no farewell. `Tick` lets a unit pass after a poll that found
nothing to do: polls come every 20 ms and units stand for seconds.

## Runs

| run | question | properties |
|---|---|---|
| `seqlock` | Does the handoff deliver whole, new snapshots, and all of them? | `HandoffTypeOK` `NoTornSnapshot` `EventuallyConsumed` `AbstractSpec` |
| `gps_discipline` | Can late, lost and raced sentences, outages and noise put the clock a second off, and does it come back? | `TypeOK` `WrongNeedsPersistence` `RightLabelsHeal` `FitFollowsPulses` |
| `sky` | Does a whole cycle mend the table, and what can a read that preempts the commit see? | `SkyTypeOK` `SweepHeals` `SeenIsRecent` |
| `served_time` | What does the other core make of an anchor in motion? | `TypeOK` `NeverSlow` `ReplyOrdered` |
| `served_torn` | Do the words of the anchor advance together? (no) | `AdvanceTogether` |
| `ntp_reply` | Whom does an interleaved reply tell what? | `TypeOK` `InterleavedHonest` |
| `rx_stamp` | Which datagram does a stamp belong to, which reply a turnaround, and does a request without an edge get an answer? | `TypeOK` `StampBelongs` `TurnaroundEndsHere` `Drained` |
| `eth_link` | Does the link keep, defend and regain its own address? | `TypeOK` `KeepsServing` `NeverDuplicates` `ServesAsItself` `EventuallyBound` |
| `settings` | Are lock, password and saved values consistent across failures, and does safe mode come in time? | `TypeOK` `LockHasPassword` `SavedIsSaved` `ThirdStartReaches` `LockIsForever` |
| `web` | Are requests kept apart and handled whole, and does the page come back? | `TypeOK` `OneConnection` `PromptHandledWhole` `PromptNotGivenUp` `ListensAgain` |
| `web_stale` | Is every form handled when all of it is there? (not when looked at early) | `FormHandledWhole` |
| `mqtt` | Does a connection announce everything, keep the broker patient, notice that it is gone, and is the device in the end said to be online? | `TypeOK` `AnnouncedWhole` `KeepaliveKept` `VanishedNoticed` `AvailabilityTrue` |

### Bounds, and why they are enough

* `seqlock`: two words, two attempts, three publications. Tearing needs two words
  and a publication inside a copy; giving up and going on to a newer one need a
  second and third publication. The proofs remove the bounds.
* `gps_discipline`: three units a second (edge, early sentence, late sentence),
  ten seconds, three faults, ring of three with two samples to a fit, counter
  wrap of 25 units. Three wrong labels in a row are what the guard needs to give
  in, and afterwards a window of right ones fits within the bound; an outage
  longer than the wrap and one longer than `GapLimit` both fit.
* `sky`: three talkers, of which two are counted under one total and one names two
  systems; a table of three entries, two satellites a sentence; five skies, one of
  them larger than the table and with a run of two sentences, one empty; receivers
  that name systems in GSA and receivers that do not; three cycles and two
  sentences lost. A cycle to spoil the table (losses, a fix missing, an overflow),
  one to mend it, one to be torn by; a fix that is missing is not counted and may
  come every cycle. The proofs remove the bounds.
* `served_time`: three units a second, three pulses, a handler that may take a
  unit, twelve units in all, requests at any unit, each trim a unit, a low half that
  wraps between the first pulse and the second, so that a torn load makes time slow
  by the handler's delay as `NeverSlow` allows, anchors too old after four units, so
  that a capture may be left alone for its age. A reply is about two pulses at
  most; the time is enough for several replies, so that the first send seeds the
  average, a later and shorter one is predicted by it, and a send falls back. The
  proofs remove the bounds.
* `ntp_reply`: two clients sharing a bucket and one of its own, which never
  answers ARP; budgets 1 and 2; three and a half seconds: long enough for an
  exchange, a collision, and an interleaved request over a second's border, and
  for the cached resolution to age past both limits. `SlowLan` is off (see the
  hazard at `ntp_server.cpp:797`).
* `rx_stamp`: three datagrams, two runts to a request's length, one rebuild. One
  datagram to be answered, one to arrive while it is, one to be stamped in the
  wake of both; every request may bring four sends (prime, reply, fallback,
  refresh), each prompt, slow or never done.
* `eth_link`: two addresses, lease ages 1, 2, 3, one second between renewals, a
  watchdog of one second, start-up of eight, two faults. Each phase times out at
  least once; two faults are what an outage followed by another event needs.
  `MaxFaults` bounds the environment only, never the network's losses.
* `settings`: the password, the lock and a wiring setting, in the table's order;
  six starts: three that fail, the third in safe mode, and three more. Any token
  may be out of range, repeated or missing, a password removed in any place, a lock
  spelled past its check, and any number of forms follow each other. The start counter
  saturates at 255 in the code and is nowhere near it in six; the proof has it
  saturate.
* `web`: three connections (one to leave text, one to suffer, one to show the
  aftermath), buffer of three units, patience of two passes, a form that does
  not fit. The proofs remove the bounds.

* `mqtt`: three entities, so that the index has a middle; a stage limit of one
  unit, a pause of two, pings after three, state after five, and a broker that
  waits four: the order of the code's 3 s, 5 s, 45 s and 60 s, with a configured
  interval longer than all of them so that the pings have to carry the session.
  Three faults: one to leave a session behind, one to spoil the next connection,
  one more in between. A broker that comes back, an address that comes back and
  room in the ring are no faults.

`CHECK_DEADLOCK FALSE` stands where time, cycles or starts are bounded (`gps`,
`sky`, `served`, `ntp`, `settings`) and in `eth_link`, where a chip dead at boot leaves a device
without network for good ("gone"), which is what the code does.

### Fairness, and why the code justifies it

* `Seqlock`: the interrupt that began ends; the discipline task has the highest
  priority of its core and waits 50 ms at most. No pulse is promised.
* `EthLink`: the housekeeping runs (weak fairness of the device's own steps); a
  server asked again and again answers in the end (strong fairness of discover
  and request, in the presence of losses). Everything else about cable, chip and
  power is a premise of `EventuallyBound`, not an assumption.
* `RxStamp`: an interrupt that is pending runs; the NTP task comes back from its
  wait after 5 ms at most (`app_main.cpp:144`), whoever notifies it; a send that
  the chip will complete completes. No arrival is promised.
* `WebServer`: the housekeeping polls; a close the chip took is brought to its
  end by the chip; a close command repeated is eventually taken. No fairness of
  the client: one that stalls is what `Patience` is for.
* `MqttPublisher`: the publisher is polled and time passes; a chip nobody
  acknowledges gives up in the end (its retransmission limit) and a ring that was
  full drains; a broker that can be reached answers, and ends a session it hears
  nothing of. That broker and address stay is the premise of `AvailabilityTrue`,
  not an assumption.
* The other modules state safety only.

## Proofs

All of it for every value of the constants that the `ASSUME`s of the modules
admit; TLC evaluates those assumptions in the runs above.

**`WebServerProofs`.** `OneConnection` (what is being parsed came over this
connection) needs that a socket that listens has forgotten its request
(`ListenClean`); that the header in use is the connection's own (`OwnHeader`)
holds only of connections that had begun to send when first looked at, and rests
on `OneConnection`. Together with `TypeOK` they are inductive (`IInv`). Steps
are grouped: those after which nobody reads or nothing of the request changes
(`QuietStep`), `Connect`, and `Wait`, where `OwnNow` says what one pass parses.
From it: `NoMixedRequests`, `HandledWhole`, `NotGivenUp`. The restriction to
prompt requests is exactly what finding `web_stale` shows to be needed.

**`SettingsProofs`.** For any table with the password before the lock, any
threshold of safe mode that fits the counter and any number of failed writes.
`SavedIsSaved` needs `CleanInv` (what is neither staged nor left to be pinned is
in flash, and outside safe mode what is not staged is what flash would give) and
`WrittenInv` (what the commit has passed is written). `LockIsForever` rests on
`FuseInv`: a form is taken, and committed up to the lock, only while flash holds no
lock. `LockHasPassword` needs `PairInv`: what is staged is `Guarded`, a lock only with a
password unless a form went past the check, and so is what is being committed. No
single token breaks `Guarded` without setting `unchecked`, and no accepted `ui.lock`
clears that without mending it, so it holds for any tokens in any order. `WrittenInv`
adds that the password was written first: this is
where the order of the table matters. `ThirdStartReaches` needs `StartInv`: the
counter is not behind the starts that failed, unless it is full.

**`ServedTimeProofs`.** The discipline task's half comes first: `PulseInv` and
`HalvesInv` (which stored half is of which pulse), then `SecondInv`, that the second
stored is never older than a timer value stored, up to `Lag`, the second a
negative trim borrows. The NTP task's half rests on it: `LoadInv` (what was loaded
is no newer than the second that will be loaded after it, because the loads go
the other way round than the stores), `RaceInv` (without a race everything loaded
is of one pulse), `RequestInv` (which instant is being converted, `Asked`, and that the
average of the sends is never longer than the longest of them: `SpanLearned`) and
`ReplyInv`, on which `NeverSlow` and `ReplyOrdered` rest. `ConversionNotBehind` and
`ConversionNotAhead` are what one conversion gives, for any instant asked for, a
predicted one included. So t3 is no earlier than the prediction and ahead of the send
by no more than the longest send so far, whatever the average is. Assumed is
only what the handler's priority gives: it is done before the next pulse
(`Delay` < `U`).

**`GpsDisciplineProofs`.** `WrongNeedsPersistence` needs `LateInv`: a clock that is
right has been set, and every pulse skipped since was labelled wrong, so that a
streak that gives in is a run of wrong labels. `RightLabelsHeal` needs `HealInv`,
its mirror: pulses labelled right are skipped only while they disagree with the
clock; and `ResumeInv`, that none begins a holdover or leaves it standing while right
ones are accepted. `FitFollowsPulses` needs most: `RunInv` (a run of right labels is of edges
a second apart, and the three remembered values are of the last, however they
were reset before), `SampleInv` (each such pulse but the first adds a sample of its
timeline, and where two were skipped before it, the third starts it) and
`ValidInv`; `HoldInv` says that no fit outlives its anchor. The 32-bit unwrap is
exact because a second is less than half a wrap (`W > 2 * U`). `GapLimit > U` is
assumed: 20 s against 1 s in the code.

The same module, since the two belong to `components/gps`, holds the proofs of the
handoff and of the satellite table:

*The handoff of the pulse* (`Seqlock`). `NoTornSnapshot` is not inductive: that a
snapshot about to be accepted is whole depends on what was copied before the
counter moved. `HandoffIInv` adds `CounterInv` (the counter is odd exactly inside a
publication), `StoreInv` (which words are from which publication), `CopyInv` (while
the counter has the value loaded first, everything copied is from the publication
it names) and `SeenInv`. The writer's half is proved first, the reader's on top of
it. From it follow `HandoffTornFree`, `HandoffMonotone` (`NeverGoesBack`: no
snapshot is older than the one before) and `HandoffRefinement`, that `Seqlock`
implements `AtomicSnapshot` with the publication taking effect at the second bump.
So two words or ten, eight attempts or one: retry bounds do not matter for safety.

*The satellite table* (`SkyTable`), for any receiver, any skies, any size of
sentence and of table and any losses. Nothing about the table is inductive without
the place in the cycle: `SaysInv` says that a sentence is about a talker and begins
where the one before ended, so that it divides the sky between the talkers done
with and those to come (`Divides`). On it rests what was collected while nothing
was lost: `BuildInv` (the rows are the satellites named so far, as many as fit, in
the order of the sky: no duplicate is ever found, since each has its own identity)
and `UsedInv` (the list of used ones names those and no others, and has room for
every one that has room in the table, because it is never longer than what was
reported). `CommitInv` carries both over the marking to the end of the copy, and
`SumsInv` says which totals a run that has ended left, each with the last talker
counted under it. `SweepHeals` is read off these. `SeenIsRecent` needs `TableInv`
alone, which holds with losses too: word for word, what was copied is of the sweep
being published and the rest of the one before. Assumed of the receiver is that
talkers report one after the other and no satellite twice in a cycle; the table
need not be large enough for the sky.

**`EthLinkProofs`.** For any addresses, times of a lease with `T1 <= T2 <= LeaseEnd`,
any limits and any number of faults. Already `TypeOK` is not inductive: that a lease
ends in time, and that the start does not outlast its limit, depend on the pass
that is under way. `IInv` adds, for the network, `MsgInv` (only a DECLINE outlives
its transaction, and nobody is granted an address that is not his) and `RequestInv`
(a client that confirms an address has nothing on the way about another); for the
address, `CacheInv` (what the chip has of a lease is what is cached), `LeasedInv`
and `StaticInv`; for the pass, `LinkInv` (where it can be with a link, and with a
chip that answered), `MacInv` (a lost MAC means lost registers, and the next pass
rebuilds before the client is granted anything) and `AgeInv` (a lease runs past its
renewal only behind a dead chip, and the link is down before the client runs
again). What one call of the client leaves is a layer of lemmas of its own
(`RunWords`, `RunMessages`, `RunAddress`, `RunProbes`), used in start-up and in the
housekeeping alike. From it: `NeverWithoutCause` (`KeepsServing`), `ProbedBefore`
(`NeverDuplicates`) and `OwnAddress` (`ServesAsItself`, which needs `MacInv`: no lease
is taken as a stranger). Assumed of the limits is that the start waits at least a
second for a lease (`StartLimit`; the code waits 30 s).

**`NtpReplyProofs`.** For any clients, hash, budgets and ages. `LogInv`: the history
is a finite set of exchanges. `SendInv`: a reply leaves no later than it is seen to
leave, and where no send outlasts the wait of 2 ms (`~SlowLan`) at that moment. So
`ChainInv` survives a commit: a valid bucket holds the receive time of one exchange
and a transmit time that is that exchange's, or with slow sends a later one
(`Reports`; `StampMonotone` is the arithmetic). `RequestInv`: an interleaved request
names what its bucket holds and an exchange of its own client; `ReplyInv`: these are
the two exchanges a reply may mean, and when only one is so named they are the same.
`IInv` needs no hypothesis. `Honest` draws `InterleavedHonest` from it under
`~SlowLan`, the restriction the run has too and without which it is false;
`NotEarly` says what is left without: `NeverEarly`, the reply is of the client's own
exchange and reports no earlier time than it left.

**`RxStampProofs`.** `TypeOK`, `SendInv` and `HeldInv` (sends one at a time, until
one outlasts its wait; what was seen in the ring is still there) form a first
layer, without assumptions. With `IsrPrompt`, `EdgeInv` (when its interrupts have
run, capture and stamp are the last edge's, and no datagram is of a later one),
`RingInv` (a datagram that came alone is the ring's head, holds INTn low and made
the last edge) and `StampInv` carry `StampBelongs` through the pass, register by
register. `TurnInv` does the same for `TurnaroundEndsHere`: from the staging of a
reply on, with the ring empty, an edge can only be the reply's own completion.
`IsrPrompt` is a fact of the board, not of the program: an interrupt is entered in
1 to 2 us, and the shortest SPI transfer takes 6.2 us.

**`MqttPublisherProofs`.** For any number of entities and any intervals with
`Keepalive < KeepaliveTold`. `AnnouncedWhole` needs `ProgressInv`: in every state,
how many packets of the announcement the connection was given, including the
states a failed send leaves behind (a `SENDING_CONNECT` without a socket, an index
of one). `KeepaliveKept` needs `RoomInv`, `AcceptedInv` and `SilentInv`, which bound
the broker's silence by the age of the last ping unless something is on its way.

### What is only model-checked

* Every liveness property (`EventuallyConsumed`, `EventuallyBound`, `Drained`,
  `ListensAgain`, `VanishedNoticed`, `AvailabilityTrue`): the prover has no rules
  for fairness and ENABLED.
* Beyond the bounds of the runs, then, nothing is known of how soon something
  happens: that a lease is found again, a pulse consumed, a page served.
* `InterleavedHonest` is false with slow sends, and `StampBelongs` without prompt
  interrupts; both hypotheses are visible in the theorems.

Every safety property of a passing run is a theorem. The `IInv` of every module,
`NeverGoesBack` of `Seqlock` and `NeverEarly` of `NtpReply`
are proved and in no run: an `IInv` is the conjunction of the lemmas' invariants,
`NeverGoesBack` follows from `AbstractSpec`, which a run checks, and `NeverEarly` from
`InterleavedHonest` in the run there is; it says more only with `SlowLan`.

## What disagrees with the code's own words

Shown by a run (details and quotations in `PROJECT.json`):

1. **`served_torn`**: the anchor's second and timer value are stored and loaded
   one by one; a request between the stores is answered a second ahead.
2. **`web_stale`**: a connection looked at before its first byte is measured by
   the request before it.

Seen while modelling and described here without a run of their own:

* `ntp_server.cpp:306`, `gps.cpp:819`: "a 64-bit store is two words on Xtensa, and
  the task reads it as two loads" (`ntp_server.cpp:151-153`) is why the interrupt's
  stamp has a sequence counter; the anchor's timer value has none. A load that
  takes a new low half and an old high one is 71.6 minutes too small, and the
  reply as far ahead; too large a value is clamped (`NeverSlow`).
* `gps.cpp:811-814`: `README.md:345-346` says "`pps.cal` shifts the PPS reference".
  The trim goes into the anchor's fraction, which `computeNtpTimestamp`
  (`ntp_server.cpp:318`) ignores: a positive trim shifts only captures, so that
  transmit may precede receive by the trim (in the bound of `ReplyOrdered`), and a
  negative one borrows a second and serves time up to a second slow (`Lag`, in the
  bound of `NeverSlow`).
* `ntp_server.cpp:782`, `830`, `884-890`: t3 is stamped for a predicted instant, the
  timer plus an average of earlier sends, "so t3 tracks true departure" (116). A send
  that is shorter than the average leaves before the time it carries, by up to the
  longest send so far; the one spread of spans the code names runs "from 170us to
  tens of milliseconds" (772-773). That is the bound of `ReplyOrdered`, and there is
  none that does not speak of earlier sends.
* `ntp_server.cpp:444-450`: "Read the timestamp BEFORE the counter: the original
  order let an ISR landing in between hand packet N the stamp belonging to packet
  N+1". In the present order an interrupt that lands in between hands a queued
  datagram the stamp of the edge before, which an earlier datagram may have had
  already, and consumes the newer one. The stamp is then older than the arrival of
  its datagram, though never older than the edge INTn was low for when it came:
  `StampBelongs` says no more than that.
* `ntp_server.cpp:521-529`: the cross-check compares a capture with the interrupt's
  stamp, and both are usually of the same edge; where both are stale they agree.
* `ntp_server.cpp:797`, `824`: a send that outlasts the 2 ms has two completions, its
  own and the fallback's. The later one is left in the register and holds INTn low:
  datagrams have no edge of their own, and come under that completion's edge,
  until a prime or a fallback clears it (`overran` in `RxStamp`). They are found by
  the sweep (`Drained`).
* `ntp_server.cpp:257`: `reopenSocket` enables RECV alone, where `begin` enabled
  RECV and SENDOK: after the first reopen or rebuild no turnaround is measured
  until the next start.
* `gps.cpp:486-489`: `gps.h:187-188` says of the satellite table that readers
  "always see one whole consistent sweep". It is copied in place by the UART task
  (priority 5), and the NTP task (priority 7, same core) may read it in between:
  entries of two sweeps, and an entry whose mark belongs to another satellite.
  What does hold is `SeenIsRecent`. Nor is a sweep always one: after an RMC that
  was lost or had no fix, two are collected into one, the older measurements
  winning, until a whole cycle (`SweepHeals`).
* `gps.cpp:431-433`, `440`: satellites of the combined talker GN "are attributed by
  SVID range" according to the comment; the code takes them all for GPS. A
  receiver that sends GNGSA has no satellite of another system marked as used,
  and may mark a GPS satellite in place of a Galileo one (`combined` in
  `SkyTable`).
* `gps.cpp:580-586`: the totals of satellites tracked and of their C/N0 are the
  last talker's, where the metric's help text (`web_metrics.cpp:186`) and
  `gps.h:58` speak of all.
* `gps.cpp:939`: that an RMC was valid is never taken back, so `timeValid`
  (`gps.h:47`) stays true when the sentences stop.
* `ntp_server.cpp:691-697`: a failed prime returns without reopening the socket;
  its byte stays in the chip's ring and leaves in front of the next datagram, the
  "oversized/garbage packet" that `ntp_server.cpp:665-669` wants to prevent.
* `web_config.cpp:298-301`: "nothing is written, so a typo in one pin cannot
  half-apply a settings change" (264-266), but the fields before the bad one have
  been staged into the values the device runs on, and the next save writes them.

* `config_store.c:324`, `353-360`: the lock "Needs a password set first"
  (`config_store.c:128-129`, which adds that this "only stops you doing this by
  accident"), "otherwise anyone on this network could lock you out"
  (`web_config.cpp:310-311`). The check is made when `ui.lock` is staged and never
  again: `ui.pass=x&ui.lock=1&ui.pass.clr=1` commits a lock without a password, and so
  does a form that holds `ui.pass.clr=1` alone after a form that was refused left a
  lock staged. `ui.lock=01` passes the check with no password at all, since only the
  value's first character is looked at. The page's own forms send the lock after the
  password and its removal, as 0 and then as 1, and do none of this.
  `LockHasPassword` says what is left: every other form.
* `gps.cpp:722`, `803`: a pulse rejected as outlier is kept out of the fit but
  still sets the clock and moves the anchors (`gps.h:211` counts it rejected).
* `gps.cpp:729`: the gap guard looks at the last pulse, the tick timeline at the
  last one that was not an outlier; a long run of outliers aliases the timeline
  (`FitFollowsPulses` shows that it mends).
* `gps.cpp:860`: after the statistics restart the mean interval may be seeded
  from an interval across an outage.
* `gps.cpp:669`: the age of a sentence is an unsigned difference; a sentence
  stamped after `nowUs` was read makes it huge, and the pulse is treated as
  stale (in the model: `raced`).
* `ntp_server.cpp:232-237`, `252-254`: the socket is opened once per start and
  once per rebuild; a failure is not retried. With a chip that is dead for that
  moment the server stays deaf (`ntp = "closed"` in `EthLink`).
* `ntp_server.cpp:615`, `782`: without lock timestamps are whole seconds, two
  exchanges may share one, and transmit equals receive in basic mode.
* `ntp_server.cpp:623`: the budget in all silences clients within their own.
* `ntp_server.cpp:830`: the fallback path sends its transmit time without
  `serve.cal`.
* `ntp_server.cpp:836`: a send that outlasts the wait is sent again, with a later
  time; the exchange remembers the later one.
* `w5500_eth.cpp:534`: with the server silent at start-up the device takes
  192.168.1.2 rather than the address of the cached lease (`README.md:384-385`).
* `w5500_eth.cpp:589`: the pass that finds registers lost leaves the health timer
  as it is; and the restart looks at the chip only, where `README.md:423-424`
  says chip or link.
* `w5500_dhcp.c:470`: a refusal while renewing drops the lease but not its cache.
* `app_main.cpp:295`: an address that comes after start-up's limit leaves the
  start counted as failed.
* `web_config.cpp`: a ticked checkbox is staged as 0 and then 1, so an unchanged
  save counts as a change (`README.md:225`); the first commit writes every
  default (`config_store.c:382`).
* `gps.cpp:96-121`: wiring that the driver refuses aborts after the start was
  counted healthy.
* `web_server.cpp:182`: a client that sends and closes its side before the next
  poll is disconnected without an answer.
* `mqtt_publish.cpp:224-226`: a send that fails while connecting resets the
  publisher, and the handler then sets `SENDING_CONNECT` without a socket; it is
  mended by the read that fails. `mqtt_publish.cpp:292-299`: after a failed send
  the index is one, and is set back only when a connection is accepted.
* `mqtt_publish.cpp:283`, `308`: neither of the last two states has a time limit;
  `VanishedNoticed` holds because something is always sent sooner or later. A
  broker that acknowledges what it is sent and never takes more (a zero window)
  would not be noticed.
* `mqtt_publish.cpp:161`: the socket is closed and not disconnected, so the will of
  a session that was left behind may arrive after the new connection's "online"
  unless the two share an identifier, which takes the session over
  (`AvailabilityTrue`, and its mutant).

## Not modelled

* How far apart a capture and a stamp may be (`RxStamp` lets the cross-check accept
  or refuse); an edge whose interrupts are held off for longer than a transfer
  (`IsrPrompt`): without the assumption `StampBelongs` fails.
* Arithmetic on floating point: the fit's slope, the dispersion, the jitter
  filter. The models keep what decides control: validity, windows, timelines.
* The halves of `lastNmeaUpdateUs` in `GpsDiscipline`: both of its tasks read and
  write it in one step there. `ServedTime` has the halves of the anchor.
* The characters of NMEA, position and dilution, HTML, the metrics text,
  passwords, the payloads of MQTT.
* A talker with more than twelve satellites in use, which is as many as a GSA has
  fields (`gps.cpp:533`): used in `SkyTable` means named in one.
* An order of stores other than the program's in the satellite table, whose
  entries are not volatile.
* The profile counters; the sockets of the Wi-Fi build; a send of the page's answer
  that takes two seconds.
* Flash: `nvs_set` is durable when it says so, writing the lease and the start
  counter succeeds. Values out of range already in flash.
* A broker that keeps a connection and reads nothing; an MQTT packet read in parts.
* An infinite lease; a chip that answers wrongly for less than a pass.
* The chip, the DHCP server, the receiver, the clients: external, modelled from
  what the code expects of them.

## What would come next

1. The liveness properties for every size. The safety half of a liveness argument
   is in reach (what a step of the client does to its retries, of the publisher to
   its index: a measure that decreases); the half that is not needs fairness.
2. The fit, with its slope: `FitFollowsPulses` says which samples it is made of,
   not how far a frequency computed from them can be off.
3. `GpsDiscipline` and `ServedTime` as one specification: a second given wrongly
   and a second read too early are shown apart, each assuming the other right.
