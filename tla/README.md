# TLA+ for nrf5-sdk-for-eddystone

Specifications of the Eddystone beacon firmware in this repository, the TLC
configurations that check them and TLAPS proofs of their safety. Paths of C files are below `src/source/modules/` unless they say otherwise.

Check a configuration with `tlc -config X.cfg M`, where `PROJECT.json`, "runs",
names `M` for each `X`; check proofs with `tlapm XProofs.tla`. "map" in the same
file gives, for every definition of a module, the lines of C it stands for.

## 1. The system

One chip, one program, no operating system; two contexts share all state.

* **The main loop** (`src/project/pca10040_s132/main.c:79-84`) executes the
  scheduler's events one at a time, first in first out, and sleeps.
* **The SoftDevice event interrupt** preempts it anywhere. BLE events
  (connections, reads, writes, the advertising timeout) and flash events are
  handled there, to their end, one after the other.

Timers (`APPSH`) and the debounced button do not run a handler themselves: they
put an event in the scheduler's queue, which has 10 entries and whose overflow
fails an `APP_ERROR_CHECK`. That resets the chip. No lock, critical section or
`volatile` protects anything the two contexts share.

| Part | State | Operations | Talks to |
|---|---|---|---|
| advertising slots, `eddystone_adv_slot.c` | per slot: the client's last write and its length, the frame built from it, interval, TX power, encrypted identity key | write and clear (interrupt), `frame_set` (scheduler event), `eid_ready` (callback), store, restore | security (key exchanges, destroy), flash, scheduler |
| security, `eddystone_security.c` | per EID slot: occupied, identity key, temporary key, clock, K, EID; lock key and its AES block; ECDH pair | key exchanges, one second `update_time`, challenge and verification, destroy, eTLM encryption | slots by `msg_cb`, flash |
| advertising manager, `eddystone_advertising_manager.c` | three timers, what the radio advertises, slot and eTLM positions, flags for registration and connection | timer handlers, connectable advertising, halts, `intervals_calculate` | slots, security, TLM, registration UI |
| service, `src/source/ble_services/ble_ecs.c` | handles and properties of twelve characteristics, the memory for long writes | registration; `on_write` and `on_read` find the characteristic of an event and call the handler, or do not | SoftDevice, ble handler |
| ble handler, `eddystone_ble_handler.c` | connection handle; Lock State and Active Slot characteristics; a flag for long writes | every authorised read and write and its reply, connection, disconnection | all of the above |
| flash, `eddystone_flash.c` | a static buffer for each block; pstorage's queue of 10 commands | read, write and clear of slot configurations, flags, lock key, ECDH pair; wait | pstorage |
| TLM manager, `eddystone_tlm_manager.c` | counters of the TLM frame | update time, temperature, count | manager, slots |
| registration UI, `eddystone_registration_ui.c` | none | button to scheduler event | manager |

What makes it hard:

* A client's write changes the slot at once, in the interrupt, and its
  expensive half, the key exchange or the frame, follows later in the main
  loop. In between come more writes, clears, disconnects that store the slot,
  rotations of the EID that was there before, and loss of power.
* A stopped timer may have its event in the queue already.
* A request that gets no reply, or two, ends the connection or resets the chip;
  which branch replies is spread over two dispatchers, a table and a flag.
* The power of a slot and the ranging byte of its frame are written in both
  contexts, into a union whose type changes meanwhile.
* One AES block serves the challenge of the lock (interrupt) and the exposure
  of identity keys (main loop).
* A save is up to six flash commands that run later, one by one, out of buffers
  the next save overwrites, and power can fail between any two.
* Arithmetic on intervals and times is done in 16 and 32 unsigned bits.

`PROJECT.json`, "hazards", lists each of these at its line with the properties
that watch it.

## 2. The modules

```
SlotTable  <---- SlotRefinement ---> SlotConfig
                  ^         ^
         MCSlotConfig      SlotConfigProofs
AdvManager   <--- MCAdvManager, AdvManagerProofs
AdvIntervals <--- MCAdvIntervals, AdvIntervalsProofs
FlashStore   <--- MCFlashStore, FlashStoreProofs
EidClock     <--- MCEidClock, EidClockProofs
SlotPower    <--- ConfigService <--- MCConfigService, ConfigServiceProofs
LockService  <--- LockServiceProofs
TlmClock     <--- TlmClockProofs
```

The state of the firmware is one; the modules cut it along what the properties
relate, and each says in its header what it abstracts and which other module
has it. The MC modules give TLC its inputs and define nothing else. Operators
marked "Mutant" are plausible bugs of the definition that follows them; each
property is violated when one of them takes that definition's place.

Conventions in all of them: an interrupt handler is one action, for nothing
preempts it that shares its state; a main loop handler is one action or, where
an interrupt can find something different in the middle of it, a chain of
actions through the positions of `main`, down to single stores and to the load and
the store of an increment where it matters. `failed` stands for a failed
`APP_ERROR_CHECK`, after which only the reset happens. Undefined values (an
uninitialised stack byte or word, a shift by -1) are a choice among what they
may be.

### SlotConfig: what the slots are

`ftype`, `flen` and `wrote` are the write buffer of each slot: its first byte,
its recorded length, and the length of the write its bytes came from. `frame` is
the type `adv_frame` was last built as. `occupied` and `ik` are the EID state in
`eddystone_security.c`. `nvm` is flash. `overtaken` remembers that the last write of
a slot emptied it between two stores of its `eid_ready`.

| Action | Code |
|---|---|
| `RestoreSlot` | one iteration of `eddystone_adv_slots_init` |
| `ClientWrite` | `ecs_write_evt_handler` for characteristic 10, `eddystone_adv_slot_rw_adv_data_set` |
| `Disconnect` | `on_ble_evt`: every slot and the flags are stored |
| `TimerTick` | the one second timer puts its event in the queue |
| `FrameSetStart`, `Check`, `Fail` | `adv_frame_set_scheduler_evt`, `frame_set` up to where the length is tested |
| `FrameSetOccupy`, `Derive` | the key exchange up to its `eid_ready` callback |
| `TickStart`, `Scan`, `End` | `update_time` up to a rotation's callback, its daily store |
| `EidReadyType`, `Frame`, `Length` | `eddystone_adv_slot_eid_ready`, store by store, called by an exchange ("ready") or a rotation ("rotate") |
| `PowerLoss`, `ErrorReset` | SRAM is lost, flash is not |

`SlotTable` is the promise to the client: a table of contents that changes at a
client's request only (`requests` counts them, so that a change without one is
not a step), where a fresh write may still be refused, and that power loss takes
back to its last store. `SlotRefinement` maps SlotConfig to it.

| Run | Question | Result |
|---|---|---|
| SlotPreempted | with interrupts anywhere: does EID state outlive the EID slot, is a frame forgotten but by a clear inside `eid_ready`, is every queued write carried out? | no, no, yes |
| SlotUndisturbed | with handlers that end undisturbed and well-formed writes: has a configured EID slot a key, does a cleared slot stay cleared, is it all a SlotTable? | yes |

Bounds: two slots (all of the code is per slot except the queue, the boot loop
and the scan of `update_time`, which two tell apart); two writes with preemption
and three without (every known scenario needs at most two; the third follows a
reset or a disconnect); a queue of three, so that overflow and its reset happen.
`StackGarbage`, what an uninitialised byte of the scheduler event may be, leaves
EID out of SlotUndisturbed: section 5 says what happens with it.

### SlotPower and ConfigService: what a client may do to the slots

`SlotPower` has the power of each slot and the second byte of its frame, where a
UID, URL or EID frame has the ranging byte and a TLM frame its version. A byte is
the power it was calibrated for. `frame_set` and `eid_ready` take the power as an
argument and store the byte later, in a step of their own, so that a power
written in between is met by the byte of the one before (`overtaken`); and
`eid_ready` stores type, frame and length one by one, so that an empty write in
between leaves a slot that is configured and not built (`revived`).

| Action | Code |
|---|---|
| `SetRadioTxPwr` | `eddystone_adv_slot_radio_tx_pwr_set` and the ranging byte it stores |
| `SetRwAdvData` | `eddystone_adv_slot_rw_adv_data_set` |
| `BuildAtOnce`, `BuildStart`, `BuildStore` | `frame_set` without, before and after the ranging byte |
| `Occupy` | the exchange occupies the slot |
| `Rotate` | `update_time` finds the EID of an occupied slot due |
| `EidReadyType`, `Frame`, `Length`, `Power`, `RotateStore` | `eid_ready`, store by store, the load of the power included |

`ConfigService` is SlotPower's client: it extends it with the table of the twelve
characteristics (`Service`), the events `on_write` and `on_read` make of a request
(`WriteEvent`, `ReadEvent`), the gate of the lock, and the long write, whose parts
the SoftDevice keeps (`Prepare`, `Execute`, `DeniedExecute`, `Cancel`). `replies`
counts the replies to the last request. A request is one action, its reply
included: handlers run in the interrupt. What a reply contains is left out.

What a slot holds is followed byte for byte as far as writes can tell it apart. The
client numbers its writes, and each part of a long write carries its number into the
SoftDevice's memory (`prepared`), from there into the characteristic's value
(`Written`) and into the slot (`holds`), the head and the tail apart. `sending` and
`last` are the client's own account: the long write it is sending and how many of its
parts were accepted, and the last write that was let through to each slot. The code
sees neither. A client that begins a long write anew cancels the one before.

| Run | Question | Result |
|---|---|---|
| ServiceRequests | has every request one reply, do slots hold exactly the accepted parts of what was last written, do frames carry the byte of their power (but for the two orders above), is a locked beacon's slot safe from parts prepared earlier, does a wrong ranging byte of an EID get right again? | yes |

Bounds: two slots (a long write of one, other writes of the other); two supported
powers and one that is not; two writes of slots or powers, and any number of
other requests, in any state of lock and long write; at power up the default frame or an
EID in slot 0. Interrupts come anywhere. Clients prepare writes of RW ADV Slot
only, and the SoftDevice answers their cancellation without asking: section 5 says
what happens otherwise.

### AdvManager and AdvIntervals: what is on the air

`adv` is the record of the manager's statics, its timers and the radio. Timer
handlers, written once as operators on that record, are taken apart in the main
loop (`Choose`, `Cycle`, `Fetch`, `Start`; `LoadPair` and `StorePair` for
`eid_slot_counter++`; `Count`, `Increment`, `Compare`, `Wrap` and `NextSlot` for
`slot_counter`) and composed whole in the interrupt (`Connected`, `Disconnected`, `GapTimeout`, `WriteRequest`, which halt
and restart the timers). Time is not modelled: a running timer may expire
whenever `Overlap` lets it. `Overlap` says what the environment may do while
the main loop has work: nothing ("none": every handler ends before the next
event is due), put events in the queue ("queued"), or preempt ("anywhere").

Between the increment of `slot_counter` and its wrap an interrupt may find it one
past the list of slots. What it reads there is any byte (`SlotNo`): a slot, the
padding, or a number that is no slot (`Beyond`), of which the manager reads a frame
type from beyond `m_slots` and, by `SLOT_BOUNDARY_CHECK`, whether the last slot is
configured (`Params`).

| Run | Question | Result |
|---|---|---|
| AdvAnywhere | with events anywhere: does `slot_counter` leave its list but in that window, can the chain of intervals break, is the radio ever started while it is on? | no |
| AdvPrompt | with prompt handlers: does registration keep the radio, is what is on the air configured, are eTLMs paired with EID slots, is every configured slot on the air for ever, does registration end? | yes |
| AdvStaleEvent | does registration end when an expired timer's event is still queued? | no: the beacon is silent and the button dead |

Bounds: three slots (telemetry, and two EIDs to pair it with), at most two
writes (one in AdvAnywhere) and two presses of the button; boots are the factory
state, one EID and all EIDs, the last of which AdvAnywhere needs for a counter past
the list. Its writes have every kind of frame that fails a check: an unknown type,
a URL that is too long, and an EID that is refused. AdvPrompt checks deadlock too:
the beacon never stops.

`AdvIntervals` is `intervals_calculate` in 16 bits for the code's five slots,
with requests next to each value at which one of its comparisons turns.
IntervalsSlow: from 125 ms upwards the slots fit in the interval, the eTLMs fit
in the TLM slot's turn, and the client reads the interval in use, which is the
one asked for or a longer one, but for up to 25 ms a slot that the division among
eTLMs rounds down. Section 5 has what happens below 125 ms.

### FlashStore: what survives

`slots` and the keys in RAM; `buffers` and `commands`, the static buffers and
pstorage's queue; `nvm`, the blocks. A command takes its data from its buffer
when `CommandDone` executes it. `saved`, `stored` and `since` record what each
slot was at the saves a reset is allowed to bring back, `dropped` that a full queue
refused the command of the lock key and none that waits will do its work.

| Run | Question | Result |
|---|---|---|
| FlashSaves | two slots, an overflowing queue, power lost between any two commands: does every slot come back as some save left it, do the stored ECDH halves match, does idle flash have the keys in use? | yes, but for a lock key that was refused |
| FlashDrains | with the same freedom: does the last save reach flash, do the keys, does the main loop always come back to waiting for events? | yes |

Bounds: in FlashSaves a queue of five instead of ten makes two slots overflow it;
in FlashDrains a queue of three does so with one slot, where a save takes two
commands and an exchange two. Two writes, one daily store (they are a day apart) and
one loss of power, after which the state is an initial one with other contents.

### LockService: the lock and the keys a client reads

Lock State, the challenge in the lock's AES block, and the three places an
identity key passes: the client's write (`buffer`), `ik`, and what the client
may read back (`exposed`). A block of ciphertext is the pair of key and text. A
denied request changes nothing and has no action. Exchanges are `FrameSet`,
`Derive`, `Load`, `Encrypt`, `Copy`, as the main loop carries them out.

LockPatient: with interrupts anywhere, if clients let an exchange finish before
they use the lock, every token that was offered unlocks, what a client reads
back is the slot's key and the one it sent, a beacon is locked when its client
leaves unless that client asked otherwise, a locked beacon keeps its keys, and
exchanges end. Bounds: two slots and six keys and challenges, two of which the
initial state uses.

### EidClock and TlmClock: time

`EidClock` is `update_time` with the keys and EIDs it regenerates. Scaled: the
temporary key rolls over at 8 seconds (65536), the clock at 32 (2^32) and the
timer falls behind by one part in 4 (30 in a million), so that ten seconds of a
run pass all of these; clocks start near the rollovers. EidRotation: EIDs agree
with their clocks, so that the time in an eTLM's nonce is that of the EID its key
belongs to, and the clock of the first EID slot keeps time.

`TlmClock` is `eddystone_tlm_update_time` with a short word (400 for 2^32), a
short RTC (256 for 2^24 ticks), 4 ns to a tick, 10 to a millisecond and 4 ms to
a step; every uint32_t is cut to the word. TlmReads: reads less than a word
apart never show a time that has not come and lose less than a step each. The
proofs have the code's own units.

## 3. Fairness

`Spec` has none. `FairSpec`, which SlotPreempted, AdvPrompt, AdvStaleEvent,
LockPatient, FlashDrains and ServiceRequests use for their liveness properties,
adds weak fairness of

* `MainLoop`: `main()` executes events for ever, and an interrupt handler
  returns;
* `ErrorReset`: the error handler resets the chip;
* `BuildFrames`, and strong fairness of `RotateEid` for each slot
  (ConfigService): the main loop, as above, and `update_time`, which takes the
  slots in turn, so that no slot is for ever passed over when its EID is due;
* `CommandDone` (FlashStore): pstorage goes on to its next command at each
  system event;
* `GapTimeout` and some running timer's expiry (AdvManager): connectable
  advertising times out after a minute, and timers expire.

Never of a client, the button, or the disconnect. The liveness of AdvPrompt
holds for prompt handlers only; AdvStaleEvent shows why.

## 4. Proofs

Every safety invariant of a passing run is a theorem, for every value of the
constants that the assumptions of its module admit. Where a theorem needs more, its
statement says so; the conditions are those of the run that checks the property:

| Condition | Of | Why |
|---|---|---|
| `~Preempt` | SlotConfig, FlashStore | no client event falls inside a main loop handler; section 5 has what happens when one does |
| `WellWritten` | SlotConfig | an EID is written with 18 or 34 bytes, and the stack byte an empty write leaves as its type is not EID; section 5 has both |
| `Overlap = "none"` | AdvManager | every handler ends before the next event is due; section 5 has a stale timer event |
| `Patient`, `~CancelsAsked` and others | LockService, ConfigService, TlmClock, AdvIntervals | at their theorems below |

**SlotConfigProofs**, for every number of slots, queue length, set of writes
and bound:

* `TypeCorrect`: `TypeOK`, with the queue within its capacity. Inductive.
* `KeysAreConfined`: `KeysOnlyInEidSlots`. Inductive with `TypeOK`, `BootClean`, a
  slot that the boot loop has yet to reach has no EID state, and `StoreOK`, a call of
  `eid_ready` begins with its first store.
* `FramesAreNotForgotten`: `NoForgottenFrame`, with interrupts anywhere, also between
  the stores of `eid_ready`. Not inductive alone: `frame_set` reads the type once and
  builds the frame later, and `CheckedTypeCurrent` says that if the type has changed
  since, another frame_set is queued. `FramesOfKeys` has the frame of a slot whose EID
  is about to be ready, `StoresCurrent` what the type may be between its stores. The
  lemmas on `Put` and `Tail` say what happens to "an event of this slot is in the
  queue".
* `ConfiguredEidsAreLive`: `ConfiguredEidIsLive` where nothing preempts the main
  loop handlers (`~Preempt`, an assumption of the theorem and the condition of
  SlotUndisturbed). `MainIsCurrent` ties the exchange in progress to its slot.
* `ImplementsTable`: `ImplementsSlotTable`, for `~Preempt` and `WellWritten`. The
  steps of SlotConfig are mapped one by one: most stutter (`SameTable`), a write
  changes the table, the end of its `frame_set` accepts or refuses it, a disconnect and
  the end of a daily store save the table or part of it, and after a reset the restore
  brings back what was saved.
  That `eid_ready` and the rotation stutter needs `ProperInv`: a slot with a key is
  an EID, an EID has a length `frame_set` accepts, so that it is never refused, and
  what `frame_set` has read of its slot (`MainProper`) still holds.
* `ClearedSlotsStayCleared`: `ClearedStaysCleared`, by `TableChanges` and `EmptyStays`
  from the refinement alone: a table's entry leaves EMPTY by a request or a restore.

**AdvManagerProofs**, for every number of slots, boot state, set of writes and
bound:

* `TypeCorrect`: `TypeOK`, with interrupts anywhere. `CounterOK` in it says where
  main is when `slot_counter` is past the list; what an interrupt makes of it then is a
  slot, padding or `Beyond`. Inductive with `RadioFree`: from the choice of a slot to
  the start of the radio, nothing is on the air. The handlers are operators on the
  record of statics, so each has a lemma of what it does to any record (`Keeps` and
  those after it), cited wherever the handler runs.
* `ChainNeverBreaks` and `RadioStartedOnce`: `ChainAlive` and `NeverStartedTwice`,
  with interrupts anywhere. The latter rests on `RadioFree`.
* `RegistrationOnAir`, `FrameOfConfigured`, `EtlmPaired`: `ConnectableOnAir`,
  `OnAirIsConfigured` and `EtlmPairsWithAnEid`, for `Overlap = "none"`. `Orderly` is
  the invariant of all three: at most one event waits and none while main is in a
  handler (`Alone`), registration excludes timers and slot events, a running eTLM
  cycle has a telemetry slot and the list of the present EID slots (`PairingOK`), a
  refused frame has halted the cycle (`SetOK`), and what main is about to send is as
  good as what is on the air (`MainOK`, `AirOK`).

**FlashStoreProofs**, for every number of slots, queue length, contents of flash at
the first power up (a stored public key has its private key,
`InitialPairAssumption`) and bound:

* `TypeCorrect`: `TypeOK`, with the queue within pstorage's. Inductive with `QueueOK`:
  only slots are cleared, and what waits at power up is the lock key.
* `PairsMatch`: `StoredPairMatches`. `PairOK` adds that the public half, which is
  written last, is never ahead of the private one, in flash or in the queue, and that
  what is queued is the pair in RAM.
* `SavesRestored`: `RestoresASave`, for `~Preempt`. The restored slot is a matter of
  two blocks, the flags and the slot's own. `SaveOK` says of every command that waits
  what it will write, given that a later save may still change its buffer
  (`PendingOK`), and what the slot would come back as after all of them (`EndOK`).
* `KeysReachFlash`: `DrainedKeysStored`, whatever clients do and however full the queue
  gets. `KeysOK` follows each block of keys: its last command in the queue, or flash if
  there is none, has the key in use, unless the lock key's command was refused or the
  exchange of the pair ends in a reset. `QuietKey`, `QueuedKey` and `DoneKey` say what
  leaves that end alone.

**EidClockProofs**, for every number of slots, width of the clock and period of the
temporary key, set of exponents K up to that period's (16 in the code, which does not
refuse larger ones: "hazards"), contents of flash and delay:

* `TypeCorrect` and `EidsFollowClocks`: `TypeOK` and `EidIsCurrent`. Inductive
  together: every slot is `Sound`, its temporary key that of its clock and its EID
  that of both. `OneSecondSound` is one turn of the loop of `update_time`. That a
  rotation of the EID falls on every rollover of the key is divisibility of powers of
  two; powers are the library's only through cardinality, so `PowerOfSum` counts the
  subsets of an interval.
* `FirstClockKeepsTime`: `FirstClockIsRight`. `Metered`: the first clock, with the
  delay not yet paid out, is the timer's count since its exchange.

**ConfigServiceProofs**, for every number of slots, set of powers, contents of
flash and of the stack, and bound, with and without preemption:

* `TypeCorrect`: `TypeOK`. Inductive; the lemmas up to `BuildType` are SlotPower's.
* `EveryRequestIsAnswered`: `OneReply`, if the SoftDevice answers
  cancellations alone (`~CancelsAsked`). The three lemmas `WriteHasEvent`,
  `ReadHasEvent` and `PreparedEvent` go through the table: whatever a client may
  write or read and the program is asked about is an event that `on_write` or
  `on_read` knows.
* `LockedBeaconKeepsItsSlots`: `LockedFreezesSlots`. Each event but Unlock passes
  `LetsThrough` for an unlocked beacon only, the execution of parts prepared
  earlier included.
* `SlotsHoldTheirWrites`: `SlotHoldsItsWrite`, if RW ADV Slot is the only
  characteristic written in parts. `PartsAreSent` says that the SoftDevice's memory
  holds the accepted parts of the write the client is sending.
* `BytesAreCalibrated`: `RangingIsCalibrated`. `Calibrated` adds what the build in
  progress holds: the power of its slot, unless that was overtaken, and a slot whose
  type has the byte it is about to store, unless another frame waits, or the slot was
  cleared or revived. A TLM has its version even when a power overtook the build
  before it.

**LockServiceProofs**, for every number of slots and of keys and challenges:

* `TypeCorrect`: `TypeOK`.
* `LeftLocked` and `LockedKeysStay`: `NobodyLeavesItOpen` and `LockedMeansFrozen`,
  with interrupts anywhere and any client.
* `ChallengesAreKept`: `OfferedTokenUnlocks`, for clients that let an exchange
  finish before they use the lock (`Patient`). Not inductive: `ChallengeKept` adds
  that while a challenge is out the beacon is locked and the main loop idle, so
  that the key block has one user.
* `ExposedKeys`: `ExposedKeyIsSlotsKey`, for such clients or without preemption.
  `Carried` follows the identity key through the block, step by step, for a slot
  that is not about to be exchanged again.
* `KeysAsGiven`: `KeyAsGiven`, for such clients. `Given` says that each write that
  waits is encrypted under the present lock key, and that the exchange in progress
  has its slot's last write or will be followed by another.

**TlmClockProofs**, for the code's units (`CodeUnits`: 30517 ns, 10^6, 100, 2^32,
2^24) and calls of which no two fall in one tick or a whole turn of the RTC apart
(`TicksPass`):

* `TypeCorrect`: `TypeOK`, with every static variable in 32 bits.
* `NeverAhead`: `TimeNotAhead`. `Accounted` is the inductive invariant: what the
  frame shows and both remainders hold together is at most the time since power
  up. Words that overflow only make it less.
* `LosesLessThanAStep`: `CallsLoseLessThanAStep`, for calls less than 2^32 ns apart
  and 13 years of power (`InAWord`).

TLC runs these three in the short units; with the units written out, their
arithmetic is linear.

**AdvIntervalsProofs**, for up to five slots:

* `TypeCorrect`: `TypeOK`, for any request at all: the shares may wrap in 16 bits,
  the interval stays in its bounds.
* `SlotsAlwaysFit`, `EtlmsAlwaysFit` and `IntervalStaysNear`: `SlotsFit`, `EtlmsFit`
  and `IntervalInUse`, for requests of 125 ms or more (`SlowRequests`). `IInv` adds
  that the stored interval is zero or at least 125 ms, and `AllFit` and `Fits` are
  what the two halves of the calculation hand on. Division by the number of slots
  is not linear, so the lemmas `Quotient`, `Multiple` and those after them go
  through the five numbers one by one and hide the result behind `Times`, `Part`,
  `Divided`, `Grows` and `Shared`.

`IntervalStaysNear` corrects what the first reading of the code suggests, that a
calculation only ever raises the interval: its proof fails at the last line of
`EtlmGap`, and the counterexample is in section 5.

`TypeOK` of AdvIntervals, LockService and TlmClock is proved and not in a run.

Only model-checked is liveness, `WritesTakeEffect`, `EverySlotOnAir`,
`ConnectableAdvEnds`, `ExchangesEnd`, `SavesLand` and `EidRangingHeals`: it needs
fairness and ENABLED, which the provers do not have. That the conditions in the table
above are needed is shown by TLC's counterexamples in section 5. The powers of two in
EidClock are not computed anywhere in a proof, only their laws are used.

## 5. What the models say of the code

AdvStaleEvent is a run that ends in a violation: a disagreement between the code
and its own documentation, which `PROJECT.json`, "findings", quotes.

The properties of the passing runs hold under the settings of their
configurations. The table lists what TLC refutes, and with which settings: either
properties that each module states in its last part, "Documented, and not so", or
properties of a passing run once a condition is dropped. The comment at the
property quotes what the repository says of it.

| Property | Refuted with | What happens |
|---|---|---|
| `StoredEidHasKey` (SlotConfig) | 1 slot, queue 2, `ProperWrites`, no preemption, 2 writes | the client disconnects before its exchange: the slot is stored as an EID with no key |
| `KeyFromClientsExchange` (SlotConfig) | the same | of two queued 18 byte writes the second is read with the length 34 the first left |
| `ClearedStaysCleared` (SlotConfig) | EID in `StackGarbage` | an empty write leaves the event's type to the stack: the cleared slot becomes an EID |
| | `EidWrites` | a refused EID write empties the slot but leaves its old EID state, whose next rotation configures the slot again |
| | preemption, `ProperWrites` | a clear during the exchange is overwritten by `eid_ready` |
| `FrameIsTheSlots` (SlotConfig) | 1 slot, queue 2, `ProperWrites`, `StackGarbage` {"UID"}, preemption, 2 writes, 1 tick (it holds without preemption) | a clear between the stores of `eid_ready` (`eddystone_adv_slot.c:446-448`): the length that follows makes it a UID slot of 34 bytes with an EID frame, and no `frame_set` is queued; the next write of the slot ends it |
| `NoAdvError` (AdvManager) | `WritesOther`, 2 slots | a frame type that no case knows fails the check and resets the chip |
| | `WritesLong`, 2 slots, "anywhere", 1 write | a URL too long for a packet has its turn before `frame_set` has refused it, and `ble_advdata_set` fails (`eddystone_advertising_manager.c:293`) |
| `OnAirIsConfigured` (AdvManager) | AdvAnywhere's | a write between the choice of a slot and the start of its frame is followed by the frame of the slot as it was |
| `EtlmPairIsConfigured` (AdvManager) | `BootsOne`, `WritesDef`, "none" | a refused EID still counts as an EID slot |
| `EtlmPairsWithAnEid` (AdvManager) | 3 slots, `BootsOne`, `WritesFew`, "queued", 1 write, 1 press | an eTLM timer event queued before a write of a second EID goes on with a list of pairs that lacks it, and pairs with the padding |
| `SlotsFit` (AdvIntervals) | `Requests` `AllTurns`, `InitialIntervals` `AnyInitial`, 5 slots | five slots and 100 to 124 ms: a slot's share is less than the buffer, the subtraction wraps to 65531 ms, and the interval is not raised (`eddystone_advertising_manager.c:376`; `:322` says that all slots have time before the next interval) |
| "the interval is only raised", in place of `IntervalInUse` | IntervalsSlow's | 549 ms, two slots, one EID and telemetry: the eTLM's share of the slot falls short by a millisecond, and both gaps are computed anew from its limit: 500 ms |
| `OneReply` (ConfigService) | `CancelsAsked` | a cancelled long write is none of the events `on_write` knows, so that it gets no reply |
| `SlotHoldsItsWrite` (ConfigService) | `factory_reset` in `PrepareChars` | the execution of another characteristic's parts applies the last value of RW ADV Slot to the active slot |
| `LongWritesAreWhole` (ConfigService) | ServiceRequests' | an execution after one part takes the whole 34 bytes |
| `InvalidValuesLock` (ConfigService) | ServiceRequests' | an empty write leaves the lock state without a byte, and a stack byte in its place |
| `ByteIsOfThePower` (SlotPower) | ServiceRequests' (it holds without `Preempt`) | a power written between the two halves of `frame_set` or `eid_ready` is met by the byte of the one before; an EID recovers at its next rotation, a UID at its next write |
| `TlmHasItsVersion` (SlotPower) | ServiceRequests' (it holds without `Preempt`) | an empty write between the stores of type and length of `eid_ready`, with a stack byte that is a TLM's: the cleared slot is a configured TLM with an EID's frame and ranging byte, and no `frame_set` is queued |
| `LockKeyStored` (FlashStore) | queue of 5 | a full queue refuses the lock key, and the refusal is dropped |
| `NoOverflow` (FlashStore) | `FullOfEids`, 5 slots, queue of 10 | a disconnect's 6 commands and the daily store's 5 are more than 10 |
| `IntervalRestored` (FlashStore) | `Programmed`, 2 slots, queue of 10 | slot 0 is empty, so the interval is not stored |
| `RestoresASave` (FlashStore) | `Preempt`, 2 slots, queue of 10, 1 write | a write and a disconnect interrupt the daily store, which shares their buffers |
| `LockCodeLocks` (LockService) | LockPatient's | a lock code write locks only if its first byte is zero |
| `OfferedTokenUnlocks`, `KeyAsGiven` (LockService) | not `Patient`, no preemption | the exchange loads its key into the block of the challenge; a new lock code before the exchange decrypts what the old one encrypted |
| `ExposedKeyIsSlotsKey` (LockService) | not `Patient`, preemption | a challenge between `Load` and `Encrypt` |
| `ClocksNotSlow` (EidClock) | 2 slots, `Scalers` {1, 3}, `KeptSlots` `Zero` | only the first EID slot is given the second that makes up for the delay |
| `ClocksNotFast` (EidClock) | 1 slot, `KeptSlots` `None`, 20 ticks | the delay of a beacon without EIDs is given to the first one it gets |
| `TimeInResolution` (TlmClock) | `Gaps` {10, 15}, time 200 | every read drops what is left over of a step |
| `CallsLoseLessThanAStep` (TlmClock) | `Gaps` {10, 200}, time 400 | reads further apart than a word lose whole words |
| `TimeNotAhead` (TlmClock) | 0 in `Gaps` | two reads in one tick add an uninitialised variable |

## 6. Not modelled

* The bytes and the status of replies. A link lost before a reply fails an
  `APP_ERROR_CHECK` in the code: ConfigService starts anew.
* Long writes of the six characteristics that `on_write` looks for before the kind
  of write: their parts are taken for plain writes, of a value that the SoftDevice
  has yet to write.
* The bytes beyond `m_slots` that a number past the slots reads or, in an eTLM, writes:
  any frame type is read there and nothing that is written there is seen again. The
  reads of a slot by `eddystone_adv_slot_params_get` are one step, and so is the list
  that `eddystone_adv_slot_num_of_configured_slots` writes entry by entry.
* The bytes of frames and packets, LEDs, debug output; temperature, battery
  voltage and advertisement count of TLM.
* A read of an EID slot that an interrupt puts between the changes of its K, clock
  and EID (`eddystone_adv_slot.c:401`): only its reply shows them.
* Stack, GAP and connection parameters: tables handed to the SoftDevice. Of the
  registration of characteristics, what a client may do to each is modelled.
* The cryptography (opaque functions), pstorage's own recovery inside a command,
  the radio. They are not in the repository.
* `src/bsp`, the debug monitor, project files, images and scripts.

## 7. Plan

1. An abstract store (what was saved last, or is being saved) that FlashStore
   implements, as SlotConfig does SlotTable.
2. AdvManager's list of slots entry by entry, so that an interrupt may find it half
   written (section 6).
