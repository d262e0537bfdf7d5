----------------------------- MODULE FlashStore -----------------------------
(***************************************************************************)
(* What survives power loss: the flash blocks of eddystone_flash.c, who    *)
(* writes them and what power up makes of them.                            *)
(*                                                                         *)
(* pstorage carries out one command at a time and long after it was asked  *)
(* to: a command waits in a queue of PSTORAGE_CMD_QUEUE_SIZE entries and   *)
(* takes its data from a static buffer of its block when its turn comes.   *)
(* Commands come from the disconnect event and the lock key write          *)
(* (interrupt context), and from the key exchange and the daily store of   *)
(* the EID clocks (main loop).  Power may fail between any two commands.   *)
(*                                                                         *)
(* Abstractions: a frame, a lock key and an ECDH key pair are the number   *)
(* of the write or generation they come from, zero is what erased flash    *)
(* reads as; the EID clock is part of its frame; a command changes its     *)
(* block at once (pstorage's own recovery from power loss within a command *)
(* is external).  How a slot gets its contents is in SlotConfig.           *)
(***************************************************************************)
EXTENDS Integers, Sequences

CONSTANTS
    NumSlots,      \* APP_MAX_ADV_SLOTS and APP_MAX_EID_SLOTS, which are equal
    QueueCap,      \* PSTORAGE_CMD_QUEUE_SIZE
    Preempt,       \* may an interrupt hit inside write_to_flash?
    InitialFlash,  \* the contents of flash at the first power up
    MaxWrites,     \* bound: client writes in a behaviour
    MaxStores,     \* bound: daily stores in a behaviour
    MaxLosses      \* bound: power losses in a behaviour

Slots == 0 .. NumSlots - 1

\* A slot in RAM or flash: the write its frame comes from, whether it is an
\* EID, and its advertising interval (by the write that set it).
Configs == [frame : Nat, eid : BOOLEAN, interval : Nat]
NoConfig == [frame |-> 0, eid |-> FALSE, interval |-> 0]
DefaultConfig == [frame |-> 1, eid |-> FALSE, interval |-> 1]

\* The blocks.  An erased block is all ones: NoConfig, key 0, and flags that
\* are all true.
Flags == [factory : BOOLEAN, empty : [Slots -> BOOLEAN]]
ErasedFlags == [factory |-> TRUE, empty |-> [s \in Slots |-> TRUE]]
Images == [config : [Slots -> Configs], flags : Flags,
           lock : Nat, priv : Nat, pub : Nat]
\* STATIC_LOCK_CODE is what this build defines: the default key is all ones.
DefaultLockKey == 0
Erased == [config |-> [s \in Slots |-> NoConfig], flags |-> ErasedFlags,
           lock |-> 0, priv |-> 0, pub |-> 0]

ASSUME NumSlotsAssumption == NumSlots \in Nat \ {0}
ASSUME QueueCapAssumption == QueueCap \in Nat \ {0}
ASSUME PreemptAssumption == Preempt \in BOOLEAN
ASSUME InitialFlashAssumption == InitialFlash \subseteq Images
\* The public half of a pair is written after the private one: a chip that has
\* the public half has both.
ASSUME InitialPairAssumption ==
    \A image \in InitialFlash : image.pub # 0 => image.priv = image.pub
ASSUME BoundsAssumption == MaxWrites \in Nat /\ MaxStores \in Nat /\ MaxLosses \in Nat

VARIABLES
    slots,      \* [Slots -> Configs]: m_slots
    occupied,   \* the slots whose m_security_slot[s].is_occupied holds
    exchange,   \* the slots with a key exchange waiting for the main loop
    lockKey,    \* m_aes_ecb_lk.key
    pair,       \* m_ecdh.ecdh_key_pair, 0 when it is all zeros
    nvm,        \* the flash blocks
    buffers,    \* m_flash_buffers
    commands,   \* pstorage's queue
    main,       \* where the main loop is
    connected,  \* a client holds a connection
    failed,     \* APP_ERROR_CHECK has failed; the chip is about to reset
    saved,      \* ghost: what each slot was at the last disconnect
    stored,     \* ghost: what each was at the daily stores after that
    since,      \* ghost: what each was at each of either since flash was idle
    dropped,    \* ghost: the queue was full and the lock key's command was lost
    count       \* writes, stores, losses and key pairs so far

kept == <<saved, stored, since, dropped>>
vars == <<slots, occupied, exchange, lockKey, pair, nvm, buffers, commands,
          main, connected, failed, saved, stored, since, dropped, count>>

-----------------------------------------------------------------------------
(* Positions, commands and the value a slot is stored as *)

\* Reading the keys and the slots ("boot", "load"), waiting for the default
\* lock key to be written ("wait"), in the loop of the daily store ("store")
\* and in write_to_flash between its copy of the slot and the call of the
\* flash module ("put").
Positions == {"boot", "wait", "load", "idle", "store", "put"}
At(p) == [at |-> p, slot |-> 0, config |-> NoConfig]
Idle == At("idle")
MainStates == [at : Positions, slot : Slots, config : Configs]

SlotBlock(s) == [block |-> "config", slot |-> s]
Block(b) == [block |-> b, slot |-> 0]
Commands == [block : {"config", "flags", "lock", "priv", "pub"}, slot : Slots,
             clear : BOOLEAN]
Update(b) == [block |-> b.block, slot |-> b.slot, clear |-> FALSE]
Clear(b) == [block |-> b.block, slot |-> b.slot, clear |-> TRUE]

\* What eddystone_flash_access_lock_key, _flags and _ecdh_key_pair queue.
LockCommand == Update(Block("lock"))
FlagsCommand == Update(Block("flags"))
PairCommands == <<Update(Block("priv")), Update(Block("pub"))>>

\* eddystone_flash_num_pending_ops is 0
NothingPending == commands = <<>>

\* A command for block b is in the queue.
Waits(b) == \E i \in 1 .. Len(commands) : commands[i].block = b

\* eddystone_adv_slot_is_configured
IsConfigured(s) == slots[s].frame # 0

\* eddystone_adv_slot_write_to_flash: the copy of the slot on the stack, and
\* the command it ends in.
SlotImage(s) == IF IsConfigured(s) THEN slots[s] ELSE NoConfig
SlotCommand(s, config) == IF config = NoConfig THEN Clear(SlotBlock(s))
                          ELSE Update(SlotBlock(s))
\* A clear leaves the buffer alone.
Buffered(b, s, config) == IF config = NoConfig THEN b
                          ELSE [b EXCEPT !.config[s] = config]

\* Mutant: the queue takes one command too many.
RoomForOneMore(n) == Len(commands) + n <= QueueCap + 1
Room(n) == Len(commands) + n <= QueueCap

\* A disconnect saves every slot ...
Saving ==
    /\ saved' = [s \in Slots |-> SlotImage(s)]
    /\ stored' = [s \in Slots |-> {}]
    /\ since' = [s \in Slots |-> since[s] \cup {SlotImage(s)}]
\* ... and the daily store one.
Storing(s) ==
    /\ stored' = [stored EXCEPT ![s] = @ \cup {SlotImage(s)}]
    /\ since' = [since EXCEPT ![s] = @ \cup {SlotImage(s)}]
    /\ UNCHANGED saved
\* Flash that is idle is up to date, unless main is about to write.
Settling == since' = IF Tail(commands) = <<>> /\ main.at # "put"
                     THEN [s \in Slots |-> stored[s] \cup {saved[s]}] ELSE since

-----------------------------------------------------------------------------
(* What power up makes of the blocks *)

\* The slot that eddystone_adv_slots_init and _load_from_flash restore, if
\* any: the flags say that it is not empty and its block is not erased.
Restored(s) ==
    CASE nvm.flags.factory -> IF s = 0 THEN DefaultConfig ELSE NoConfig
      [] ~nvm.flags.factory /\ nvm.flags.empty[s] -> NoConfig
      [] OTHER -> nvm.config[s]

\* An empty slot takes the interval of slot 0 as it is in RAM by then, and
\* .bss is zero; a block that reads as erased keeps the zero.
RestoredInterval(s) ==
    CASE Restored(s) # NoConfig -> Restored(s).interval
      [] Restored(s) = NoConfig /\ s # 0 /\ (nvm.flags.factory \/ nvm.flags.empty[s]) ->
            Restored(0).interval
      [] OTHER -> 0

RestoredSlot(s) == [Restored(s) EXCEPT !.interval = RestoredInterval(s)]

\* RAM is lost; what is in flash is what the slots were saved as.
Unpowered ==
    /\ slots' = [s \in Slots |-> NoConfig]
    /\ occupied' = {} /\ exchange' = {}
    /\ lockKey' = 0 /\ pair' = 0
    /\ buffers' = Erased
    /\ commands' = <<>>
    /\ main' = At("boot")
    /\ connected' = FALSE
    /\ failed' = FALSE
    /\ saved' = [s \in Slots |-> Restored(s)]
    /\ stored' = [s \in Slots |-> {}]
    /\ since' = [s \in Slots |-> {Restored(s)}]
    /\ dropped' = FALSE
    /\ UNCHANGED nvm

Init ==
    /\ nvm \in InitialFlash
    /\ slots = [s \in Slots |-> NoConfig]
    /\ occupied = {} /\ exchange = {}
    /\ lockKey = 0 /\ pair = 0
    /\ buffers = Erased
    /\ commands = <<>>
    /\ main = At("boot")
    /\ connected = FALSE
    /\ failed = FALSE
    /\ saved = [s \in Slots |-> Restored(s)]
    /\ stored = [s \in Slots |-> {}]
    /\ since = [s \in Slots |-> {Restored(s)}]
    /\ dropped = FALSE
    /\ count = [writes |-> 0, stores |-> 0, losses |-> 0, pairs |-> 0]

PowerLoss ==
    /\ count.losses < MaxLosses
    /\ Unpowered
    /\ count' = [count EXCEPT !.losses = @ + 1]

\* app_error_handler resets the chip.
ErrorReset == failed /\ Unpowered /\ UNCHANGED count

-----------------------------------------------------------------------------
(* pstorage *)

\* The command at the head of the queue is carried out.
Applied(c) ==
    LET from == IF c.clear THEN Erased ELSE buffers
    IN IF c.block = "config"
       THEN [nvm EXCEPT !.config[c.slot] = from.config[c.slot]]
       ELSE [nvm EXCEPT ![c.block] = from[c.block]]

\* pstorage_sys_event_handler
CommandDone ==
    /\ ~failed /\ commands # <<>>
    /\ nvm' = Applied(Head(commands))
    /\ commands' = Tail(commands)
    /\ Settling
    /\ UNCHANGED <<slots, occupied, exchange, lockKey, pair, buffers, main,
                   connected, failed, saved, stored, dropped, count>>

-----------------------------------------------------------------------------
(* Power up: eddystone_security_init, then eddystone_adv_slots_init *)

\* eddystone_security_lock_code_init: a beacon whose key block reads as erased,
\* and one with the static default key always does, stores the default.
BootLockKey ==
    /\ main.at = "boot"
    /\ lockKey' = IF nvm.lock = 0 THEN DefaultLockKey ELSE nvm.lock
    /\ IF nvm.lock = 0
       THEN /\ buffers' = [buffers EXCEPT !.lock = DefaultLockKey]
            /\ commands' = Append(commands, LockCommand)
            /\ main' = At("wait")
       ELSE main' = At("load") /\ UNCHANGED <<buffers, commands>>
    /\ UNCHANGED <<slots, occupied, exchange, pair, nvm, connected, failed, kept, count>>

\* FLASH_OP_WAIT
BootWait ==
    /\ main.at = "wait" /\ NothingPending
    /\ main' = At("load")
    /\ UNCHANGED <<slots, occupied, exchange, lockKey, pair, nvm, buffers,
                   commands, connected, failed, kept, count>>

\* The key pair counts only if both of its blocks were written.
BootLoad ==
    /\ main.at = "load"
    /\ pair' = IF nvm.priv # 0 /\ nvm.pub # 0 THEN nvm.pub ELSE 0
    /\ slots' = [s \in Slots |-> RestoredSlot(s)]
    /\ occupied' = {s \in Slots : Restored(s).eid}
    /\ main' = Idle
    /\ UNCHANGED <<exchange, lockKey, nvm, buffers, commands, connected, failed, kept, count>>

-----------------------------------------------------------------------------
(* A client: interrupt context *)

InterruptAllowed ==
    /\ ~failed
    /\ main.at \in {"idle", "store"} \/ (Preempt /\ main.at = "put")

Client == InterruptAllowed /\ connected /\ count.writes < MaxWrites
Wrote == count' = [count EXCEPT !.writes = @ + 1]
Fresh == count.writes + 2

Connect ==
    /\ InterruptAllowed /\ ~connected
    /\ connected' = TRUE
    /\ UNCHANGED <<slots, occupied, exchange, lockKey, pair, nvm, buffers,
                   commands, main, failed, kept, count>>

\* eddystone_adv_slot_rw_adv_data_set, as far as flash is concerned: an EID
\* has a key exchange to come, any other frame and a clear destroy the EID.
ClientWrite(s, frame, eid) ==
    /\ Client /\ Wrote
    /\ slots' = [slots EXCEPT ![s].frame = frame, ![s].eid = eid]
    /\ exchange' = IF eid THEN exchange \cup {s} ELSE exchange \ {s}
    /\ occupied' = IF eid THEN occupied ELSE occupied \ {s}
    /\ UNCHANGED <<lockKey, pair, nvm, buffers, commands, main, connected, failed, kept>>

\* eddystone_adv_slot_adv_intrvl_set with global, the only interval supported.
ClientInterval ==
    /\ Client /\ Wrote
    /\ slots' = [s \in Slots |-> [slots[s] EXCEPT !.interval = Fresh]]
    /\ UNCHANGED <<occupied, exchange, lockKey, pair, nvm, buffers, commands,
                   main, connected, failed, kept>>

\* Mutant: flash is given the old key.
ClientLockKeyStoresOld ==
    /\ Client /\ Wrote
    /\ lockKey' = Fresh
    /\ buffers' = [buffers EXCEPT !.lock = lockKey]
    /\ commands' = IF Room(1) THEN Append(commands, LockCommand) ELSE commands
    /\ dropped' = (~Room(1) /\ ~Waits("lock"))
    /\ UNCHANGED <<slots, occupied, exchange, pair, nvm, main, connected, failed,
                   saved, stored, since>>

\* eddystone_security_lock_code_update.  The flash module fills its buffer before
\* it asks pstorage, so that a command which waits already takes the new key
\* along; the caller drops the error code.
ClientLockKey ==
    /\ Client /\ Wrote
    /\ lockKey' = Fresh
    /\ buffers' = [buffers EXCEPT !.lock = Fresh]
    /\ commands' = IF Room(1) THEN Append(commands, LockCommand) ELSE commands
    /\ dropped' = (~Room(1) /\ ~Waits("lock"))
    /\ UNCHANGED <<slots, occupied, exchange, pair, nvm, main, connected, failed,
                   saved, stored, since>>

StoredFlags == [factory |-> FALSE, empty |-> [s \in Slots |-> ~IsConfigured(s)]]
SlotCommands == [i \in 1 .. NumSlots |-> SlotCommand(i - 1, SlotImage(i - 1))]
SlotBuffers == [s \in Slots |-> IF IsConfigured(s) THEN slots[s] ELSE buffers.config[s]]

\* Mutant: the flags are written only to leave the factory state.
DisconnectFlagsOnce ==
    /\ InterruptAllowed /\ connected
    /\ connected' = FALSE
    /\ Saving
    /\ buffers' = [buffers EXCEPT !.config = SlotBuffers, !.flags = StoredFlags]
    /\ commands' = IF Room(NumSlots + 1)
                   THEN commands \o SlotCommands \o
                        (IF nvm.flags.factory THEN <<FlagsCommand>> ELSE <<>>)
                   ELSE commands
    /\ failed' = ~Room(NumSlots + 1)
    /\ UNCHANGED <<slots, occupied, exchange, lockKey, pair, nvm, main, dropped, count>>

\* on_ble_evt, BLE_GAP_EVT_DISCONNECTED: every slot, then the flags.  A full
\* queue ends in a reset, which takes the whole queue with it.
Disconnect ==
    /\ InterruptAllowed /\ connected
    /\ connected' = FALSE
    /\ Saving
    /\ buffers' = [buffers EXCEPT !.config = SlotBuffers, !.flags = StoredFlags]
    /\ commands' = IF Room(NumSlots + 1)
                   THEN commands \o SlotCommands \o <<FlagsCommand>>
                   ELSE commands
    /\ failed' = ~Room(NumSlots + 1)
    /\ UNCHANGED <<slots, occupied, exchange, lockKey, pair, nvm, main, dropped, count>>

-----------------------------------------------------------------------------
(* The main loop *)

Running(p) == ~failed /\ main.at = p

\* eddystone_beacon_ecdh_pair_generate
NewPair == count.pairs + 1
\* Mutant: every exchange has a key pair of its own.
ExchangePair == NewPair
\* eddystone_security_client_pub_ecdh_receive generates the pair once.
BeaconPair == IF pair = 0 THEN NewPair ELSE pair

\* The key exchange of an EID slot ends in eddystone_security_ecdh_pair_preserve.
KeyExchange(s) ==
    /\ Running("idle") /\ s \in exchange
    /\ exchange' = exchange \ {s}
    /\ occupied' = occupied \cup {s}
    /\ pair' = BeaconPair
    /\ count' = [count EXCEPT !.pairs = IF BeaconPair > @ THEN BeaconPair ELSE @]
    /\ buffers' = [buffers EXCEPT !.priv = BeaconPair, !.pub = BeaconPair]
    /\ commands' = IF Room(2)
                   THEN commands \o PairCommands
                   ELSE commands
    /\ failed' = ~Room(2)
    /\ UNCHANGED <<slots, lockKey, nvm, main, connected, kept>>

\* eddystone_security_update_time, once in 24 hours.
StoreStart ==
    /\ Running("idle") /\ count.stores < MaxStores
    /\ count' = [count EXCEPT !.stores = @ + 1]
    /\ main' = At("store")
    /\ UNCHANGED <<slots, occupied, exchange, lockKey, pair, nvm, buffers,
                   commands, connected, failed, kept>>

\* Mutant: the loop over the slots starts again.
NextStoreWraps == [At("store") EXCEPT !.slot = (main.slot + 1) % NumSlots]
NextStore == IF main.slot = NumSlots - 1 THEN Idle
             ELSE [At("store") EXCEPT !.slot = main.slot + 1]

StoreSkip ==
    /\ Running("store") /\ main.slot \notin occupied
    /\ main' = NextStore
    /\ UNCHANGED <<slots, occupied, exchange, lockKey, pair, nvm, buffers,
                   commands, connected, failed, kept, count>>

\* write_to_flash copies the slot to its stack ...
StoreCopy ==
    /\ Running("store") /\ main.slot \in occupied
    /\ main' = [main EXCEPT !.at = "put", !.config = SlotImage(main.slot)]
    /\ Storing(main.slot)
    /\ UNCHANGED <<slots, occupied, exchange, lockKey, pair, nvm, buffers,
                   commands, connected, failed, dropped, count>>

\* ... and hands the copy to the flash module.
StorePut ==
    /\ Running("put")
    /\ buffers' = Buffered(buffers, main.slot, main.config)
    /\ commands' = IF Room(1) THEN Append(commands, SlotCommand(main.slot, main.config))
                   ELSE commands
    /\ failed' = ~Room(1)
    /\ main' = NextStore
    /\ UNCHANGED <<slots, occupied, exchange, lockKey, pair, nvm, connected, kept, count>>

-----------------------------------------------------------------------------
(* The specification *)

Interrupt ==
    \/ Connect
    \/ \E s \in Slots : \/ ClientWrite(s, Fresh, TRUE)
                        \/ ClientWrite(s, Fresh, FALSE)
                        \/ ClientWrite(s, 0, FALSE)
    \/ ClientInterval
    \/ ClientLockKey
    \/ Disconnect

MainLoop ==
    \/ BootLockKey
    \/ BootWait
    \/ BootLoad
    \/ StoreSkip
    \/ StoreCopy
    \/ StorePut
    \/ \E s \in Slots : KeyExchange(s)

Next == Interrupt \/ MainLoop \/ StoreStart \/ CommandDone \/ PowerLoss \/ ErrorReset

Spec == Init /\ [][Next]_vars

\* The main loop never rests while it has work, pstorage carries on while it
\* has commands, and a failed check does reset the chip.
FairSpec == Spec /\ WF_vars(MainLoop) /\ WF_vars(CommandDone) /\ WF_vars(ErrorReset)

-----------------------------------------------------------------------------
(* Properties *)

TypeOK ==
    /\ slots \in [Slots -> Configs]
    /\ occupied \subseteq Slots /\ exchange \subseteq Slots
    /\ lockKey \in Nat /\ pair \in Nat
    /\ nvm \in Images /\ buffers \in Images
    /\ commands \in Seq(Commands) /\ Len(commands) <= QueueCap
    /\ main \in MainStates
    /\ connected \in BOOLEAN /\ failed \in BOOLEAN
    /\ saved \in [Slots -> Configs]
    /\ stored \in [Slots -> SUBSET Configs] /\ since \in [Slots -> SUBSET Configs]
    /\ dropped \in BOOLEAN
    /\ count \in [writes : Nat, stores : Nat, losses : Nat, pairs : Nat]

\* Lose power at any moment: every slot comes back as it was at a disconnect
\* or daily store since flash was last idle, and if flash is idle now, at the
\* last disconnect or at a store after it.  The configuration and the flags
\* that say whether to read it are two blocks written at different times, a
\* save is many commands, and the commands of one read the buffers of the next.
RestoresASave == \A s \in Slots : Restored(s) \in since[s]

\* The two halves of the ECDH pair are written by two commands.  Whatever
\* happens between them, flash never holds halves of two different pairs: a
\* beacon with such a pair would derive a key no client can agree with.
StoredPairMatches == nvm.priv # 0 /\ nvm.pub # 0 => nvm.priv = nvm.pub

\* Whenever flash is idle it holds the ECDH pair and the lock key in use, through
\* saves that overflow the queue, commands that share a buffer, resets and losses
\* of power.  The one way out is the lock key whose command the full queue
\* refused: on_ecs_evt drops that error, everywhere else it resets the chip.
DrainedKeysStored ==
    main.at = "idle" /\ commands = <<>> /\ ~failed =>
        /\ ~dropped => nvm.lock = lockKey
        /\ pair # 0 => nvm.priv = pair /\ nvm.pub = pair

\* However often clients connect and disconnect, once they change nothing more
\* flash gets to hold what the last disconnect saved, unless the daily store
\* writes the slot after it, and the keys in use; a save that finds the queue
\* full resets the chip, which then lives by what flash held.  The main loop,
\* which waits for flash at power up and puts commands while it stores, always
\* gets back to waiting for events.
SavesLand ==
    /\ \A s \in Slots :
          (saved[s] # Restored(s)) ~> (saved[s] = Restored(s) \/ stored[s] # {})
    /\ (nvm.lock # lockKey) ~> (nvm.lock = lockKey \/ dropped)
    /\ (pair # 0 /\ nvm.pub # pair) ~> (pair = 0 \/ nvm.pub = pair)
    /\ (main.at # "idle") ~> (main.at = "idle")

-----------------------------------------------------------------------------
(* Documented, and not so: TLC refutes the first as soon as the queue can    *)
(* overflow, the second with FullOfEids, five slots and the code's queue of  *)
(* ten, and the third with a second slot.                                    *)

\* A lock key that is in use and that no command is about to write is the one
\* in flash: eddystone_security.h says that the update stores the new key.
LockKeyStored ==
    main.at = "idle" /\ ~Waits("lock") => nvm.lock = lockKey

\* A disconnect saves the slots (README.md): it does not end in a reset that
\* throws the save away.
NoOverflow == ~failed

\* With no client and flash idle, the advertising interval that a reset
\* brings back is the one in use, if any slot is configured.  The interval is
\* global and the manager reads it from slot 0.
IntervalRestored ==
    /\ main.at = "idle" /\ ~connected /\ commands = <<>>
    /\ \E s \in Slots : IsConfigured(s)
    => RestoredInterval(0) = slots[0].interval
=============================================================================
