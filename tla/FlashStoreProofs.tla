-------------------------- MODULE FlashStoreProofs --------------------------
(***************************************************************************)
(* Proofs about FlashStore: the types of its state, that flash never holds *)
(* halves of two key pairs, that every slot comes back from a loss of      *)
(* power as it was at a save since flash was last idle, and that the keys  *)
(* in use get to flash.                                                    *)
(***************************************************************************)
EXTENDS FlashStore, SequenceTheorems, TLAPS

-----------------------------------------------------------------------------
(* Types *)

\* What waits for flash while the beacon powers up is the lock key, and only
\* slots are ever cleared.
QueueOK ==
    /\ main.at \in {"boot", "load"} => commands = <<>>
    /\ \A i \in 1 .. Len(commands) :
          /\ main.at = "wait" => commands[i] = LockCommand
          /\ commands[i].clear => commands[i].block = "config"

Typed == TypeOK /\ QueueOK

LEMMA ZeroSlot == 0 \in Slots
BY NumSlotsAssumption DEF Slots

LEMMA ConfigTypes == NoConfig \in Configs /\ DefaultConfig \in Configs
BY DEF Configs, NoConfig, DefaultConfig

LEMMA ErasedType == Erased \in Images
BY ConfigTypes DEF Erased, ErasedFlags, Images, Flags

LEMMA MainTypes ==
    /\ \A p \in Positions : At(p) \in MainStates /\ At(p).at = p /\ At(p).slot = 0
    /\ Idle \in MainStates /\ Idle.at = "idle"
BY ZeroSlot, ConfigTypes DEF At, Idle, MainStates, Positions

LEMMA CommandTypes ==
    /\ LockCommand \in Commands /\ FlagsCommand \in Commands
    /\ PairCommands \in Seq(Commands) /\ Len(PairCommands) = 2
    /\ \A s \in Slots : \A config : SlotCommand(s, config) \in Commands
BY ZeroSlot DEF LockCommand, FlagsCommand, PairCommands, Commands, Update, Clear,
                Block, SlotBlock, SlotCommand

LEMMA SlotCommandsType ==
    /\ SlotCommands \in Seq(Commands) /\ Len(SlotCommands) = NumSlots
    /\ \A i \in 1 .. NumSlots : SlotCommands[i] = SlotCommand(i - 1, SlotImage(i - 1))
<1>1. \A i \in 1 .. NumSlots : SlotCommand(i - 1, SlotImage(i - 1)) \in Commands
  BY CommandTypes, NumSlotsAssumption DEF Slots
<1> QED  BY <1>1, NumSlotsAssumption DEF SlotCommands

LEMMA RestoredType ==
    ASSUME nvm \in Images, NEW s \in Slots
    PROVE  Restored(s) \in Configs /\ RestoredInterval(s) \in Nat /\ RestoredSlot(s) \in Configs
<1>1. ASSUME NEW r \in Slots PROVE Restored(r) \in Configs
  <2>1. nvm.config[r] \in Configs  BY DEF Images
  <2> QED  BY <2>1, ConfigTypes DEF Restored
<1>2. RestoredInterval(s) \in Nat
  <2>1. Restored(s).interval \in Nat /\ Restored(0).interval \in Nat
    BY <1>1, ZeroSlot DEF Configs
  <2> HIDE DEF Restored
  <2> QED  BY <2>1 DEF RestoredInterval
<1> QED  BY <1>1, <1>2 DEF RestoredSlot, Configs

LEMMA ImageType ==
    ASSUME slots \in [Slots -> Configs], NEW s \in Slots
    PROVE  SlotImage(s) \in Configs
BY ConfigTypes DEF SlotImage

\* The queue grows at its end: its entries so far are kept, new ones are for
\* the blocks in B, and only slots are cleared.
Extends(B) ==
    /\ commands' \in Seq(Commands) /\ Len(commands) <= Len(commands')
    /\ \A i \in 1 .. Len(commands) : commands'[i] = commands[i]
    /\ \A i \in Len(commands) + 1 .. Len(commands') :
          /\ commands'[i].block \in B
          /\ commands'[i].clear => commands'[i].block = "config"

LEMMA AppendQueue ==
    ASSUME NEW q \in Seq(Commands), NEW c \in Commands
    PROVE  /\ Append(q, c) \in Seq(Commands) /\ Len(Append(q, c)) = Len(q) + 1
           /\ \A i \in 1 .. Len(q) : Append(q, c)[i] = q[i]
           /\ Append(q, c)[Len(q) + 1] = c
OBVIOUS

LEMMA KeptExtends ==
    ASSUME commands \in Seq(Commands), commands' = commands, NEW B PROVE Extends(B)
BY DEF Extends

LEMMA AppendExtends ==
    ASSUME commands \in Seq(Commands), NEW c \in Commands,
           commands' = IF Room(1) THEN Append(commands, c) ELSE commands,
           c.clear => c.block = "config"
    PROVE  Extends({c.block}) /\ (Len(commands) <= QueueCap => Len(commands') <= QueueCap)
BY QueueCapAssumption DEF Extends, Room

\* The private half of a pair is queued before the public one.
LEMMA PairQueue ==
    ASSUME commands \in Seq(Commands), commands' = commands \o PairCommands
    PROVE  /\ commands' \in Seq(Commands) /\ Len(commands') = Len(commands) + 2
           /\ \A i \in 1 .. Len(commands) : commands'[i] = commands[i]
           /\ commands'[Len(commands) + 1] = Update(Block("priv"))
           /\ commands'[Len(commands) + 2] = Update(Block("pub"))
<1> DEFINE n == Len(commands)
           q == commands \o PairCommands
<1>1. /\ PairCommands \in Seq(Commands) /\ Len(PairCommands) = 2 /\ n \in Nat
      /\ PairCommands[1] = Update(Block("priv")) /\ PairCommands[2] = Update(Block("pub"))
  BY CommandTypes DEF PairCommands
<1>2. /\ q \in Seq(Commands) /\ Len(q) = Len(commands) + Len(PairCommands)
      /\ \A i \in 1 .. Len(commands) + Len(PairCommands) :
            q[i] = IF i <= Len(commands) THEN commands[i]
                   ELSE PairCommands[i - Len(commands)]
  BY <1>1, ConcatProperties
<1>3. q = commands'  OBVIOUS
<1> HIDE DEF q
<1>4. /\ q[n + 1] = PairCommands[(n + 1) - n] /\ (n + 1) - n = 1
      /\ q[n + 2] = PairCommands[(n + 2) - n] /\ (n + 2) - n = 2
  BY <1>1, <1>2
<1>5. \A i \in 1 .. n : q[i] = commands[i]
  BY <1>1, <1>2
<1> QED  BY <1>1, <1>2, <1>3, <1>4, <1>5

LEMMA PairExtends ==
    ASSUME commands \in Seq(Commands),
           commands' = IF Room(2) THEN commands \o PairCommands ELSE commands
    PROVE  /\ Extends({"priv", "pub"})
           /\ Len(commands) <= QueueCap => Len(commands') <= QueueCap
<1>1. CASE Room(2)
  <2>1. commands' = commands \o PairCommands  BY <1>1
  <2>2. \A i \in Len(commands) + 1 .. Len(commands) + 2 :
           i = Len(commands) + 1 \/ i = Len(commands) + 2
    OBVIOUS
  <2> QED  BY <1>1, <2>1, <2>2, PairQueue, QueueCapAssumption
           DEF Extends, Room, Update, Block
<1>2. CASE ~Room(2)
  BY <1>2, KeptExtends DEF Extends
<1> QED  BY <1>1, <1>2

\* A disconnect queues the slots in their order, then the flags.
LEMMA SaveQueue ==
    ASSUME commands \in Seq(Commands), Room(NumSlots + 1),
           commands' = commands \o SlotCommands \o <<FlagsCommand>>
    PROVE  /\ commands' \in Seq(Commands) /\ Len(commands') = Len(commands) + NumSlots + 1
           /\ \A i \in 1 .. Len(commands) : commands'[i] = commands[i]
           /\ \A s \in Slots :
                 commands'[Len(commands) + s + 1] = SlotCommand(s, SlotImage(s))
           /\ commands'[Len(commands) + NumSlots + 1] = FlagsCommand
<1>1. SlotCommands \in Seq(Commands) /\ Len(SlotCommands) = NumSlots
  BY SlotCommandsType
<1>2. \A s \in Slots : SlotCommands[s + 1] = SlotCommand(s, SlotImage(s))
  <2>1. \A s \in Slots : s + 1 \in 1 .. NumSlots /\ (s + 1) - 1 = s
    BY NumSlotsAssumption DEF Slots
  <2> QED  BY <2>1, SlotCommandsType
<1> DEFINE d == SlotCommands
           q == commands \o d
<1>3. \A s \in Slots : s + 1 \in 1 .. NumSlots
  BY NumSlotsAssumption DEF Slots
<1>4. d \in Seq(Commands) /\ Len(d) = NumSlots /\ NumSlots \in Nat /\ FlagsCommand \in Commands
  BY <1>1, CommandTypes, NumSlotsAssumption
<1>5. \A s \in Slots : d[s + 1] = SlotCommand(s, SlotImage(s))
  BY <1>2
<1> HIDE DEF d
<1>6. /\ q \in Seq(Commands) /\ Len(q) = Len(commands) + NumSlots
      /\ \A i \in 1 .. Len(commands) + NumSlots :
            q[i] = IF i <= Len(commands) THEN commands[i] ELSE d[i - Len(commands)]
  BY <1>4, ConcatProperties
<1>7. commands' = q \o <<FlagsCommand>>  BY DEF d
<1> HIDE DEF q
<1>8. /\ commands' \in Seq(Commands) /\ Len(commands') = Len(q) + 1
      /\ \A i \in 1 .. Len(q) : commands'[i] = q[i]
      /\ commands'[Len(q) + 1] = FlagsCommand
  <2>1. commands' = Append(q, FlagsCommand)
    BY <1>4, <1>6, <1>7, AppendIsConcat
  <2>2. q \in Seq(Commands) /\ FlagsCommand \in Commands  BY <1>4, <1>6
  <2>3. /\ Append(q, FlagsCommand) \in Seq(Commands)
        /\ Len(Append(q, FlagsCommand)) = Len(q) + 1
        /\ \A i \in 1 .. Len(q) : Append(q, FlagsCommand)[i] = q[i]
        /\ Append(q, FlagsCommand)[Len(q) + 1] = FlagsCommand
    BY <2>2, AppendQueue, Zenon
  <2> QED  BY <2>1, <2>3, Zenon
<1>9. \A s \in Slots : /\ Len(commands) + s + 1 \in 1 .. Len(q)
                       /\ q[Len(commands) + s + 1] = d[s + 1]
  BY <1>3, <1>6, NumSlotsAssumption DEF Slots
<1>10. \A i \in 1 .. Len(commands) : i \in 1 .. Len(q) /\ q[i] = commands[i]
  BY <1>6, NumSlotsAssumption
<1> QED  BY <1>5, <1>6, <1>8, <1>9, <1>10, NumSlotsAssumption

LEMMA SaveExtends ==
    ASSUME commands \in Seq(Commands),
           commands' = IF Room(NumSlots + 1)
                       THEN commands \o SlotCommands \o <<FlagsCommand>> ELSE commands
    PROVE  /\ Extends({"config", "flags"})
           /\ Len(commands) <= QueueCap => Len(commands') <= QueueCap
<1>1. CASE ~Room(NumSlots + 1)
  BY <1>1, KeptExtends
<1>2. CASE Room(NumSlots + 1)
  <2>1. commands' = commands \o SlotCommands \o <<FlagsCommand>>  BY <1>2
  <2>2. ASSUME NEW i \in Len(commands) + 1 .. Len(commands')
        PROVE  /\ commands'[i].block \in {"config", "flags"}
               /\ commands'[i].clear => commands'[i].block = "config"
    <3>1. CASE i = Len(commands) + NumSlots + 1
      <4>1. commands'[i] = FlagsCommand  BY <1>2, <2>1, <3>1, SaveQueue
      <4> QED  BY <4>1 DEF FlagsCommand, Update, Block
    <3>2. CASE i # Len(commands) + NumSlots + 1
      <4>1. PICK s \in Slots : i = Len(commands) + s + 1
        <5>1. i - Len(commands) - 1 \in Slots
          BY <1>2, <2>1, <3>2, SaveQueue, NumSlotsAssumption DEF Slots
        <5> QED  BY <5>1
      <4>2. commands'[i] = SlotCommand(s, SlotImage(s))
        BY <1>2, <2>1, <4>1, SaveQueue
      <4> QED  BY <4>2 DEF SlotCommand, Update, Clear, SlotBlock
    <3> QED  BY <3>1, <3>2
  <2> QED  BY <1>2, <2>1, <2>2, SaveQueue, NumSlotsAssumption DEF Extends, Room
<1> QED  BY <1>1, <1>2

\* A command that is done leaves the queue, the others move up.
LEMMA TailQueue ==
    ASSUME commands \in Seq(Commands), commands # <<>>, commands' = Tail(commands)
    PROVE  /\ commands' \in Seq(Commands) /\ Len(commands') = Len(commands) - 1
           /\ 1 \in 1 .. Len(commands) /\ Head(commands) = commands[1]
           /\ commands[1] \in Commands
           /\ \A i \in 1 .. Len(commands') :
                 i + 1 \in 1 .. Len(commands) /\ commands'[i] = commands[i + 1]
OBVIOUS

LEMMA AppliedType ==
    ASSUME nvm \in Images, buffers \in Images, NEW c \in Commands
    PROVE  Applied(c) \in Images
<1> DEFINE from == IF c.clear THEN Erased ELSE buffers
<1>1. from \in Images  BY ErasedType
<1>2. CASE c.block = "config"
  <2>1. Applied(c) = [nvm EXCEPT !.config[c.slot] = from.config[c.slot]]  BY <1>2 DEF Applied
  <2> HIDE DEF from
  <2> QED  BY <1>1, <2>1 DEF Images, Commands
<1>3. CASE c.block # "config"
  <2>1. Applied(c) = [nvm EXCEPT ![c.block] = from[c.block]]  BY <1>3 DEF Applied
  <2>2. c.block \in {"flags", "lock", "priv", "pub"}  BY <1>3 DEF Commands
  <2> HIDE DEF from
  <2> QED  BY <1>1, <2>1, <2>2 DEF Images
<1> QED  BY <1>2, <1>3

LEMMA EarlierOK ==
    ASSUME TypeOK, QueueOK, NEW B, Extends(B),
           main'.at # "wait", main'.at \in {"boot", "load"} => commands' = <<>>
    PROVE  QueueOK'
<1>1. ASSUME NEW i \in 1 .. Len(commands'), commands'[i].clear
      PROVE  commands'[i].block = "config"
  <2>1. Len(commands) \in Nat /\ Len(commands') \in Nat
    BY DEF Extends, TypeOK
  <2>2. i \in 1 .. Len(commands) \/ i \in Len(commands) + 1 .. Len(commands')
    BY <2>1
  <2>3. CASE i \in 1 .. Len(commands)
    BY <1>1, <2>3 DEF Extends, QueueOK
  <2>4. CASE i \in Len(commands) + 1 .. Len(commands')
    BY <1>1, <2>4 DEF Extends
  <2> QED  BY <2>2, <2>3, <2>4
<1> QED  BY <1>1 DEF QueueOK

-----------------------------------------------------------------------------
(* Types: each action *)

LEMMA BootTyped ==
    ASSUME Typed, BootLockKey \/ BootWait \/ BootLoad PROVE Typed'
<1>1. CASE BootLockKey
  <2>1. commands = <<>> /\ commands \in Seq(Commands)
    BY <1>1 DEF BootLockKey, Typed, TypeOK, QueueOK
  <2>2. lockKey' \in Nat
    BY <1>1 DEF BootLockKey, DefaultLockKey, Typed, TypeOK, Images
  <2>3. CASE nvm.lock = 0
    <3>1. /\ buffers' = [buffers EXCEPT !.lock = DefaultLockKey]
          /\ commands' = Append(commands, LockCommand) /\ main' = At("wait")
      BY <1>1, <2>3 DEF BootLockKey
    <3>2. buffers' \in Images
      BY <3>1 DEF Typed, TypeOK, Images, DefaultLockKey
    <3>3. /\ commands' \in Seq(Commands) /\ Len(commands') = 1
          /\ commands'[1] = LockCommand
      BY <2>1, <3>1, CommandTypes, AppendQueue
    <3>4. ~LockCommand.clear
      BY DEF LockCommand, Update, Block
    <3>5. QueueOK'
      BY <3>1, <3>3, <3>4, MainTypes DEF QueueOK, Positions
    <3>6. main' \in MainStates  BY <3>1, MainTypes DEF Positions
    <3> QED  BY <1>1, <2>2, <3>2, <3>3, <3>5, <3>6, QueueCapAssumption
             DEF BootLockKey, kept, Typed, TypeOK
  <2>4. CASE nvm.lock # 0
    <3>1. main' = At("load") /\ UNCHANGED <<buffers, commands>>
      BY <1>1, <2>4 DEF BootLockKey
    <3>2. main' \in MainStates /\ main'.at = "load"
      BY <3>1, MainTypes DEF Positions
    <3> QED  BY <1>1, <2>1, <2>2, <3>1, <3>2 DEF BootLockKey, kept, Typed, TypeOK, QueueOK
  <2> QED  BY <2>3, <2>4
<1>2. CASE BootWait
  <2>1. main' \in MainStates /\ main'.at = "load"
    BY <1>2, MainTypes DEF BootWait, Positions
  <2> QED  BY <1>2, <2>1 DEF BootWait, NothingPending, kept, Typed, TypeOK, QueueOK
<1>3. CASE BootLoad
  <2>1. slots' \in [Slots -> Configs] /\ occupied' \subseteq Slots
    BY <1>3, RestoredType DEF BootLoad, Typed, TypeOK
  <2>2. pair' \in Nat  BY <1>3 DEF BootLoad, Typed, TypeOK, Images
  <2>3. main' \in MainStates /\ main'.at = "idle"
    BY <1>3, MainTypes DEF BootLoad
  <2> QED  BY <1>3, <2>1, <2>2, <2>3 DEF BootLoad, kept, Typed, TypeOK, QueueOK
<1> QED  BY <1>1, <1>2, <1>3

\* The interrupt and the loop run after power up, where the queue may grow.
LEMMA GrownTyped ==
    ASSUME Typed, NEW B, Extends(B), main'.at \in {"idle", "store", "put"}
    PROVE  QueueOK'
<1>1. ASSUME NEW i \in 1 .. Len(commands'), commands'[i].clear
      PROVE  commands'[i].block = "config"
  <2>1. CASE i \in 1 .. Len(commands)
    BY <1>1, <2>1 DEF Typed, QueueOK, Extends
  <2>2. CASE i \in Len(commands) + 1 .. Len(commands')
    BY <1>1, <2>2 DEF Extends
  <2> QED  BY <2>1, <2>2 DEF Typed, TypeOK
<1> QED  BY <1>1 DEF QueueOK

LEMMA FreshType == ASSUME Typed PROVE Fresh \in Nat
BY DEF Typed, TypeOK, Fresh

LEMMA ClientTyped ==
    ASSUME Typed,
           \/ \E s \in Slots, frame \in {Fresh, 0}, eid \in BOOLEAN : ClientWrite(s, frame, eid)
           \/ ClientInterval \/ ClientLockKey
    PROVE  Typed'
<1>1. main'.at \in {"idle", "store", "put"} /\ main' = main
      /\ count' \in [writes : Nat, stores : Nat, losses : Nat, pairs : Nat]
  <2>1. Client /\ Wrote /\ main' = main
    BY DEF ClientWrite, ClientInterval, ClientLockKey
  <2> QED  BY <2>1 DEF Typed, TypeOK, Client, Wrote, InterruptAllowed
<1>2. CASE \E s \in Slots, frame \in {Fresh, 0}, eid \in BOOLEAN : ClientWrite(s, frame, eid)
  <2>1. PICK s \in Slots, frame \in {Fresh, 0}, eid \in BOOLEAN : ClientWrite(s, frame, eid)
    BY <1>2
  <2>2. frame \in Nat  BY FreshType
  <2>3. slots' \in [Slots -> Configs]
    <3>1. slots' = [slots EXCEPT ![s].frame = frame, ![s].eid = eid]
      BY <2>1 DEF ClientWrite
    <3>2. slots \in [Slots -> Configs]  BY DEF Typed, TypeOK
    <3>3. [slots[s] EXCEPT !.frame = frame, !.eid = eid] \in Configs
      BY <2>2, <3>2 DEF Configs
    <3> QED  BY <3>1, <3>2, <3>3
  <2>4. exchange' \subseteq Slots /\ occupied' \subseteq Slots
    BY <2>1 DEF ClientWrite, Typed, TypeOK
  <2> QED  BY <1>1, <2>1, <2>3, <2>4 DEF ClientWrite, kept, Typed, TypeOK, QueueOK
<1>3. CASE ClientInterval
  <2>1. slots' \in [Slots -> Configs]
    <3>1. slots \in [Slots -> Configs]  BY DEF Typed, TypeOK
    <3>2. \A s \in Slots : [slots[s] EXCEPT !.interval = Fresh] \in Configs
      BY <3>1, FreshType DEF Configs
    <3> QED  BY <1>3, <3>2 DEF ClientInterval
  <2> QED  BY <1>1, <1>3, <2>1 DEF ClientInterval, kept, Typed, TypeOK, QueueOK
<1>4. CASE ClientLockKey
  <2>1. lockKey' \in Nat /\ buffers' \in Images
    BY <1>4, FreshType DEF ClientLockKey, Typed, TypeOK, Images
  <2>2. ~LockCommand.clear  BY DEF LockCommand, Update, Block
  <2>3. Extends({LockCommand.block}) /\ Len(commands') <= QueueCap
    BY <1>4, <2>2, AppendExtends, CommandTypes DEF ClientLockKey, Typed, TypeOK
  <2>4. QueueOK'  BY <1>1, <2>3, GrownTyped
  <2> QED  BY <1>1, <1>4, <2>1, <2>3, <2>4
           DEF ClientLockKey, kept, Typed, TypeOK, Extends
<1> QED  BY <1>2, <1>3, <1>4

LEMMA DisconnectTyped == ASSUME Typed, Disconnect PROVE Typed'
<1>1. /\ connected' = FALSE /\ Saving
      /\ buffers' = [buffers EXCEPT !.config = SlotBuffers, !.flags = StoredFlags]
      /\ commands' = IF Room(NumSlots + 1)
                     THEN commands \o SlotCommands \o <<FlagsCommand>> ELSE commands
      /\ failed' \in BOOLEAN
      /\ UNCHANGED <<slots, occupied, exchange, lockKey, pair, nvm, main, dropped, count>>
      /\ main.at \in {"idle", "store", "put"}
  BY DEF Disconnect, InterruptAllowed
<1>2. /\ saved' \in [Slots -> Configs] /\ stored' \in [Slots -> SUBSET Configs]
      /\ since' \in [Slots -> SUBSET Configs]
  <2>1. \A s \in Slots : SlotImage(s) \in Configs
    BY ImageType DEF Typed, TypeOK
  <2> QED  BY <1>1, <2>1 DEF Saving, Typed, TypeOK
<1>3. buffers' \in Images
  <2>1. SlotBuffers \in [Slots -> Configs]
    BY DEF SlotBuffers, Typed, TypeOK, Images
  <2>2. StoredFlags \in Flags
    BY DEF StoredFlags, Flags, IsConfigured
  <2> QED  BY <1>1, <2>1, <2>2 DEF Typed, TypeOK, Images
<1>4. Extends({"config", "flags"}) /\ Len(commands') <= QueueCap
  BY <1>1, SaveExtends DEF Typed, TypeOK
<1>5. QueueOK'  BY <1>1, <1>4, GrownTyped
<1> QED  BY <1>1, <1>2, <1>3, <1>4, <1>5 DEF Typed, TypeOK, Extends

LEMMA ExchangeTyped == ASSUME Typed, NEW s \in Slots, KeyExchange(s) PROVE Typed'
<1>1. /\ main' = main /\ main.at = "idle"
      /\ exchange' \subseteq Slots /\ occupied' \subseteq Slots
      /\ failed' \in BOOLEAN
      /\ commands' = IF Room(2) THEN commands \o PairCommands ELSE commands
  BY DEF KeyExchange, Running, Typed, TypeOK
<1>2. BeaconPair \in Nat
  BY DEF BeaconPair, NewPair, Typed, TypeOK
<1>3. /\ pair' \in Nat /\ buffers' \in Images
      /\ count' \in [writes : Nat, stores : Nat, losses : Nat, pairs : Nat]
  BY <1>2 DEF KeyExchange, Typed, TypeOK, Images
<1>4. Extends({"priv", "pub"}) /\ Len(commands') <= QueueCap
  BY <1>1, PairExtends DEF Typed, TypeOK
<1>5. QueueOK'  BY <1>1, <1>4, GrownTyped
<1> QED  BY <1>1, <1>3, <1>4, <1>5 DEF KeyExchange, kept, Typed, TypeOK, Extends

LEMMA NextStoreType ==
    ASSUME Typed PROVE NextStore \in MainStates /\ NextStore.at \in {"idle", "store"}
<1>1. main.slot \in 0 .. NumSlots - 1  BY DEF Typed, TypeOK, MainStates, Slots
<1>2. At("store") \in MainStates /\ At("store").at = "store"
  BY MainTypes DEF Positions
<1>3. CASE main.slot = NumSlots - 1  BY <1>3, MainTypes DEF NextStore
<1>4. CASE main.slot # NumSlots - 1
  <2>1. main.slot + 1 \in Slots  BY <1>1, <1>4, NumSlotsAssumption DEF Slots
  <2> QED  BY <1>2, <1>4, <2>1 DEF NextStore, MainStates
<1> QED  BY <1>3, <1>4

LEMMA StoreTyped ==
    ASSUME Typed, StoreStart \/ StoreSkip \/ StoreCopy \/ StorePut PROVE Typed'
<1>1. CASE StoreStart
  <2>1. main' \in MainStates /\ main'.at = "store"
    BY <1>1, MainTypes DEF StoreStart, Positions
  <2>2. count' \in [writes : Nat, stores : Nat, losses : Nat, pairs : Nat]
    BY <1>1 DEF StoreStart, Typed, TypeOK
  <2> QED  BY <1>1, <2>1, <2>2 DEF StoreStart, kept, Typed, TypeOK, QueueOK
<1>2. CASE StoreSkip
  <2>1. main' \in MainStates /\ main'.at \in {"idle", "store"}
    BY <1>2, NextStoreType DEF StoreSkip
  <2> QED  BY <1>2, <2>1 DEF StoreSkip, kept, Typed, TypeOK, QueueOK
<1>3. CASE StoreCopy
  <2>1. main.slot \in Slots  BY DEF Typed, TypeOK, MainStates
  <2>2. SlotImage(main.slot) \in Configs  BY <2>1, ImageType DEF Typed, TypeOK
  <2>3. main' \in MainStates /\ main'.at = "put"
    BY <1>3, <2>2 DEF StoreCopy, Typed, TypeOK, MainStates, Positions
  <2>4. /\ saved' = saved /\ stored' \in [Slots -> SUBSET Configs]
        /\ since' \in [Slots -> SUBSET Configs]
    BY <1>3, <2>1, <2>2 DEF StoreCopy, Storing, Typed, TypeOK
  <2> QED  BY <1>3, <2>3, <2>4 DEF StoreCopy, Typed, TypeOK, QueueOK
<1>4. CASE StorePut
  <2>1. main.slot \in Slots /\ main.config \in Configs  BY DEF Typed, TypeOK, MainStates
  <2>2. buffers' \in Images
    BY <1>4, <2>1 DEF StorePut, Buffered, Typed, TypeOK, Images
  <2>3. main' \in MainStates /\ main'.at \in {"idle", "store"}
    BY <1>4, NextStoreType DEF StorePut
  <2> DEFINE c == SlotCommand(main.slot, main.config)
  <2>4. c \in Commands /\ c.block = "config"
    BY <2>1, CommandTypes DEF SlotCommand, Update, Clear, SlotBlock
  <2>5. commands' = IF Room(1) THEN Append(commands, c) ELSE commands
    BY <1>4 DEF StorePut
  <2> HIDE DEF c
  <2>6. Extends({"config"}) /\ Len(commands') <= QueueCap
    BY <2>4, <2>5, AppendExtends DEF Typed, TypeOK
  <2>7. QueueOK'  BY <2>3, <2>6, GrownTyped
  <2> QED  BY <1>4, <2>2, <2>3, <2>6, <2>7 DEF StorePut, kept, Typed, TypeOK, Extends
<1> QED  BY <1>1, <1>2, <1>3, <1>4

LEMMA DoneTyped == ASSUME Typed, CommandDone PROVE Typed'
<1>1. /\ nvm' = Applied(Head(commands)) /\ commands' = Tail(commands)
      /\ commands \in Seq(Commands) /\ commands # <<>>
  BY DEF CommandDone, Typed, TypeOK
<1>2. /\ commands' \in Seq(Commands) /\ Len(commands') <= QueueCap
      /\ nvm' \in Images
  <2>1. /\ commands' \in Seq(Commands) /\ Len(commands') = Len(commands) - 1
        /\ Head(commands) \in Commands
    BY <1>1, TailQueue, Zenon
  <2>2. Applied(Head(commands)) \in Images
    BY <2>1, AppliedType DEF Typed, TypeOK
  <2> QED  BY <1>1, <2>1, <2>2, QueueCapAssumption DEF Typed, TypeOK
<1>3. since' \in [Slots -> SUBSET Configs]
  BY DEF CommandDone, Settling, Typed, TypeOK
<1>4. QueueOK'
  BY <1>1, TailQueue DEF CommandDone, Typed, QueueOK
<1> QED  BY <1>2, <1>3, <1>4 DEF CommandDone, Typed, TypeOK

LEMMA UnpoweredTyped ==
    ASSUME Typed, Unpowered,
           count' \in [writes : Nat, stores : Nat, losses : Nat, pairs : Nat]
    PROVE  Typed'
<1>1. \A s \in Slots : Restored(s) \in Configs
  BY RestoredType DEF Typed, TypeOK
<1>2. /\ saved' \in [Slots -> Configs] /\ stored' \in [Slots -> SUBSET Configs]
      /\ since' \in [Slots -> SUBSET Configs]
  BY <1>1 DEF Unpowered
<1>3. main' \in MainStates /\ main'.at = "boot"
  BY MainTypes DEF Unpowered, Positions
<1>4. commands' = <<>> /\ Len(commands') = 0 /\ commands' \in Seq(Commands)
  BY DEF Unpowered
<1>5. slots' \in [Slots -> Configs] /\ buffers' \in Images
  BY ConfigTypes, ErasedType DEF Unpowered
<1>6. connected' \in BOOLEAN /\ failed' \in BOOLEAN /\ dropped' \in BOOLEAN
  BY Zenon DEF Unpowered
<1>7. QueueOK'
  BY <1>3, <1>4 DEF QueueOK
<1>8. /\ occupied' \subseteq Slots /\ exchange' \subseteq Slots
      /\ lockKey' \in Nat /\ pair' \in Nat /\ nvm' \in Images
  BY DEF Unpowered, Typed, TypeOK
<1> QED  BY <1>2, <1>3, <1>4, <1>5, <1>6, <1>7, <1>8, QueueCapAssumption
         DEF Typed, TypeOK

LEMMA InitTyped == ASSUME Init PROVE Typed
<1>1. nvm \in Images  BY InitialFlashAssumption DEF Init
<1>2. \A s \in Slots : Restored(s) \in Configs  BY <1>1, RestoredType
<1>3. /\ saved \in [Slots -> Configs] /\ stored \in [Slots -> SUBSET Configs]
      /\ since \in [Slots -> SUBSET Configs]
  BY <1>2 DEF Init
<1>4. main \in MainStates /\ main.at = "boot"
  BY MainTypes DEF Init, Positions
<1>5. commands = <<>> /\ Len(commands) = 0 /\ commands \in Seq(Commands)
  BY DEF Init
<1>6. slots \in [Slots -> Configs] /\ buffers \in Images
  BY ConfigTypes, ErasedType DEF Init
<1>7. connected \in BOOLEAN /\ failed \in BOOLEAN /\ dropped \in BOOLEAN
  BY Zenon DEF Init
<1>8. QueueOK
  BY <1>4, <1>5 DEF QueueOK
<1>9. /\ occupied \subseteq Slots /\ exchange \subseteq Slots
      /\ lockKey \in Nat /\ pair \in Nat
      /\ count \in [writes : Nat, stores : Nat, losses : Nat, pairs : Nat]
  BY DEF Init
<1> QED  BY <1>1, <1>3, <1>4, <1>5, <1>6, <1>7, <1>8, <1>9, QueueCapAssumption
         DEF Typed, TypeOK

LEMMA NextTyped == ASSUME Typed, [Next]_vars PROVE Typed'
<1>1. CASE Connect
  BY <1>1 DEF Connect, kept, Typed, TypeOK, QueueOK
<1>2. ASSUME NEW s \in Slots,
             \/ ClientWrite(s, Fresh, TRUE) \/ ClientWrite(s, Fresh, FALSE)
             \/ ClientWrite(s, 0, FALSE)
      PROVE  Typed'
  BY <1>2, ClientTyped
<1>3. CASE ClientInterval \/ ClientLockKey
  BY <1>3, ClientTyped
<1>4. CASE PowerLoss
  <2>1. count' \in [writes : Nat, stores : Nat, losses : Nat, pairs : Nat]
    BY <1>4 DEF PowerLoss, Typed, TypeOK
  <2> QED  BY <1>4, <2>1, UnpoweredTyped DEF PowerLoss
<1>5. CASE ErrorReset
  <2>1. count' \in [writes : Nat, stores : Nat, losses : Nat, pairs : Nat]
    BY <1>5 DEF ErrorReset, Typed, TypeOK
  <2> QED  BY <1>5, <2>1, UnpoweredTyped DEF ErrorReset
<1>6. CASE UNCHANGED vars
  BY <1>6 DEF vars, Typed, TypeOK, QueueOK
<1> QED
  BY <1>1, <1>2, <1>3, <1>4, <1>5, <1>6, BootTyped, DisconnectTyped, ExchangeTyped,
     StoreTyped, DoneTyped DEF Next, Interrupt, MainLoop

LEMMA AlwaysTyped == Spec => []Typed
BY InitTyped, NextTyped, PTL DEF Spec

\* Whatever clients write and whenever power fails, the state of the flash module
\* and of its users stays within its types, and pstorage never holds more
\* commands than its queue (eddystone_flash.c, pstorage_platform.h).
THEOREM TypeCorrect == Spec => []TypeOK
BY AlwaysTyped, PTL DEF Typed

-----------------------------------------------------------------------------
(* The key pair *)

Booting == main.at \in {"boot", "wait", "load"}
Halves == {"priv", "pub"}

\* The half that is written last, the public one, never gets ahead: it is in
\* flash only with the private half of its pair, its command waits behind that
\* of the private half, and there are only commands for the pair in RAM.
PairOK ==
    /\ nvm.pub # 0 => nvm.priv = nvm.pub
    /\ ~Booting => nvm.pub \in {0, pair}
    /\ \A i \in 1 .. Len(commands) : commands[i].block \in Halves =>
          /\ pair # 0 /\ buffers.priv = pair /\ buffers.pub = pair
          /\ commands[i].block = "pub" =>
                \/ nvm.priv = pair
                \/ \E j \in 1 .. i - 1 : commands[j].block = "priv"

\* While the beacon powers up, no half waits.
LEMMA BootHalves ==
    ASSUME Typed, Booting, NEW i \in 1 .. Len(commands)
    PROVE  commands[i].block \notin Halves
<1>1. main.at = "wait"
  BY DEF Typed, TypeOK, QueueOK, Booting
<1>2. commands[i] = LockCommand
  BY <1>1 DEF Typed, QueueOK
<1> QED  BY <1>2 DEF LockCommand, Update, Block, Halves

\* What leaves the pair alone.
LEMMA QuietPair ==
    ASSUME Typed, PairOK, NEW B, Extends(B), B \cap Halves = {},
           UNCHANGED <<pair, nvm>>,
           buffers'.priv = buffers.priv, buffers'.pub = buffers.pub,
           Booting => Booting'
    PROVE  PairOK'
<1>1. ASSUME NEW i \in 1 .. Len(commands'), commands'[i].block \in Halves
      PROVE  i \in 1 .. Len(commands) /\ commands'[i] = commands[i]
  <2>1. i \notin Len(commands) + 1 .. Len(commands')
    BY <1>1 DEF Extends
  <2> QED  BY <1>1, <2>1 DEF Extends, Typed, TypeOK
<1>2. ASSUME NEW i \in 1 .. Len(commands'), commands'[i].block = "pub"
      PROVE  nvm.priv = pair \/ \E j \in 1 .. i - 1 : commands'[j].block = "priv"
  <2>1. i \in 1 .. Len(commands) /\ commands[i].block = "pub"
    BY <1>1, <1>2 DEF Halves
  <2>2. ASSUME NEW j \in 1 .. i - 1 PROVE commands'[j] = commands[j]
    <3>1. Len(commands) \in Nat  BY DEF Typed, TypeOK
    <3>2. j \in 1 .. Len(commands)  BY <2>1, <3>1
    <3> QED  BY <3>2 DEF Extends
  <2> QED  BY <2>1, <2>2 DEF PairOK, Halves
<1>3. ASSUME NEW i \in 1 .. Len(commands'), commands'[i].block \in Halves
      PROVE  pair' # 0 /\ buffers'.priv = pair' /\ buffers'.pub = pair'
  BY <1>1, <1>3 DEF PairOK
<1> QED  BY <1>2, <1>3 DEF PairOK

\* A key exchange asks for the pair that is there, or generates one when there
\* is none, of which flash cannot have the public half.
LEMMA ExchangeKeepsPair ==
    ASSUME Typed, PairOK, NEW s \in Slots, KeyExchange(s) PROVE PairOK'
<1>1. /\ main.at = "idle" /\ main' = main /\ nvm' = nvm
      /\ pair' = BeaconPair /\ pair' # 0 /\ (pair # 0 => pair' = pair)
      /\ commands \in Seq(Commands)
      /\ buffers'.priv = pair' /\ buffers'.pub = pair'
      /\ commands' = IF Room(2) THEN commands \o PairCommands ELSE commands
  BY DEF KeyExchange, Running, BeaconPair, NewPair, Typed, TypeOK, Images
<1>2. Extends(Halves)
  BY <1>1, PairExtends DEF Halves
<1>3. nvm.pub \in {0, pair'}
  BY <1>1 DEF PairOK, Booting
<1>4. ASSUME NEW i \in 1 .. Len(commands'), commands'[i].block = "pub"
      PROVE  nvm.priv = pair' \/ \E j \in 1 .. i - 1 : commands'[j].block = "priv"
  <2>1. CASE i \in 1 .. Len(commands)
    <3>1. commands[i].block = "pub"
      BY <1>2, <1>4, <2>1 DEF Extends
    <3>2. pair # 0 /\ (nvm.priv = pair \/ \E j \in 1 .. i - 1 : commands[j].block = "priv")
      BY <2>1, <3>1 DEF PairOK, Halves
    <3>3. ASSUME NEW j \in 1 .. i - 1 PROVE commands'[j] = commands[j]
      BY <1>1, <1>2, <2>1, <3>3 DEF Extends
    <3> QED  BY <1>1, <3>2, <3>3
  <2>2. CASE i \notin 1 .. Len(commands)
    <3>1. Room(2)
      BY <1>1, <2>2
    <3>2. commands' = commands \o PairCommands
      BY <1>1, <3>1
    <3> DEFINE n == Len(commands)
    <3>3. n \in Nat /\ Len(commands') = n + 2 /\ commands'[n + 1].block = "priv"
      BY <1>1, <3>2, PairQueue DEF Update, Block
    <3>4. i = n + 2 \/ i = n + 1
      BY <2>2, <3>3
    <3> QED  BY <1>4, <3>3, <3>4
  <2> QED  BY <2>1, <2>2
<1>5. nvm'.pub # 0 => nvm'.priv = nvm'.pub
  BY <1>1 DEF PairOK
<1> QED  BY <1>1, <1>3, <1>4, <1>5 DEF PairOK, Booting

LEMMA DonePair == ASSUME Typed, PairOK, CommandDone PROVE PairOK'
<1> DEFINE c == commands[1]
<1>1. /\ commands \in Seq(Commands) /\ commands # <<>> /\ commands' = Tail(commands)
      /\ UNCHANGED <<pair, main, buffers>>
      /\ nvm \in Images
  BY DEF CommandDone, Typed, TypeOK
<1>2. /\ Len(commands') = Len(commands) - 1 /\ 1 \in 1 .. Len(commands)
      /\ c \in Commands /\ Head(commands) = c
      /\ \A i \in 1 .. Len(commands') :
            i + 1 \in 1 .. Len(commands) /\ commands'[i] = commands[i + 1]
  BY <1>1, TailQueue, Zenon
<1>3. nvm' = Applied(c)
  BY <1>2 DEF CommandDone
<1>4. c.block \in Halves => ~c.clear /\ ~Booting /\ pair # 0
                            /\ buffers.priv = pair /\ buffers.pub = pair
  BY <1>2, BootHalves DEF Typed, QueueOK, PairOK, Halves
<1>5. CASE c.block = "priv"
  <2>1. nvm' = [nvm EXCEPT !.priv = pair]
    BY <1>3, <1>4, <1>5 DEF Applied, Halves
  <2>2. nvm'.priv = pair /\ nvm'.pub = nvm.pub
    BY <1>1, <2>1 DEF Images
  <2>3. nvm.pub \in {0, pair}
    BY <1>4, <1>5 DEF PairOK, Halves
  <2> QED  BY <1>1, <1>2, <1>4, <2>2, <2>3 DEF PairOK, Booting
<1>6. CASE c.block = "pub"
  <2>1. nvm' = [nvm EXCEPT !.pub = pair]
    BY <1>3, <1>4, <1>6 DEF Applied, Halves
  <2>2. nvm'.priv = nvm.priv /\ nvm'.pub = pair
    BY <1>1, <2>1 DEF Images
  <2>3. nvm.priv = pair
    <3>1. nvm.priv = pair \/ \E j \in 1 .. 1 - 1 : commands[j].block = "priv"
      BY <1>2, <1>6 DEF PairOK, Halves
    <3> QED  BY <3>1
  <2> QED  BY <1>1, <1>2, <1>4, <2>2, <2>3 DEF PairOK, Booting
<1>7. CASE c.block \notin Halves
  <2>1. nvm'.priv = nvm.priv /\ nvm'.pub = nvm.pub
    <3>1. c.block \in {"config", "flags", "lock"}
      BY <1>2, <1>7 DEF Commands, Halves
    <3> QED  BY <1>1, <1>3, <3>1 DEF Applied, Images
  <2>2. ASSUME NEW i \in 1 .. Len(commands'), commands'[i].block = "pub"
        PROVE  nvm.priv = pair \/ \E j \in 1 .. i - 1 : commands'[j].block = "priv"
    <3>1. SUFFICES ASSUME nvm.priv # pair
                   PROVE  \E j \in 1 .. i - 1 : commands'[j].block = "priv"
      OBVIOUS
    <3>2. PICK k \in 1 .. i : commands[k].block = "priv"
      <4>1. i + 1 \in 1 .. Len(commands) /\ commands[i + 1].block = "pub"
        BY <1>2, <2>2
      <4>2. \E k \in 1 .. (i + 1) - 1 : commands[k].block = "priv"
        BY <3>1, <4>1 DEF PairOK, Halves
      <4>3. (i + 1) - 1 = i  OBVIOUS
      <4> QED  BY <4>2, <4>3
    <3>3. k # 1  BY <1>7, <3>2 DEF Halves
    <3>4. k - 1 \in 1 .. i - 1 /\ k - 1 \in 1 .. Len(commands')
      BY <2>2, <3>2, <3>3
    <3>5. commands'[k - 1] = commands[(k - 1) + 1]  BY <1>2, <3>4
    <3>6. (k - 1) + 1 = k  BY <3>2
    <3> QED  BY <3>2, <3>4, <3>5, <3>6
  <2>3. ASSUME NEW i \in 1 .. Len(commands'), commands'[i].block \in Halves
        PROVE  pair # 0 /\ buffers.priv = pair /\ buffers.pub = pair
    <3>1. i + 1 \in 1 .. Len(commands) /\ commands[i + 1].block \in Halves
      BY <1>2, <2>3
    <3> QED  BY <3>1 DEF PairOK
  <2>4. nvm.pub # 0 => nvm.priv = nvm.pub  BY DEF PairOK
  <2>5. ~Booting => nvm.pub \in {0, pair}  BY DEF PairOK
  <2> QED  BY <1>1, <2>1, <2>2, <2>3, <2>4, <2>5 DEF PairOK, Booting
<1> QED  BY <1>5, <1>6, <1>7 DEF Halves

LEMMA UnpoweredPair == ASSUME PairOK, Unpowered PROVE PairOK'
<1>1. /\ nvm' = nvm /\ main'.at = "boot" /\ Len(commands') = 0
  BY MainTypes DEF Unpowered, Positions
<1> QED  BY <1>1 DEF PairOK, Booting

LEMMA BootPair == ASSUME Typed, PairOK, BootLockKey \/ BootWait \/ BootLoad PROVE PairOK'
<1>1. CASE BootLockKey
  <2>1. Booting' /\ UNCHANGED <<pair, nvm>>
    BY <1>1, MainTypes DEF BootLockKey, Booting, Positions
  <2>2. buffers'.priv = buffers.priv /\ buffers'.pub = buffers.pub
    BY <1>1 DEF BootLockKey, Typed, TypeOK, Images
  <2>3. Extends({"lock"})
    <3>1. CASE nvm.lock = 0
      <4>1. /\ commands' = Append(commands, LockCommand)
            /\ Len(commands) + 1 <= QueueCap
        BY <1>1, <3>1, QueueCapAssumption DEF BootLockKey, Typed, TypeOK, QueueOK
      <4>2. ~LockCommand.clear /\ LockCommand.block = "lock"
        BY DEF LockCommand, Update, Block
      <4> QED  BY <4>1, <4>2, AppendExtends, CommandTypes DEF Room, Typed, TypeOK
    <3>2. CASE nvm.lock # 0
      BY <1>1, <3>2, KeptExtends DEF BootLockKey, Typed, TypeOK
    <3> QED  BY <3>1, <3>2
  <2> QED  BY <2>1, <2>2, <2>3, QuietPair DEF Halves
<1>2. CASE BootWait
  <2>1. Booting' /\ UNCHANGED <<pair, nvm, buffers, commands>>
    BY <1>2, MainTypes DEF BootWait, Booting, Positions
  <2> QED  BY <2>1, KeptExtends, QuietPair DEF Typed, TypeOK, Halves
<1>3. CASE BootLoad
  <2>1. commands' = <<>> /\ nvm' = nvm
        /\ pair' = IF nvm.priv # 0 /\ nvm.pub # 0 THEN nvm.pub ELSE 0
    BY <1>3 DEF BootLoad, Typed, QueueOK
  <2>2. nvm.pub # 0 => nvm.priv = nvm.pub  BY DEF PairOK
  <2>3. nvm.pub \in {0, pair'}  BY <2>1, <2>2
  <2>4. Len(commands') = 0  BY <2>1
  <2> QED  BY <2>1, <2>2, <2>3, <2>4 DEF PairOK
<1> QED  BY <1>1, <1>2, <1>3

LEMMA StorePair ==
    ASSUME Typed, PairOK, StoreStart \/ StoreSkip \/ StoreCopy \/ StorePut PROVE PairOK'
<1>1. ~Booting /\ UNCHANGED <<pair, nvm>>
  BY DEF StoreStart, StoreSkip, StoreCopy, StorePut, Running, Booting
<1>2. CASE StorePut
  <2>1. main.slot \in Slots /\ main.config \in Configs /\ commands \in Seq(Commands)
    BY DEF Typed, TypeOK, MainStates
  <2> DEFINE c == SlotCommand(main.slot, main.config)
  <2>2. c \in Commands /\ c.block = "config"
    BY <2>1, CommandTypes DEF SlotCommand, Update, Clear, SlotBlock
  <2>3. commands' = IF Room(1) THEN Append(commands, c) ELSE commands
    BY <1>2 DEF StorePut
  <2> HIDE DEF c
  <2>4. Extends({"config"})
    BY <2>1, <2>2, <2>3, AppendExtends
  <2>5. buffers'.priv = buffers.priv /\ buffers'.pub = buffers.pub
    BY <1>2 DEF StorePut, Buffered, Typed, TypeOK, Images
  <2> QED  BY <1>1, <2>4, <2>5, QuietPair DEF Halves
<1>3. CASE StoreStart \/ StoreSkip \/ StoreCopy
  <2>1. UNCHANGED <<buffers, commands>>
    BY <1>3 DEF StoreStart, StoreSkip, StoreCopy
  <2> QED  BY <1>1, <2>1, KeptExtends, QuietPair DEF Typed, TypeOK, Halves
<1> QED  BY <1>2, <1>3

LEMMA InterruptPair == ASSUME Typed, PairOK, Interrupt PROVE PairOK'
<1>1. UNCHANGED <<pair, nvm, main>>
  BY DEF Interrupt, Connect, ClientWrite, ClientInterval, ClientLockKey, Disconnect
<1>2. Booting => Booting'  BY <1>1 DEF Booting
<1>3. commands \in Seq(Commands)  BY DEF Typed, TypeOK
<1>4. CASE ClientLockKey
  <2>1. buffers'.priv = buffers.priv /\ buffers'.pub = buffers.pub
    BY <1>4 DEF ClientLockKey, Typed, TypeOK, Images
  <2>2. ~LockCommand.clear /\ LockCommand.block = "lock"
    BY DEF LockCommand, Update, Block
  <2>3. Extends({"lock"})
    BY <1>3, <1>4, <2>2, AppendExtends, CommandTypes DEF ClientLockKey
  <2> QED  BY <1>1, <1>2, <2>1, <2>3, QuietPair DEF Halves
<1>5. CASE Disconnect
  <2>1. buffers'.priv = buffers.priv /\ buffers'.pub = buffers.pub
    BY <1>5 DEF Disconnect, Typed, TypeOK, Images
  <2>2. Extends({"config", "flags"})
    BY <1>3, <1>5, SaveExtends DEF Disconnect
  <2> QED  BY <1>1, <1>2, <2>1, <2>2, QuietPair DEF Halves
<1>6. CASE ~ClientLockKey /\ ~Disconnect
  <2>1. UNCHANGED <<buffers, commands>>
    BY <1>6 DEF Interrupt, Connect, ClientWrite, ClientInterval
  <2> QED  BY <1>1, <1>2, <1>3, <2>1, KeptExtends, QuietPair DEF Halves
<1> QED  BY <1>4, <1>5, <1>6

LEMMA NextPair == ASSUME Typed, PairOK, [Next]_vars PROVE PairOK'
<1>1. CASE PowerLoss \/ ErrorReset
  BY <1>1, UnpoweredPair DEF PowerLoss, ErrorReset
<1>2. CASE UNCHANGED vars
  BY <1>2 DEF vars, PairOK, Booting
<1> QED
  BY <1>1, <1>2, InterruptPair, BootPair, StorePair, ExchangeKeepsPair, DonePair
  DEF Next, MainLoop

LEMMA AlwaysPaired == Spec => []PairOK
<1>1. Init => PairOK
  <2>1. ASSUME Init PROVE Len(commands) = 0 /\ Booting /\ nvm \in InitialFlash
    BY <2>1, MainTypes DEF Init, Booting, Positions
  <2> QED  BY <2>1, InitialPairAssumption DEF PairOK
<1>2. Typed /\ PairOK /\ [Next]_vars => PairOK'
  BY NextPair
<1> QED  BY <1>1, <1>2, AlwaysTyped, PTL DEF Spec

\* Power may fail between the commands for the halves of the ECDH pair, and a
\* beacon that then finds one half generates a new pair: flash never holds halves
\* of two pairs (eddystone_security_ecdh_pair_preserve, eddystone_security_init).
THEOREM PairsMatch == Spec => []StoredPairMatches
<1>1. PairOK => StoredPairMatches  BY DEF PairOK, StoredPairMatches
<1> QED  BY <1>1, AlwaysPaired, PTL

-----------------------------------------------------------------------------
(* What a loss of power brings back *)

\* What a slot was at the last disconnect or at a daily store after it.
Latest(s) == stored[s] \cup {saved[s]}

\* Command i is for the block of s; what it makes of the block if the buffer
\* stays as it is.
SlotWrite(i, s) == commands[i].block = "config" /\ commands[i].slot = s
WriteValue(i, s) == IF commands[i].clear THEN NoConfig ELSE buffers.config[s]

FlagsWait == \E i \in 1 .. Len(commands) : commands[i].block = "flags"

\* The block of s, and the flags, when all commands are done.
EndsAs(s, config) ==
    \/ config = nvm.config[s] /\ \A i \in 1 .. Len(commands) : ~SlotWrite(i, s)
    \/ \E i \in 1 .. Len(commands) :
          /\ SlotWrite(i, s) /\ config = WriteValue(i, s)
          /\ \A j \in i + 1 .. Len(commands) : ~SlotWrite(j, s)
EndsFactory == nvm.flags.factory /\ ~FlagsWait
EndsEmpty(s) == IF FlagsWait THEN buffers.flags.empty[s] ELSE nvm.flags.empty[s]

\* Every save since flash was idle counts those before the next one, too.
GhostsOK(s) == saved[s] \in since[s] /\ stored[s] \subseteq since[s]
\* A command for s writes what s was at a save, flags are behind a command for s.
PendingOK(s) ==
    \A i \in 1 .. Len(commands) :
        /\ SlotWrite(i, s) => WriteValue(i, s) \in since[s]
        /\ commands[i].block = "flags" =>
              /\ ~buffers.flags.factory
              /\ buffers.flags.empty[s] => NoConfig \in since[s]
              /\ nvm.config[s] \in since[s] \/ \E j \in 1 .. i - 1 : SlotWrite(j, s)
RestoredOK(s) == Restored(s) \in since[s]
\* With all commands done, s would come back as it was saved last.
EndOK(s) ==
    IF EndsFactory THEN (IF s = 0 THEN DefaultConfig ELSE NoConfig) \in Latest(s)
    ELSE IF EndsEmpty(s) THEN NoConfig \in Latest(s)
    ELSE \A config : EndsAs(s, config) => config \in Latest(s)

SaveOK ==
    /\ main.at = "put" => main.config \in stored[main.slot]
    /\ \A s \in Slots : /\ GhostsOK(s) /\ PendingOK(s) /\ RestoredOK(s)
                        /\ ~failed => EndOK(s)

\* Commands for the other blocks change nothing of this.
SlotBlocks == {"config", "flags"}

LEMMA OtherCommands ==
    ASSUME Typed, NEW B, Extends(B), B \cap SlotBlocks = {}, NEW s \in Slots
    PROVE  /\ Len(commands) \in Nat /\ Len(commands') \in Nat /\ Len(commands) <= Len(commands')
           /\ \A i \in 1 .. Len(commands) : commands'[i] = commands[i]
           /\ \A i \in 1 .. Len(commands') :
                 commands'[i].block \in SlotBlocks => i \in 1 .. Len(commands)
<1>1. \A i \in 1 .. Len(commands') :
         i \in 1 .. Len(commands) \/ i \in Len(commands) + 1 .. Len(commands')
  BY DEF Extends, Typed, TypeOK
<1>2. /\ Len(commands) \in Nat /\ Len(commands') \in Nat
      /\ Len(commands) <= Len(commands')
  BY DEF Extends, Typed, TypeOK
<1>3. \A i \in 1 .. Len(commands) : commands'[i] = commands[i]
  BY DEF Extends
<1>4. \A i \in Len(commands) + 1 .. Len(commands') : commands'[i].block \in B
  BY DEF Extends
<1>5. ASSUME NEW i \in 1 .. Len(commands'), commands'[i].block \in SlotBlocks
      PROVE  i \in 1 .. Len(commands)
  <2>1. commands'[i].block \notin B  BY <1>5
  <2> QED  BY <2>1, <1>1, <1>4
<1> QED  BY <1>2, <1>3, <1>5

LEMMA OtherEnds ==
    ASSUME Typed, NEW B, Extends(B), B \cap SlotBlocks = {}, NEW s \in Slots,
           nvm' = nvm, buffers'.config = buffers.config, buffers'.flags = buffers.flags
    PROVE  /\ FlagsWait' <=> FlagsWait
           /\ EndsFactory' <=> EndsFactory
           /\ EndsEmpty(s)' <=> EndsEmpty(s)
           /\ \A config : EndsAs(s, config)' => EndsAs(s, config)
<1>1. /\ Len(commands) \in Nat /\ Len(commands') \in Nat /\ Len(commands) <= Len(commands')
      /\ \A i \in 1 .. Len(commands) : commands'[i] = commands[i]
      /\ \A i \in 1 .. Len(commands') :
            commands'[i].block \in SlotBlocks => i \in 1 .. Len(commands)
  BY OtherCommands
<1>2. \A i \in 1 .. Len(commands) : i \in 1 .. Len(commands')
  BY <1>1
<1>3. FlagsWait' <=> FlagsWait
  BY <1>1, <1>2 DEF FlagsWait, SlotBlocks
<1>4. ASSUME NEW config, EndsAs(s, config)' PROVE EndsAs(s, config)
  <2>1. CASE config = nvm'.config[s] /\ \A i \in 1 .. Len(commands') : ~SlotWrite(i, s)'
    BY <1>1, <1>2, <2>1 DEF EndsAs, SlotWrite
  <2>2. ASSUME NEW i \in 1 .. Len(commands'), SlotWrite(i, s)', config = WriteValue(i, s)',
               \A j \in i + 1 .. Len(commands') : ~SlotWrite(j, s)'
        PROVE  EndsAs(s, config)
    <3>1. i \in 1 .. Len(commands) /\ commands'[i] = commands[i]
      BY <1>1, <2>2 DEF SlotWrite, SlotBlocks
    <3>2. SlotWrite(i, s) /\ config = WriteValue(i, s)
      BY <2>2, <3>1 DEF SlotWrite, WriteValue
    <3>3. ASSUME NEW j \in i + 1 .. Len(commands) PROVE ~SlotWrite(j, s)
      <4>1. j \in 1 .. Len(commands) /\ j \in i + 1 .. Len(commands')
        BY <1>1, <3>1, <3>3
      <4> QED  BY <1>1, <2>2, <4>1 DEF SlotWrite
    <3> QED  BY <3>1, <3>2, <3>3 DEF EndsAs
  <2> QED  BY <1>4, <2>1, <2>2 DEF EndsAs
<1> QED  BY <1>3, <1>4 DEF EndsFactory, EndsEmpty

\* What a slot was at a save stays a save.
Remembers(s) ==
    /\ since[s] \subseteq since'[s] /\ GhostsOK(s)'
    /\ Latest(s) \subseteq Latest(s)'

LEMMA OtherSaves ==
    ASSUME Typed, NEW B, Extends(B), B \cap SlotBlocks = {}, NEW s \in Slots,
           nvm' = nvm, buffers'.config = buffers.config, buffers'.flags = buffers.flags,
           Remembers(s), PendingOK(s), RestoredOK(s)
    PROVE  /\ PendingOK(s)' /\ RestoredOK(s)'
           /\ EndOK(s) => EndOK(s)'
<1>1. /\ Len(commands) \in Nat /\ Len(commands') \in Nat /\ Len(commands) <= Len(commands')
      /\ \A i \in 1 .. Len(commands) : commands'[i] = commands[i]
      /\ \A i \in 1 .. Len(commands') :
            commands'[i].block \in SlotBlocks => i \in 1 .. Len(commands)
  BY OtherCommands
<1>2. RestoredOK(s)'
  <2>1. Restored(s)' = Restored(s)  BY DEF Restored
  <2> QED  BY <2>1 DEF RestoredOK, Remembers
<1>3. ASSUME NEW i \in 1 .. Len(commands'), SlotWrite(i, s)'
      PROVE  WriteValue(i, s)' \in since'[s]
  <2>1. i \in 1 .. Len(commands) /\ commands'[i] = commands[i] /\ SlotWrite(i, s)
    BY <1>1, <1>3 DEF SlotWrite, SlotBlocks
  <2>2. WriteValue(i, s)' = WriteValue(i, s)  BY <2>1 DEF WriteValue
  <2> QED  BY <2>1, <2>2 DEF PendingOK, Remembers
<1>4. ASSUME NEW i \in 1 .. Len(commands'), commands'[i].block = "flags"
      PROVE  /\ ~buffers'.flags.factory
             /\ buffers'.flags.empty[s] => NoConfig \in since'[s]
             /\ nvm'.config[s] \in since'[s] \/ \E j \in 1 .. i - 1 : SlotWrite(j, s)'
  <2>1. i \in 1 .. Len(commands) /\ commands[i].block = "flags"
    BY <1>1, <1>4 DEF SlotBlocks
  <2>2. ASSUME NEW j \in 1 .. i - 1, SlotWrite(j, s) PROVE SlotWrite(j, s)'
    BY <1>1, <2>1, <2>2 DEF SlotWrite
  <2> QED  BY <2>1, <2>2 DEF PendingOK, Remembers
<1>5. ASSUME EndOK(s) PROVE EndOK(s)'
  <2>1. /\ EndsFactory' <=> EndsFactory
        /\ EndsEmpty(s)' <=> EndsEmpty(s)
        /\ \A config : EndsAs(s, config)' => EndsAs(s, config)
    BY OtherEnds
  <2> QED  BY <1>5, <2>1 DEF EndOK, Remembers
<1> QED  BY <1>2, <1>3, <1>4, <1>5 DEF PendingOK

\* A step that leaves the commands of the slots and their data alone.
LEMMA OtherOK ==
    ASSUME Typed, SaveOK, NEW B, Extends(B), B \cap SlotBlocks = {},
           nvm' = nvm, buffers'.config = buffers.config, buffers'.flags = buffers.flags,
           \A s \in Slots : Remembers(s), ~failed' => ~failed,
           main'.at = "put" => main'.config \in stored'[main'.slot]
    PROVE  SaveOK'
<1>1. ASSUME NEW s \in Slots
      PROVE  /\ GhostsOK(s)' /\ PendingOK(s)' /\ RestoredOK(s)'
             /\ ~failed' => EndOK(s)'
  BY OtherSaves DEF SaveOK, Remembers
<1> QED  BY <1>1 DEF SaveOK

LEMMA KeptRemembers ==
    ASSUME SaveOK, UNCHANGED <<saved, stored, since>>, NEW s \in Slots PROVE Remembers(s)
BY DEF SaveOK, Remembers, GhostsOK, Latest

LEMMA BootOK == ASSUME Typed, SaveOK, BootLockKey \/ BootWait \/ BootLoad PROVE SaveOK'
<1>1. /\ nvm' = nvm /\ failed' = failed /\ commands \in Seq(Commands)
      /\ \A s \in Slots : Remembers(s)
  BY KeptRemembers DEF BootLockKey, BootWait, BootLoad, Typed, TypeOK, kept
<1>2. main'.at # "put"
  BY MainTypes DEF BootLockKey, BootWait, BootLoad, Positions
<1>3. CASE BootLockKey
  <2>1. buffers'.config = buffers.config /\ buffers'.flags = buffers.flags
    BY <1>3 DEF BootLockKey, Typed, TypeOK, Images
  <2>2. Extends({"lock"})
    <3>1. CASE nvm.lock = 0
      <4>1. /\ commands' = Append(commands, LockCommand)
            /\ Len(commands) + 1 <= QueueCap
        BY <1>3, <3>1, QueueCapAssumption DEF BootLockKey, Typed, TypeOK, QueueOK
      <4>2. ~LockCommand.clear /\ LockCommand.block = "lock"
        BY DEF LockCommand, Update, Block
      <4> QED  BY <4>1, <4>2, AppendExtends, CommandTypes DEF Room, Typed, TypeOK
    <3>2. CASE nvm.lock # 0
      BY <1>3, <3>2, KeptExtends DEF BootLockKey, Typed, TypeOK
    <3> QED  BY <3>1, <3>2
  <2> QED  BY <1>1, <1>2, <2>1, <2>2, OtherOK DEF SlotBlocks
<1>4. CASE BootWait \/ BootLoad
  <2>1. UNCHANGED <<buffers, commands>>
    BY <1>4 DEF BootWait, BootLoad
  <2>2. Extends({})  BY <1>1, <1>2, <2>1, KeptExtends
  <2> QED  BY <1>1, <1>2, <2>1, <2>2, OtherOK DEF SlotBlocks
<1> QED  BY <1>3, <1>4

LEMMA ClientOK ==
    ASSUME Typed, SaveOK,
           \/ Connect \/ \E s \in Slots : \E frame, eid : ClientWrite(s, frame, eid)
           \/ ClientInterval \/ ClientLockKey
    PROVE  SaveOK'
<1>1. /\ nvm' = nvm /\ failed' = failed /\ UNCHANGED <<saved, stored, since>> /\ main' = main
  BY DEF Connect, ClientWrite, ClientInterval, ClientLockKey, kept
<1>2. /\ commands \in Seq(Commands) /\ \A s \in Slots : Remembers(s)
      /\ main'.at = "put" => main'.config \in stored'[main'.slot]
  BY <1>1, KeptRemembers DEF Typed, TypeOK, SaveOK
<1>3. CASE ClientLockKey
  <2>1. buffers'.config = buffers.config /\ buffers'.flags = buffers.flags
    BY <1>3 DEF ClientLockKey, Typed, TypeOK, Images
  <2>2. ~LockCommand.clear /\ LockCommand.block = "lock"
    BY DEF LockCommand, Update, Block
  <2>3. Extends({"lock"})
    BY <1>2, <1>3, <2>2, AppendExtends, CommandTypes DEF ClientLockKey
  <2> QED  BY <1>1, <1>2, <2>1, <2>3, OtherOK DEF SlotBlocks
<1>4. CASE ~ClientLockKey
  <2>1. UNCHANGED <<buffers, commands>>
    BY <1>4 DEF Connect, ClientWrite, ClientInterval
  <2>2. Extends({})  BY <1>1, <1>2, <2>1, KeptExtends
  <2> QED  BY <1>1, <1>2, <2>1, <2>2, OtherOK DEF SlotBlocks
<1> QED  BY <1>3, <1>4

LEMMA ExchangeOK == ASSUME Typed, SaveOK, NEW s \in Slots, KeyExchange(s) PROVE SaveOK'
<1>1. /\ nvm' = nvm /\ UNCHANGED kept /\ main' = main /\ ~failed
      /\ commands \in Seq(Commands)
      /\ buffers'.config = buffers.config /\ buffers'.flags = buffers.flags
      /\ commands' = IF Room(2) THEN commands \o PairCommands ELSE commands
  BY DEF KeyExchange, Running, Typed, TypeOK, Images
<1>2. /\ \A r \in Slots : Remembers(r)
      /\ main'.at = "put" => main'.config \in stored'[main'.slot]
  BY <1>1, KeptRemembers DEF SaveOK, kept
<1>3. Extends({"priv", "pub"})
  BY <1>1, PairExtends
<1> QED  BY <1>1, <1>2, <1>3, OtherOK DEF SlotBlocks

\* StoreCopy counts the copy as a save, and StoreStart and StoreSkip only move.
LEMMA StoreOK ==
    ASSUME Typed, SaveOK, StoreStart \/ StoreSkip \/ StoreCopy PROVE SaveOK'
<1>1. /\ nvm' = nvm /\ UNCHANGED <<buffers, commands, failed>> /\ commands \in Seq(Commands)
  BY DEF StoreStart, StoreSkip, StoreCopy, Typed, TypeOK
<1>2. CASE StoreStart \/ StoreSkip
  <2>1. main'.at # "put"
    BY <1>2, MainTypes, NextStoreType DEF StoreStart, StoreSkip, Positions
  <2>2. \A s \in Slots : Remembers(s)
    BY <1>2, KeptRemembers DEF StoreStart, StoreSkip, kept
  <2>3. Extends({})  BY <1>1, KeptExtends
  <2> QED  BY <1>1, <2>1, <2>2, <2>3, OtherOK DEF SlotBlocks
<1>3. CASE StoreCopy
  <2>1. PICK m \in Slots : m = main.slot  BY DEF Typed, TypeOK, MainStates
  <2>2. /\ main' = [main EXCEPT !.at = "put", !.config = SlotImage(m)]
        /\ saved' = saved
        /\ stored' = [stored EXCEPT ![m] = @ \cup {SlotImage(m)}]
        /\ since' = [since EXCEPT ![m] = @ \cup {SlotImage(m)}]
        /\ stored \in [Slots -> SUBSET Configs] /\ since \in [Slots -> SUBSET Configs]
    BY <1>3, <2>1 DEF StoreCopy, Storing, Typed, TypeOK
  <2>3. ASSUME NEW s \in Slots PROVE Remembers(s)
    <3>1. GhostsOK(s)  BY DEF SaveOK
    <3> QED  BY <2>2, <3>1 DEF Remembers, GhostsOK, Latest
  <2>4. main'.config \in stored'[main'.slot]
    BY <2>1, <2>2 DEF Typed, TypeOK, MainStates
  <2>5. Extends({})  BY <1>1, KeptExtends
  <2> QED  BY <1>1, <2>3, <2>4, <2>5, OtherOK DEF SlotBlocks
<1> QED  BY <1>2, <1>3

LEMMA UnpoweredOK == ASSUME Unpowered PROVE SaveOK'
<1>1. /\ main'.at = "boot" /\ nvm' = nvm /\ Len(commands') = 0
      /\ saved' = [s \in Slots |-> Restored(s)] /\ stored' = [s \in Slots |-> {}]
      /\ since' = [s \in Slots |-> {Restored(s)}]
  BY MainTypes DEF Unpowered, Positions
<1>2. ASSUME NEW s \in Slots
      PROVE  /\ GhostsOK(s)' /\ PendingOK(s)' /\ RestoredOK(s)' /\ EndOK(s)'
  <2>1. Latest(s)' = {Restored(s)}  BY <1>1 DEF Latest
  <2>2. Restored(s)' = Restored(s)  BY <1>1 DEF Restored
  <2>3. GhostsOK(s)' /\ PendingOK(s)' /\ RestoredOK(s)'
    BY <1>1, <2>2 DEF GhostsOK, PendingOK, RestoredOK
  <2>4. ~FlagsWait' /\ \A config : EndsAs(s, config)' => config = nvm.config[s]
    BY <1>1 DEF FlagsWait, EndsAs
  <2>5. EndOK(s)'
    BY <1>1, <2>1, <2>4 DEF EndOK, EndsFactory, EndsEmpty, Restored
  <2> QED  BY <2>3, <2>5
<1> QED  BY <1>1, <1>2 DEF SaveOK

\* The command that a slot image ends in writes that image.
LEMMA CommandWrites ==
    ASSUME NEW s \in Slots, NEW config
    PROVE  LET c == SlotCommand(s, config)
           IN  c.block = "config" /\ c.slot = s /\ (c.clear <=> config = NoConfig)
BY DEF SlotCommand, Update, Clear, SlotBlock

\* StorePut writes what StoreCopy copied, which no disconnect has replaced.
LEMMA PutOK == ASSUME Typed, SaveOK, StorePut PROVE SaveOK'
<1>1. PICK m \in Slots : m = main.slot  BY DEF Typed, TypeOK, MainStates
<1>n. PICK n \in Nat : n = Len(commands)  BY DEF Typed, TypeOK
<1>v. PICK config \in Configs : config = main.config  BY DEF Typed, TypeOK, MainStates
<1>c. PICK c \in Commands : c = SlotCommand(m, config)  BY CommandTypes
<1>2. /\ commands \in Seq(Commands) /\ config \in stored[m]
      /\ commands' = IF Room(1) THEN Append(commands, c) ELSE commands
      /\ failed' = ~Room(1) /\ ~failed
      /\ buffers' = Buffered(buffers, m, config)
      /\ nvm' = nvm /\ UNCHANGED kept /\ main'.at # "put"
  BY <1>1, <1>v, <1>c, NextStoreType DEF StorePut, Running, Typed, TypeOK, SaveOK
<1>3. c.block = "config" /\ c.slot = m /\ (c.clear <=> config = NoConfig)
  BY <1>c, CommandWrites
<1>4. /\ buffers'.flags = buffers.flags
      /\ \A s \in Slots \ {m} : buffers'.config[s] = buffers.config[s]
      /\ config = NoConfig => buffers'.config[m] = buffers.config[m]
      /\ config # NoConfig => buffers'.config[m] = config
  BY <1>2 DEF Buffered, Typed, TypeOK, Images
<1>5. /\ Len(commands') \in {n, n + 1} /\ (Len(commands') = n <=> failed')
      /\ \A i \in 1 .. n : commands'[i] = commands[i]
      /\ Len(commands') = n + 1 => commands'[n + 1] = c
  <2>1. CASE Room(1)
    <3>1. /\ Len(Append(commands, c)) = n + 1
          /\ \A i \in 1 .. n : Append(commands, c)[i] = commands[i]
          /\ Append(commands, c)[n + 1] = c
      BY <1>2, <1>n, AppendQueue
    <3>2. commands' = Append(commands, c) /\ ~failed'
      BY <1>2, <2>1
    <3> QED  BY <3>1, <3>2
  <2>2. CASE ~Room(1)
    <3>1. commands' = commands /\ failed'  BY <1>2, <2>2
    <3> QED  BY <1>n, <3>1
  <2> QED  BY <2>1, <2>2
<1>6. \A i \in 1 .. Len(commands') : i \in 1 .. n \/ (i = n + 1 /\ commands'[i] = c)
  BY <1>2, <1>5
<1>7. \A i \in 1 .. n : i \in 1 .. Len(commands')
  BY <1>2, <1>5
<1>8. FlagsWait' <=> FlagsWait
  BY <1>n, <1>3, <1>5, <1>6, <1>7 DEF FlagsWait
<1>9. ASSUME NEW s \in Slots
      PROVE  GhostsOK(s)' /\ PendingOK(s)' /\ RestoredOK(s)' /\ (~failed' => EndOK(s)')
  <2>1. GhostsOK(s) /\ PendingOK(s) /\ RestoredOK(s) /\ EndOK(s)
    BY <1>2 DEF SaveOK
  <2>2. /\ since' = since /\ Latest(s)' = Latest(s) /\ Restored(s)' = Restored(s)
        /\ GhostsOK(s)'
    BY <1>2, <2>1 DEF kept, Latest, Restored, GhostsOK
  <2>3. s = m => config \in Latest(s) /\ config \in since[s]
    BY <1>2, <2>1 DEF Latest, GhostsOK
  <2>4. ASSUME NEW i \in 1 .. Len(commands'), SlotWrite(i, s)'
        PROVE  WriteValue(i, s)' \in since[s]
    <3>1. CASE i \in 1 .. n
      <4>1. SlotWrite(i, s) /\ commands'[i] = commands[i]
        BY <1>5, <2>4, <3>1 DEF SlotWrite
      <4>2. WriteValue(i, s) \in since[s]  BY <1>n, <2>1, <3>1, <4>1 DEF PendingOK
      <4> QED  BY <1>4, <2>3, <4>1, <4>2 DEF WriteValue
    <3>2. CASE i = n + 1 /\ commands'[i] = c
      <4>1. s = m  BY <1>3, <2>4, <3>2 DEF SlotWrite
      <4> QED  BY <1>3, <1>4, <2>3, <3>2, <4>1 DEF WriteValue
    <3> QED  BY <1>6, <3>1, <3>2
  <2>5. ASSUME NEW i \in 1 .. Len(commands'), commands'[i].block = "flags"
        PROVE  /\ ~buffers'.flags.factory
               /\ buffers'.flags.empty[s] => NoConfig \in since[s]
               /\ nvm.config[s] \in since[s] \/ \E j \in 1 .. i - 1 : SlotWrite(j, s)'
    <3>1. i \in 1 .. n /\ commands[i].block = "flags"
      BY <1>3, <1>5, <1>6, <2>5
    <3>2. ASSUME NEW j \in 1 .. i - 1, SlotWrite(j, s) PROVE SlotWrite(j, s)'
      <4>1. j \in 1 .. n  BY <1>2, <3>1, <3>2
      <4> QED  BY <1>5, <3>2, <4>1 DEF SlotWrite
    <3> QED  BY <1>n, <1>4, <2>1, <3>1, <3>2 DEF PendingOK
  <2>6. PendingOK(s)'
    BY <1>2, <2>2, <2>4, <2>5 DEF PendingOK
  <2>7. (EndsFactory' <=> EndsFactory) /\ (EndsEmpty(s)' <=> EndsEmpty(s))
    BY <1>2, <1>4, <1>8 DEF EndsFactory, EndsEmpty
  <2>8. ASSUME ~failed', NEW v, EndsAs(s, v)'
        PROVE  (s = m /\ v = config) \/ (s # m /\ EndsAs(s, v))
    <3>1. Len(commands') = n + 1 /\ n + 1 \in 1 .. Len(commands') /\ commands'[n + 1] = c
      BY <1>2, <1>5, <2>8
    <3>2. CASE s = m
      <4>1. SlotWrite(n + 1, s)'  BY <1>3, <3>1, <3>2 DEF SlotWrite
      <4>2. PICK i \in 1 .. Len(commands') :
                 /\ SlotWrite(i, s)' /\ v = WriteValue(i, s)'
                 /\ \A j \in i + 1 .. Len(commands') : ~SlotWrite(j, s)'
        BY <2>8, <3>1, <4>1 DEF EndsAs
      <4>3. i = n + 1
        <5>1. n + 1 \notin i + 1 .. Len(commands')  BY <4>1, <4>2
        <5> QED  BY <1>2, <3>1, <4>2, <5>1
      <4>4. v = config  BY <1>3, <1>4, <3>1, <3>2, <4>2, <4>3 DEF WriteValue
      <4> QED  BY <3>2, <4>4
    <3>3. CASE s # m
      <4>1. ~SlotWrite(n + 1, s)'  BY <1>3, <3>1, <3>3 DEF SlotWrite
      <4>2. ASSUME v = nvm'.config[s], \A i \in 1 .. Len(commands') : ~SlotWrite(i, s)'
            PROVE  EndsAs(s, v)
        <5>1. \A i \in 1 .. n : ~SlotWrite(i, s)
          BY <1>5, <1>7, <4>2 DEF SlotWrite
        <5> QED  BY <1>2, <1>n, <4>2, <5>1 DEF EndsAs
      <4>3. ASSUME NEW i \in 1 .. Len(commands'), SlotWrite(i, s)', v = WriteValue(i, s)',
                   \A j \in i + 1 .. Len(commands') : ~SlotWrite(j, s)'
            PROVE  EndsAs(s, v)
        <5>1. i \in 1 .. n /\ commands'[i] = commands[i]
          BY <1>5, <1>6, <4>1, <4>3
        <5>2. SlotWrite(i, s) /\ v = WriteValue(i, s)
          BY <1>4, <3>3, <4>3, <5>1 DEF SlotWrite, WriteValue
        <5>3. ASSUME NEW j \in i + 1 .. n PROVE ~SlotWrite(j, s)
          <6>1. j \in 1 .. n /\ j \in i + 1 .. Len(commands')
            BY <1>2, <3>1, <5>1, <5>3
          <6> QED  BY <1>5, <4>3, <6>1 DEF SlotWrite
        <5> QED  BY <1>n, <5>1, <5>2, <5>3 DEF EndsAs
      <4>4. EndsAs(s, v)  BY <2>8, <4>2, <4>3, Zenon DEF EndsAs
      <4> QED  BY <3>3, <4>4
    <3> QED  BY <3>2, <3>3
  <2>9. ~failed' => EndOK(s)'
    BY <2>1, <2>2, <2>3, <2>7, <2>8 DEF EndOK
  <2> QED  BY <2>1, <2>2, <2>6, <2>9 DEF RestoredOK
<1> QED  BY <1>2, <1>9 DEF SaveOK

\* A disconnect takes the slots as they are: what waited for a buffer writes that.
LEMMA DisconnectSaves ==
    ASSUME Typed, Disconnect, NEW s \in Slots
    PROVE  /\ SlotImage(s) \in since'[s] /\ since[s] \subseteq since'[s]
           /\ Latest(s)' = {SlotImage(s)} /\ GhostsOK(s)'
           /\ buffers'.config[s] \in {SlotImage(s), buffers.config[s]}
           /\ IsConfigured(s) => buffers'.config[s] = SlotImage(s) /\ SlotImage(s) # NoConfig
           /\ ~IsConfigured(s) => SlotImage(s) = NoConfig
           /\ ~buffers'.flags.factory /\ buffers'.flags.empty[s] = ~IsConfigured(s)
<1>1. /\ saved'[s] = SlotImage(s) /\ stored'[s] = {}
      /\ since'[s] = since[s] \cup {SlotImage(s)}
  BY DEF Disconnect, Saving, Typed, TypeOK
<1>2. buffers'.config = SlotBuffers /\ buffers'.flags = StoredFlags
  BY DEF Disconnect, Typed, TypeOK, Images
<1>3. SlotImage(s) = IF IsConfigured(s) THEN slots[s] ELSE NoConfig
  BY DEF SlotImage
<1>4. IsConfigured(s) => slots[s] # NoConfig
  BY DEF IsConfigured, NoConfig
<1>5. buffers'.config[s] = IF IsConfigured(s) THEN slots[s] ELSE buffers.config[s]
  BY <1>2 DEF SlotBuffers
<1>6. ~buffers'.flags.factory /\ buffers'.flags.empty[s] = ~IsConfigured(s)
  BY <1>2 DEF StoredFlags
<1> QED  BY <1>1, <1>3, <1>4, <1>5, <1>6 DEF Latest, GhostsOK

\* What the queue is after a disconnect.
LEMMA DisconnectQueue ==
    ASSUME Typed, Disconnect
    PROVE  /\ failed' => commands' = commands
           /\ ~failed' =>
                 /\ Len(commands') = Len(commands) + NumSlots + 1
                 /\ \A i \in 1 .. Len(commands) : commands'[i] = commands[i]
                 /\ \A s \in Slots :
                       commands'[Len(commands) + s + 1] = SlotCommand(s, SlotImage(s))
                 /\ commands'[Len(commands) + NumSlots + 1] = FlagsCommand
<1>1. CASE Room(NumSlots + 1)
  <2>1. ~failed' /\ commands' = commands \o SlotCommands \o <<FlagsCommand>>
    BY <1>1 DEF Disconnect
  <2>2. commands \in Seq(Commands)  BY DEF Typed, TypeOK
  <2> QED  BY <1>1, <2>1, <2>2, SaveQueue, Zenon
<1>2. CASE ~Room(NumSlots + 1)
  BY <1>2 DEF Disconnect
<1> QED  BY <1>1, <1>2

LEMMA DisconnectOK ==
    ASSUME Typed, SaveOK, Disconnect, main.at # "put" PROVE SaveOK'
<1>n. PICK n \in Nat : n = Len(commands)  BY DEF Typed, TypeOK
<1>1. nvm' = nvm /\ main'.at # "put" /\ ~failed
  BY DEF Disconnect, InterruptAllowed
<1>2. failed' => commands' = commands
  BY DisconnectQueue
<1>3. ~failed' => /\ Len(commands') = n + NumSlots + 1
                  /\ \A i \in 1 .. n : commands'[i] = commands[i]
                  /\ \A s \in Slots : commands'[n + s + 1] = SlotCommand(s, SlotImage(s))
                  /\ commands'[n + NumSlots + 1] = FlagsCommand
  BY <1>n, DisconnectQueue
<1>4. /\ \A i \in 1 .. n : i \in 1 .. Len(commands') /\ commands'[i] = commands[i]
      /\ failed' => Len(commands') = n
  BY <1>n, <1>2, <1>3, NumSlotsAssumption
<1>5. ASSUME NEW i \in 1 .. Len(commands')
      PROVE  \/ i \in 1 .. n
             \/ ~failed' /\ \E r \in Slots : i = n + r + 1
             \/ ~failed' /\ i = n + NumSlots + 1
  <2>1. CASE failed'
    BY <1>4, <2>1
  <2>2. CASE ~failed' /\ i \notin 1 .. n /\ i # n + NumSlots + 1
    <3>1. i - n - 1 \in Slots /\ i = n + (i - n - 1) + 1
      BY <1>3, <2>2, NumSlotsAssumption DEF Slots
    <3> QED  BY <2>2, <3>1
  <2> QED  BY <2>1, <2>2
<1>6. ASSUME NEW s \in Slots
      PROVE  GhostsOK(s)' /\ PendingOK(s)' /\ RestoredOK(s)' /\ (~failed' => EndOK(s)')
  <2>1. GhostsOK(s) /\ PendingOK(s) /\ RestoredOK(s)
    BY DEF SaveOK
  <2>2. /\ SlotImage(s) \in since'[s] /\ since[s] \subseteq since'[s]
        /\ Latest(s)' = {SlotImage(s)} /\ GhostsOK(s)'
        /\ buffers'.config[s] \in {SlotImage(s), buffers.config[s]}
        /\ IsConfigured(s) => buffers'.config[s] = SlotImage(s) /\ SlotImage(s) # NoConfig
        /\ ~IsConfigured(s) => SlotImage(s) = NoConfig
        /\ ~buffers'.flags.factory /\ buffers'.flags.empty[s] = ~IsConfigured(s)
    BY DisconnectSaves
  <2>3. Restored(s)' = Restored(s)  BY <1>1 DEF Restored
  <2>4. ASSUME NEW i \in 1 .. Len(commands'), i \notin 1 .. n, SlotWrite(i, s)'
        PROVE  WriteValue(i, s)' = SlotImage(s)
    <3>1. ~failed'  BY <1>5, <2>4
    <3>2. CASE i = n + NumSlots + 1
      BY <1>3, <2>4, <3>1, <3>2 DEF SlotWrite, FlagsCommand, Update, Block
    <3>3. ASSUME NEW r \in Slots, i = n + r + 1
          PROVE  WriteValue(i, s)' = SlotImage(s)
      <4>1. commands'[i] = SlotCommand(r, SlotImage(r))
        BY <1>3, <3>1, <3>3
      <4>2. r = s
        BY <2>4, <4>1, CommandWrites DEF SlotWrite
      <4>3. commands'[i].clear <=> SlotImage(s) = NoConfig
        BY <4>1, <4>2, CommandWrites
      <4> QED  BY <2>2, <4>3 DEF WriteValue
    <3> QED  BY <1>5, <2>4, <3>2, <3>3
  <2>5. ASSUME NEW i \in 1 .. Len(commands'), SlotWrite(i, s)'
        PROVE  WriteValue(i, s)' \in since'[s]
    <3>1. CASE i \in 1 .. n
      <4>1. SlotWrite(i, s) /\ commands'[i] = commands[i]
        BY <1>4, <2>5, <3>1 DEF SlotWrite
      <4>2. WriteValue(i, s) \in since[s]  BY <1>n, <2>1, <3>1, <4>1 DEF PendingOK
      <4> QED  BY <2>2, <4>1, <4>2 DEF WriteValue
    <3>2. CASE i \notin 1 .. n
      BY <2>2, <2>4, <2>5, <3>2
    <3> QED  BY <3>1, <3>2
  <2>6. ASSUME NEW i \in 1 .. Len(commands'), commands'[i].block = "flags"
        PROVE  nvm.config[s] \in since'[s] \/ \E j \in 1 .. i - 1 : SlotWrite(j, s)'
    <3>1. CASE i \in 1 .. n
      <4>1. commands[i].block = "flags"  BY <1>4, <2>6, <3>1
      <4>2. ASSUME NEW j \in 1 .. i - 1, SlotWrite(j, s) PROVE SlotWrite(j, s)'
        <5>1. j \in 1 .. n  BY <3>1, <4>2
        <5> QED  BY <1>4, <4>2, <5>1 DEF SlotWrite
      <4> QED  BY <1>n, <2>1, <2>2, <3>1, <4>1, <4>2 DEF PendingOK
    <3>2. ASSUME ~failed', NEW r \in Slots, i = n + r + 1 PROVE FALSE
      BY <1>3, <2>6, <3>2, CommandWrites
    <3>3. CASE ~failed' /\ i = n + NumSlots + 1
      <4>1. n + s + 1 \in 1 .. i - 1  BY <3>3, NumSlotsAssumption DEF Slots
      <4>2. SlotWrite(n + s + 1, s)'  BY <1>3, <3>3, CommandWrites DEF SlotWrite
      <4> QED  BY <4>1, <4>2
    <3> QED  BY <1>5, <3>1, <3>2, <3>3
  <2>7. PendingOK(s)'
    BY <1>1, <2>2, <2>5, <2>6 DEF PendingOK
  <2>8. RestoredOK(s)'  BY <2>1, <2>2, <2>3 DEF RestoredOK
  <2>9. ASSUME ~failed' PROVE EndOK(s)'
    <3>1. /\ n + NumSlots + 1 \in 1 .. Len(commands') /\ n + s + 1 \in 1 .. Len(commands')
          /\ n + s + 1 \notin 1 .. n
      BY <1>3, <2>9, NumSlotsAssumption DEF Slots
    <3>2. FlagsWait'
      <4>1. commands'[n + NumSlots + 1].block = "flags"
        BY <1>3, <2>9 DEF FlagsCommand, Update, Block
      <4> QED  BY <3>1, <4>1 DEF FlagsWait
    <3>3. ~EndsFactory' /\ EndsEmpty(s)' = ~IsConfigured(s)
      BY <2>2, <3>2 DEF EndsFactory, EndsEmpty
    <3>4. SlotWrite(n + s + 1, s)'
      BY <1>3, <2>9, CommandWrites DEF SlotWrite
    <3>5. ASSUME NEW v, EndsAs(s, v)' PROVE v = SlotImage(s)
      <4>1. PICK i \in 1 .. Len(commands') :
                 /\ SlotWrite(i, s)' /\ v = WriteValue(i, s)'
                 /\ \A j \in i + 1 .. Len(commands') : ~SlotWrite(j, s)'
        BY <3>1, <3>4, <3>5 DEF EndsAs
      <4>2. i \notin 1 .. n
        <5>1. n + s + 1 \notin i + 1 .. Len(commands')  BY <3>4, <4>1
        <5> QED  BY <3>1, <5>1
      <4> QED  BY <2>4, <4>1, <4>2
    <3> QED  BY <2>2, <3>3, <3>5 DEF EndOK
  <2> QED  BY <2>2, <2>7, <2>8, <2>9
<1> QED  BY <1>1, <1>6 DEF SaveOK

\* The first command is carried out, the others move up.
LEMMA DoneShifts ==
    ASSUME Typed, CommandDone, NEW s \in Slots
    PROVE  /\ Len(commands) \in Nat /\ Len(commands') = Len(commands) - 1
           /\ 1 \in 1 .. Len(commands)
           /\ \A i \in 1 .. Len(commands') :
                 /\ i + 1 \in 1 .. Len(commands) /\ commands'[i] = commands[i + 1]
                 /\ SlotWrite(i, s)' <=> SlotWrite(i + 1, s)
                 /\ WriteValue(i, s)' = WriteValue(i + 1, s)
           /\ SlotWrite(1, s) => nvm'.config[s] = WriteValue(1, s) /\ nvm'.flags = nvm.flags
           /\ ~SlotWrite(1, s) => nvm'.config[s] = nvm.config[s]
           /\ commands[1].block = "flags" => nvm'.flags = buffers.flags
           /\ commands[1].block # "flags" => nvm'.flags = nvm.flags
<1>1. /\ commands \in Seq(Commands) /\ commands # <<>> /\ commands' = Tail(commands)
      /\ buffers' = buffers /\ nvm \in Images
  BY DEF CommandDone, Typed, TypeOK
<1>2. PICK c \in Commands : c = commands[1]
  BY <1>1, TailQueue
<1>3. /\ Len(commands') = Len(commands) - 1 /\ Len(commands) \in Nat
      /\ 1 \in 1 .. Len(commands) /\ nvm' = Applied(c)
      /\ \A i \in 1 .. Len(commands') :
            i + 1 \in 1 .. Len(commands) /\ commands'[i] = commands[i + 1]
  BY <1>1, <1>2, TailQueue DEF CommandDone
<1>4. \A i \in 1 .. Len(commands') :
         /\ SlotWrite(i, s)' <=> SlotWrite(i + 1, s)
         /\ WriteValue(i, s)' = WriteValue(i + 1, s)
  BY <1>1, <1>3 DEF SlotWrite, WriteValue
<1>5. c.clear => c.block = "config"
  BY <1>2, <1>3 DEF Typed, QueueOK
<1>6. CASE c.block = "config"
  <2>1. nvm' = [nvm EXCEPT !.config[c.slot] =
                   IF c.clear THEN NoConfig ELSE buffers.config[c.slot]]
    BY <1>3, <1>6 DEF Applied, Erased, Commands
  <2>2. /\ nvm'.flags = nvm.flags
        /\ nvm'.config[s] = IF s = c.slot
                            THEN (IF c.clear THEN NoConfig ELSE buffers.config[s])
                            ELSE nvm.config[s]
    BY <1>1, <2>1 DEF Images
  <2> QED  BY <1>2, <1>3, <1>4, <1>6, <2>2 DEF SlotWrite, WriteValue
<1>7. CASE c.block # "config"
  <2>1. nvm' = [nvm EXCEPT ![c.block] = buffers[c.block]] /\ ~SlotWrite(1, s)
    BY <1>2, <1>3, <1>5, <1>7 DEF Applied, SlotWrite
  <2>2. c.block \in {"flags", "lock", "priv", "pub"}  BY <1>7 DEF Commands
  <2>3. /\ nvm'.config = nvm.config
        /\ c.block = "flags" => nvm'.flags = buffers.flags
        /\ c.block # "flags" => nvm'.flags = nvm.flags
    BY <1>1, <2>1, <2>2 DEF Images
  <2> QED  BY <1>2, <1>3, <1>4, <2>1, <2>3
<1> QED  BY <1>6, <1>7

\* What is left ends as it would have.
LEMMA DoneEnds ==
    ASSUME Typed, CommandDone, NEW s \in Slots, PendingOK(s), EndOK(s) PROVE EndOK(s)'
<1>n. PICK n \in Nat : n = Len(commands)  BY DEF Typed, TypeOK
<1>1. /\ Len(commands') = n - 1 /\ 1 \in 1 .. n
      /\ \A i \in 1 .. Len(commands') :
            /\ i + 1 \in 1 .. n /\ commands'[i] = commands[i + 1]
            /\ SlotWrite(i, s)' <=> SlotWrite(i + 1, s)
            /\ WriteValue(i, s)' = WriteValue(i + 1, s)
      /\ SlotWrite(1, s) => nvm'.config[s] = WriteValue(1, s)
      /\ ~SlotWrite(1, s) => nvm'.config[s] = nvm.config[s]
      /\ commands[1].block = "flags" => nvm'.flags = buffers.flags
      /\ commands[1].block # "flags" => nvm'.flags = nvm.flags
  BY <1>n, DoneShifts
<1>2. /\ buffers' = buffers /\ Latest(s)' = Latest(s)
  BY DEF CommandDone, Latest
<1>3. \A i \in 1 .. n : i = 1 \/ (i - 1 \in 1 .. Len(commands') /\ (i - 1) + 1 = i)
  BY <1>1
<1>4. FlagsWait <=> FlagsWait' \/ commands[1].block = "flags"
  <2>1. FlagsWait' => FlagsWait  BY <1>n, <1>1 DEF FlagsWait
  <2>2. FlagsWait => FlagsWait' \/ commands[1].block = "flags"
    <3>1. SUFFICES ASSUME NEW i \in 1 .. n, commands[i].block = "flags", i # 1
                   PROVE  FlagsWait'
      BY <1>n DEF FlagsWait
    <3>2. i - 1 \in 1 .. Len(commands') /\ (i - 1) + 1 = i  BY <1>3, <3>1
    <3>3. commands'[i - 1] = commands[i]  BY <1>1, <3>2
    <3> QED  BY <3>1, <3>2, <3>3 DEF FlagsWait
  <2>3. commands[1].block = "flags" => FlagsWait  BY <1>n, <1>1 DEF FlagsWait
  <2> QED  BY <2>1, <2>2, <2>3
<1>5. (EndsFactory' <=> EndsFactory) /\ (EndsEmpty(s)' <=> EndsEmpty(s))
  <2>1. commands[1].block = "flags" => ~buffers.flags.factory
    BY <1>n, <1>1 DEF PendingOK
  <2> QED  BY <1>1, <1>2, <1>4, <2>1 DEF EndsFactory, EndsEmpty
<1>6. ASSUME NEW v, EndsAs(s, v)' PROVE EndsAs(s, v)
  <2>1. ASSUME v = nvm'.config[s], \A i \in 1 .. Len(commands') : ~SlotWrite(i, s)'
        PROVE  EndsAs(s, v)
    <3>1. ASSUME NEW i \in 2 .. n PROVE ~SlotWrite(i, s)
      <4>1. i - 1 \in 1 .. Len(commands') /\ (i - 1) + 1 = i
        BY <1>1, <3>1
      <4>2. SlotWrite(i - 1, s)' <=> SlotWrite((i - 1) + 1, s)
        BY <1>1, <4>1
      <4> QED  BY <2>1, <4>1, <4>2
    <3>2. CASE SlotWrite(1, s)
      <4>1. v = WriteValue(1, s)  BY <1>1, <2>1, <3>2
      <4>2. \A j \in 1 + 1 .. n : ~SlotWrite(j, s)  BY <3>1
      <4> QED  BY <1>n, <1>1, <3>2, <4>1, <4>2 DEF EndsAs
    <3>3. CASE ~SlotWrite(1, s)
      <4>1. v = nvm.config[s]  BY <1>1, <2>1, <3>3
      <4>2. \A i \in 1 .. n : ~SlotWrite(i, s)
        <5>1. \A i \in 1 .. n : i = 1 \/ i \in 2 .. n  OBVIOUS
        <5> QED  BY <3>1, <3>3, <5>1
      <4> QED  BY <1>n, <4>1, <4>2 DEF EndsAs
    <3> QED  BY <3>2, <3>3
  <2>2. ASSUME NEW i \in 1 .. Len(commands'), SlotWrite(i, s)', v = WriteValue(i, s)',
               \A j \in i + 1 .. Len(commands') : ~SlotWrite(j, s)'
        PROVE  EndsAs(s, v)
    <3>1. i + 1 \in 1 .. n /\ SlotWrite(i + 1, s) /\ v = WriteValue(i + 1, s)
      BY <1>1, <2>2
    <3>2. ASSUME NEW j \in (i + 1) + 1 .. n PROVE ~SlotWrite(j, s)
      <4>1. /\ j - 1 \in i + 1 .. Len(commands') /\ j - 1 \in 1 .. Len(commands')
            /\ (j - 1) + 1 = j
        BY <1>1, <3>2
      <4>2. ~SlotWrite(j - 1, s)'  BY <2>2, <4>1
      <4>3. SlotWrite(j - 1, s)' <=> SlotWrite((j - 1) + 1, s)  BY <1>1, <4>1
      <4> QED  BY <4>1, <4>2, <4>3
    <3> QED  BY <1>n, <3>1, <3>2 DEF EndsAs
  <2> QED  BY <1>6, <2>1, <2>2, Zenon DEF EndsAs
<1> QED  BY <1>2, <1>5, <1>6 DEF EndOK

LEMMA DoneOK == ASSUME Typed, SaveOK, CommandDone PROVE SaveOK'
<1>n. PICK n \in Nat : n = Len(commands)  BY DEF Typed, TypeOK
<1>1. /\ ~failed /\ failed' = failed /\ UNCHANGED <<main, buffers, saved, stored>> /\ Settling
      /\ commands' = Tail(commands)
  BY DEF CommandDone
<1>2. ASSUME NEW s \in Slots
      PROVE  GhostsOK(s)' /\ PendingOK(s)' /\ RestoredOK(s)' /\ EndOK(s)'
  <2>1. GhostsOK(s) /\ PendingOK(s) /\ RestoredOK(s) /\ EndOK(s)
    BY <1>1 DEF SaveOK
  <2>2. EndOK(s)' /\ Latest(s)' = Latest(s)
    BY <1>1, <2>1, DoneEnds DEF Latest
  <2>3. CASE commands' = <<>> /\ main.at # "put"
    <3>1. since'[s] = Latest(s)'
      BY <1>1, <2>2, <2>3 DEF Settling, Latest
    <3>2. Len(commands') = 0  BY <2>3
    <3>3. Restored(s)' \in Latest(s)'
      <4>v. PICK v : v = nvm'.config[s]  OBVIOUS
      <4>1. ~FlagsWait' /\ EndsAs(s, v)'  BY <3>2, <4>v DEF FlagsWait, EndsAs
      <4>2. CASE nvm'.flags.factory
        BY <2>2, <4>1, <4>2 DEF EndOK, EndsFactory, Restored
      <4>3. CASE ~nvm'.flags.factory /\ nvm'.flags.empty[s]
        BY <2>2, <4>1, <4>3 DEF EndOK, EndsFactory, EndsEmpty, Restored
      <4>4. CASE ~nvm'.flags.factory /\ ~nvm'.flags.empty[s]
        <5>1. v \in Latest(s)'
          BY <2>2, <4>1, <4>4, Zenon DEF EndOK, EndsFactory, EndsEmpty
        <5>2. Restored(s)' = v  BY <4>v, <4>4 DEF Restored
        <5> QED  BY <5>1, <5>2
      <4> QED  BY <4>2, <4>3, <4>4
    <3> QED  BY <2>2, <3>1, <3>2, <3>3 DEF RestoredOK, PendingOK, GhostsOK, Latest
  <2>4. CASE ~(commands' = <<>> /\ main.at # "put")
    <3>1. since' = since  BY <1>1, <2>4 DEF Settling
    <3>2. /\ Len(commands') = n - 1 /\ 1 \in 1 .. n
          /\ \A i \in 1 .. Len(commands') :
                /\ i + 1 \in 1 .. n /\ commands'[i] = commands[i + 1]
                /\ SlotWrite(i, s)' <=> SlotWrite(i + 1, s)
                /\ WriteValue(i, s)' = WriteValue(i + 1, s)
          /\ SlotWrite(1, s) => nvm'.config[s] = WriteValue(1, s) /\ nvm'.flags = nvm.flags
          /\ ~SlotWrite(1, s) => nvm'.config[s] = nvm.config[s]
          /\ commands[1].block = "flags" => nvm'.flags = buffers.flags
          /\ commands[1].block # "flags" => nvm'.flags = nvm.flags
      BY <1>n, DoneShifts
    <3>3. SlotWrite(1, s) => nvm'.config[s] \in since[s]
      BY <1>n, <2>1, <3>2 DEF PendingOK
    <3>4. ASSUME NEW i \in 1 .. Len(commands'), SlotWrite(i, s)'
          PROVE  WriteValue(i, s)' \in since[s]
      BY <1>n, <2>1, <3>2, <3>4 DEF PendingOK
    <3>5. ASSUME NEW i \in 1 .. Len(commands'), commands'[i].block = "flags"
          PROVE  /\ ~buffers.flags.factory
                 /\ buffers.flags.empty[s] => NoConfig \in since[s]
                 /\ nvm'.config[s] \in since[s] \/ \E j \in 1 .. i - 1 : SlotWrite(j, s)'
      <4>1. i + 1 \in 1 .. n /\ commands[i + 1].block = "flags"  BY <3>2, <3>5
      <4>2. nvm.config[s] \in since[s] \/ \E j \in 1 .. (i + 1) - 1 : SlotWrite(j, s)
        BY <1>n, <2>1, <4>1 DEF PendingOK
      <4>3. ASSUME nvm.config[s] \in since[s] PROVE nvm'.config[s] \in since[s]
        BY <3>2, <3>3, <4>3
      <4>4. ASSUME NEW j \in 1 .. (i + 1) - 1, SlotWrite(j, s), ~SlotWrite(1, s)
            PROVE  \E k \in 1 .. i - 1 : SlotWrite(k, s)'
        <5>1. j # 1  BY <4>4
        <5>2. /\ j - 1 \in 1 .. i - 1 /\ j - 1 \in 1 .. Len(commands') /\ (j - 1) + 1 = j
          BY <3>5, <4>4, <5>1
        <5>3. SlotWrite(j - 1, s)' <=> SlotWrite((j - 1) + 1, s)  BY <3>2, <5>2
        <5>4. SlotWrite(j - 1, s)'  BY <4>4, <5>2, <5>3
        <5> QED  BY <5>2, <5>4
      <4>5. nvm'.config[s] \in since[s] \/ \E j \in 1 .. i - 1 : SlotWrite(j, s)'
        BY <3>3, <4>2, <4>3, <4>4
      <4> QED  BY <1>n, <2>1, <4>1, <4>5 DEF PendingOK
    <3>6. PendingOK(s)'
      BY <1>1, <3>1, <3>4, <3>5 DEF PendingOK
    <3>7. Restored(s)' \in since[s]
      <4>1. Restored(s) \in since[s]  BY <2>1 DEF RestoredOK
      <4>2. CASE commands[1].block = "flags"
        <5>1. /\ ~buffers.flags.factory
              /\ buffers.flags.empty[s] => NoConfig \in since[s]
              /\ nvm.config[s] \in since[s] \/ \E j \in 1 .. 1 - 1 : SlotWrite(j, s)
          BY <1>n, <2>1, <3>2, <4>2 DEF PendingOK
        <5>2. nvm.config[s] \in since[s] /\ ~SlotWrite(1, s)
          BY <4>2, <5>1 DEF SlotWrite
        <5> QED  BY <3>2, <4>2, <5>1, <5>2 DEF Restored
      <4>3. CASE commands[1].block # "flags"
        BY <3>2, <3>3, <4>1, <4>3 DEF Restored
      <4> QED  BY <4>2, <4>3
    <3> QED  BY <1>1, <2>1, <2>2, <3>1, <3>6, <3>7 DEF RestoredOK, GhostsOK
  <2> QED  BY <2>3, <2>4
<1> QED  BY <1>1, <1>2 DEF SaveOK

LEMMA NextOK == ASSUME ~Preempt, Typed, SaveOK, [Next]_vars PROVE SaveOK'
<1>1. CASE Disconnect
  <2>1. main.at # "put"  BY <1>1 DEF Disconnect, InterruptAllowed
  <2> QED  BY <1>1, <2>1, DisconnectOK
<1>2. CASE PowerLoss \/ ErrorReset
  BY <1>2, UnpoweredOK DEF PowerLoss, ErrorReset
<1>3. CASE UNCHANGED vars
  BY <1>3 DEF vars, SaveOK, GhostsOK, PendingOK, RestoredOK, EndOK, EndsFactory,
              EndsEmpty, EndsAs, FlagsWait, SlotWrite, WriteValue, Latest, Restored
<1>4. CASE MainLoop
  BY <1>4, BootOK, StoreOK, PutOK, ExchangeOK DEF MainLoop
<1>5. CASE Interrupt /\ ~Disconnect
  BY <1>5, ClientOK DEF Interrupt
<1> QED
  BY <1>1, <1>2, <1>3, <1>4, <1>5, StoreOK, DoneOK DEF Next

LEMMA InitOK == ASSUME Init PROVE SaveOK
<1>1. /\ main.at = "boot" /\ Len(commands) = 0
      /\ saved = [s \in Slots |-> Restored(s)] /\ stored = [s \in Slots |-> {}]
      /\ since = [s \in Slots |-> {Restored(s)}]
  BY MainTypes DEF Init, Positions
<1>2. ASSUME NEW s \in Slots
      PROVE  GhostsOK(s) /\ PendingOK(s) /\ RestoredOK(s) /\ EndOK(s)
  <2>1. Latest(s) = {Restored(s)}  BY <1>1 DEF Latest
  <2>2. GhostsOK(s) /\ PendingOK(s) /\ RestoredOK(s)
    BY <1>1 DEF GhostsOK, PendingOK, RestoredOK
  <2>3. ~FlagsWait /\ \A config : EndsAs(s, config) => config = nvm.config[s]
    BY <1>1 DEF FlagsWait, EndsAs
  <2>4. EndOK(s)
    BY <1>1, <2>1, <2>3 DEF EndOK, EndsFactory, EndsEmpty, Restored
  <2> QED  BY <2>2, <2>4
<1> QED  BY <1>1, <1>2 DEF SaveOK

\* When no interrupt falls between the copy of a slot and the call of the flash
\* module, a loss of power at any moment, between any two of the commands of any
\* number of saves that overlap, brings every slot back as it was at one save
\* (eddystone_flash.c, eddystone_adv_slot_write_to_flash, load_from_flash).
THEOREM SavesRestored == ASSUME ~Preempt PROVE Spec => []RestoresASave
<1>1. Init => SaveOK  BY InitOK
<1>2. Typed /\ SaveOK /\ [Next]_vars => SaveOK'  BY NextOK
<1>3. SaveOK => RestoresASave  BY DEF SaveOK, RestoresASave, RestoredOK
<1> QED  BY <1>1, <1>2, <1>3, AlwaysTyped, PTL DEF Spec

-----------------------------------------------------------------------------
(* What flash holds when it is idle *)

\* Where a block of keys ends when the queue has been carried out.
KeyBlocks == {"lock", "priv", "pub"}
EndKey(b) == IF Waits(b) THEN buffers[b] ELSE nvm[b]

\* Once they are read, every block of keys ends as the keys in use, but for a lock
\* key whose command was lost and a pair whose exchange is about to end in a reset.
KeysOK ==
    /\ main.at # "boot" /\ ~dropped => EndKey("lock") = lockKey
    /\ ~Booting /\ pair # 0 /\ ~failed => EndKey("priv") = pair /\ EndKey("pub") = pair

LEMMA QueueType == ASSUME Typed PROVE commands \in Seq(Commands) /\ Len(commands) \in Nat
BY DEF Typed, TypeOK

\* A step that queues nothing for a block of keys leaves its end where it is.
LEMMA QuietKey ==
    ASSUME Typed, NEW b \in KeyBlocks, NEW B, Extends(B), b \notin B,
           nvm'[b] = nvm[b], buffers'[b] = buffers[b]
    PROVE  EndKey(b)' = EndKey(b)
<1>1. Waits(b)' <=> Waits(b)
  <2>1. Len(commands) \in Nat /\ Len(commands') \in Nat /\ Len(commands) <= Len(commands')
    BY QueueType DEF Extends
  <2>2. ASSUME NEW i \in 1 .. Len(commands'), commands'[i].block = b
        PROVE  i \in 1 .. Len(commands) /\ commands[i].block = b
    <3>1. i \notin Len(commands) + 1 .. Len(commands')
      BY <2>2 DEF Extends
    <3> QED  BY <2>1, <2>2, <3>1 DEF Extends
  <2>3. ASSUME NEW i \in 1 .. Len(commands), commands[i].block = b
        PROVE  i \in 1 .. Len(commands') /\ commands'[i].block = b
    BY <2>1, <2>3 DEF Extends
  <2> QED  BY <2>2, <2>3 DEF Waits
<1> QED  BY <1>1 DEF EndKey

\* A command at the end of the queue makes its buffer the end.
LEMMA QueuedKey ==
    ASSUME Typed, NEW b, NEW i \in 1 .. Len(commands'), commands'[i].block = b
    PROVE  EndKey(b)' = buffers'[b]
BY DEF EndKey, Waits

\* With nothing in the queue, the end is there.
LEMMA IdleKey == ASSUME commands = <<>>, NEW b PROVE EndKey(b) = nvm[b]
<1>1. 1 .. Len(commands) = {}  OBVIOUS
<1> QED  BY <1>1 DEF EndKey, Waits

\* Carrying a command out changes no end.
LEMMA DoneKey ==
    ASSUME Typed, CommandDone, NEW b \in KeyBlocks
    PROVE  EndKey(b)' = EndKey(b)
<1>1. /\ commands \in Seq(Commands) /\ commands # <<>> /\ commands' = Tail(commands)
      /\ buffers' = buffers /\ nvm \in Images
  BY DEF CommandDone, Typed, TypeOK
<1>2. PICK c \in Commands : c = commands[1]
  BY <1>1, TailQueue
<1>3. /\ Len(commands') = Len(commands) - 1 /\ Len(commands) \in Nat
      /\ 1 \in 1 .. Len(commands) /\ nvm' = Applied(c)
      /\ \A i \in 1 .. Len(commands') :
            i + 1 \in 1 .. Len(commands) /\ commands'[i] = commands[i + 1]
  BY <1>1, <1>2, TailQueue DEF CommandDone
<1>4. Waits(b)' => Waits(b)
  BY <1>3 DEF Waits
<1>5. Waits(b) => Waits(b)' \/ c.block = b
  <2>1. SUFFICES ASSUME NEW i \in 1 .. Len(commands), commands[i].block = b, c.block # b
                 PROVE  Waits(b)'
    BY DEF Waits
  <2>2. i # 1  BY <1>2, <2>1
  <2>3. i - 1 \in 1 .. Len(commands') /\ (i - 1) + 1 = i
    BY <1>3, <2>2
  <2>4. commands'[i - 1] = commands[i]  BY <1>3, <2>3
  <2> QED  BY <2>1, <2>3, <2>4 DEF Waits
<1>6. CASE c.block = b
  <2>1. ~c.clear /\ c.block # "config"
    BY <1>2, <1>3, <1>6 DEF Typed, QueueOK, KeyBlocks
  <2>2. nvm' = [nvm EXCEPT ![b] = buffers[b]]
    BY <1>3, <1>6, <2>1 DEF Applied
  <2>3. nvm'[b] = buffers[b]
    BY <1>1, <2>2 DEF Images, KeyBlocks
  <2>4. EndKey(b) = buffers[b]
    BY <1>2, <1>3, <1>6 DEF EndKey, Waits
  <2> QED  BY <1>1, <2>3, <2>4 DEF EndKey
<1>7. CASE c.block # b
  <2>1. nvm'[b] = nvm[b]
    <3>1. CASE c.block = "config"
      <4>1. PICK v : nvm' = [nvm EXCEPT !.config[c.slot] = v]
        BY <1>3, <3>1 DEF Applied
      <4> QED  BY <1>1, <4>1 DEF Images, KeyBlocks
    <3>2. CASE c.block # "config"
      <4>1. PICK v : nvm' = [nvm EXCEPT ![c.block] = v]
        BY <1>3, <3>2 DEF Applied
      <4>2. c.block \in {"flags", "lock", "priv", "pub"}
        BY <3>2 DEF Commands
      <4> QED  BY <1>1, <1>7, <4>1, <4>2 DEF Images, KeyBlocks
    <3> QED  BY <3>1, <3>2
  <2> QED  BY <1>1, <1>4, <1>5, <1>7, <2>1 DEF EndKey
<1> QED  BY <1>6, <1>7

\* What leaves all keys alone.
LEMMA QuietKeys ==
    ASSUME Typed, KeysOK, NEW B, Extends(B), B \cap KeyBlocks = {},
           UNCHANGED <<nvm, lockKey, pair, dropped>>, ~failed,
           main.at \notin {"boot", "wait", "load"},
           buffers'.lock = buffers.lock, buffers'.priv = buffers.priv, buffers'.pub = buffers.pub
    PROVE  KeysOK'
<1>1. ASSUME NEW b \in KeyBlocks PROVE EndKey(b)' = EndKey(b)
  <2>1. buffers'[b] = buffers[b] /\ b \notin B  BY DEF KeyBlocks
  <2> QED  BY <2>1, QuietKey
<1>2. /\ EndKey("lock")' = EndKey("lock") /\ EndKey("priv")' = EndKey("priv")
      /\ EndKey("pub")' = EndKey("pub")
  BY <1>1 DEF KeyBlocks
<1> QED  BY <1>2 DEF KeysOK, Booting

LEMMA BootKeys ==
    ASSUME Typed, PairOK, KeysOK, BootLockKey \/ BootWait \/ BootLoad PROVE KeysOK'
<1>1. CASE BootLockKey
  <2>1. commands = <<>> /\ commands \in Seq(Commands)
    BY <1>1 DEF BootLockKey, Typed, TypeOK, QueueOK
  <2>2. Booting'
    BY <1>1, MainTypes DEF BootLockKey, Booting, Positions
  <2>3. CASE nvm.lock = 0
    <3>1. /\ buffers' = [buffers EXCEPT !.lock = DefaultLockKey] /\ buffers \in Images
          /\ commands' = Append(commands, LockCommand) /\ lockKey' = DefaultLockKey
      BY <1>1, <2>3 DEF BootLockKey, Typed, TypeOK
    <3>2. Len(commands') = 1 /\ commands'[1].block = "lock"
      BY <2>1, <3>1 DEF LockCommand, Update, Block
    <3>3. EndKey("lock")' = buffers'["lock"]
      BY <3>2, QueuedKey
    <3>4. buffers'["lock"] = lockKey'
      BY <3>1 DEF Images
    <3> QED  BY <2>2, <3>3, <3>4 DEF KeysOK
  <2>4. CASE nvm.lock # 0
    <3>1. commands' = <<>> /\ lockKey' = nvm.lock /\ nvm' = nvm
      BY <1>1, <2>1, <2>4 DEF BootLockKey
    <3>2. EndKey("lock")' = nvm'["lock"]
      <4>1. 1 .. Len(commands') = {}  BY <3>1
      <4> QED  BY <4>1 DEF EndKey, Waits
    <3> QED  BY <2>2, <3>1, <3>2 DEF KeysOK
  <2> QED  BY <2>3, <2>4
<1>2. CASE BootWait
  <2>1. /\ Booting' /\ main.at = "wait"
        /\ UNCHANGED <<nvm, buffers, commands, lockKey, pair, dropped>>
    BY <1>2, MainTypes DEF BootWait, Booting, Positions, kept
  <2> QED  BY <2>1 DEF KeysOK, EndKey, Waits
<1>3. CASE BootLoad
  <2>1. /\ main.at = "load" /\ commands = <<>>
        /\ UNCHANGED <<nvm, buffers, commands, lockKey, dropped>>
        /\ pair' = IF nvm.priv # 0 /\ nvm.pub # 0 THEN nvm.pub ELSE 0
    BY <1>3 DEF BootLoad, Typed, QueueOK, kept
  <2>2. \A b : EndKey(b)' = nvm[b] /\ EndKey(b) = nvm[b]
    <3>1. 1 .. Len(commands') = {} /\ 1 .. Len(commands) = {}  BY <2>1
    <3> QED  BY <2>1, <3>1 DEF EndKey, Waits
  <2>3. nvm.pub # 0 => nvm.priv = nvm.pub  BY DEF PairOK
  <2>4. ~dropped' => EndKey("lock")' = lockKey'
    BY <2>1, <2>2 DEF KeysOK
  <2>5. pair' # 0 => EndKey("priv")' = pair' /\ EndKey("pub")' = pair'
    BY <2>1, <2>2, <2>3
  <2> QED  BY <2>4, <2>5 DEF KeysOK
<1> QED  BY <1>1, <1>2, <1>3

\* A lock key goes into the buffer of its block first: the command behind the
\* queue takes it along, or one that waits already, and else it is lost.
LEMMA ClientLockKeys == ASSUME Typed, KeysOK, ClientLockKey PROVE KeysOK'
<1>1. /\ main.at \in {"idle", "store", "put"} /\ ~failed
      /\ UNCHANGED <<main, nvm, pair, failed>> /\ buffers \in Images
      /\ buffers' = [buffers EXCEPT !.lock = Fresh] /\ lockKey' = Fresh
      /\ commands' = IF Room(1) THEN Append(commands, LockCommand) ELSE commands
      /\ dropped' = (~Room(1) /\ ~Waits("lock"))
  BY DEF ClientLockKey, Client, InterruptAllowed, Typed, TypeOK
<1>2. buffers'["lock"] = lockKey' /\ \A b \in Halves : buffers'[b] = buffers[b]
  BY <1>1 DEF Images, Halves
<1>3. ~dropped' => EndKey("lock")' = lockKey'
  <2>1. CASE Room(1)
    <3>1. /\ Len(commands') = Len(commands) + 1 /\ commands'[Len(commands) + 1] = LockCommand
          /\ Len(commands) \in Nat
      BY <1>1, <2>1, CommandTypes, QueueType, AppendQueue
    <3>2. Len(commands) + 1 \in 1 .. Len(commands')  BY <3>1
    <3>3. commands'[Len(commands) + 1].block = "lock"
      BY <3>1 DEF LockCommand, Update, Block
    <3> QED  BY <1>2, <3>2, <3>3, QueuedKey
  <2>2. CASE ~Room(1) /\ Waits("lock")
    <3>1. PICK i \in 1 .. Len(commands) : commands[i].block = "lock"
      BY <2>2 DEF Waits
    <3>2. i \in 1 .. Len(commands') /\ commands'[i].block = "lock"
      BY <1>1, <2>2, <3>1
    <3> QED  BY <1>2, <3>2, QueuedKey
  <2> QED  BY <1>1, <2>1, <2>2
<1>4. ASSUME NEW b \in Halves PROVE EndKey(b)' = EndKey(b)
  <2>1. ~LockCommand.clear /\ LockCommand.block = "lock"
    BY DEF LockCommand, Update, Block
  <2>2. Extends({"lock"})
    BY <1>1, <2>1, CommandTypes, QueueType, AppendExtends
  <2>3. b \in KeyBlocks /\ b \notin {"lock"} /\ nvm'[b] = nvm[b] /\ buffers'[b] = buffers[b]
    BY <1>1, <1>2 DEF Halves, KeyBlocks
  <2> QED  BY <2>2, <2>3, QuietKey
<1>5. EndKey("priv")' = EndKey("priv") /\ EndKey("pub")' = EndKey("pub")
  BY <1>4 DEF Halves
<1> QED  BY <1>1, <1>3, <1>5 DEF KeysOK, Booting

LEMMA InterruptKeys == ASSUME Typed, KeysOK, Interrupt PROVE KeysOK'
<1>1. CASE ClientLockKey  BY <1>1, ClientLockKeys
<1>2. CASE ~ClientLockKey
  <2>1. UNCHANGED <<nvm, lockKey, pair, dropped>> /\ main.at \notin {"boot", "wait", "load"}
        /\ buffers \in Images /\ ~failed
    BY <1>2 DEF Interrupt, Connect, ClientWrite, ClientInterval, Disconnect,
                Client, InterruptAllowed, Typed, TypeOK, kept
  <2>2. CASE Disconnect
    <3>1. Extends({"config", "flags"})
      BY <2>2, QueueType, SaveExtends DEF Disconnect
    <3>2. /\ buffers'.lock = buffers.lock /\ buffers'.priv = buffers.priv
          /\ buffers'.pub = buffers.pub
      BY <2>1, <2>2 DEF Disconnect, Images
    <3> QED  BY <2>1, <3>1, <3>2, QuietKeys DEF KeyBlocks
  <2>3. CASE ~Disconnect
    <3>1. UNCHANGED <<buffers, commands>>
      BY <1>2, <2>3 DEF Interrupt, Connect, ClientWrite, ClientInterval
    <3>2. Extends({})  BY <3>1, QueueType, KeptExtends
    <3> QED  BY <2>1, <3>1, <3>2, QuietKeys
  <2> QED  BY <2>2, <2>3
<1> QED  BY <1>1, <1>2

\* An exchange queues both halves of the pair or ends in a reset.
LEMMA ExchangeKeys ==
    ASSUME Typed, KeysOK, NEW s \in Slots, KeyExchange(s) PROVE KeysOK'
<1>1. /\ main.at = "idle" /\ UNCHANGED <<main, nvm, lockKey, dropped>>
      /\ buffers'.priv = pair' /\ buffers'.pub = pair' /\ buffers'.lock = buffers.lock
      /\ commands' = IF Room(2) THEN commands \o PairCommands ELSE commands
      /\ failed' = ~Room(2)
  BY DEF KeyExchange, Running, Typed, TypeOK, Images, kept
<1>2. ~failed' => EndKey("priv")' = pair' /\ EndKey("pub")' = pair'
  <2>1. SUFFICES ASSUME Room(2) PROVE EndKey("priv")' = pair' /\ EndKey("pub")' = pair'
    BY <1>1
  <2>2. /\ Len(commands') = Len(commands) + 2 /\ Len(commands) \in Nat
        /\ commands'[Len(commands) + 1].block = "priv"
        /\ commands'[Len(commands) + 2].block = "pub"
    BY <1>1, <2>1, QueueType, PairQueue DEF Update, Block
  <2>3. /\ Len(commands) + 1 \in 1 .. Len(commands')
        /\ Len(commands) + 2 \in 1 .. Len(commands')
    BY <2>2
  <2> QED  BY <1>1, <2>2, <2>3, QueuedKey
<1>3. EndKey("lock")' = EndKey("lock")
  <2>1. Extends({"priv", "pub"})
    BY <1>1, QueueType, PairExtends
  <2> QED  BY <1>1, <2>1, QuietKey DEF KeyBlocks
<1> QED  BY <1>1, <1>2, <1>3 DEF KeysOK, Booting

LEMMA StoreKeys ==
    ASSUME Typed, KeysOK, StoreStart \/ StoreSkip \/ StoreCopy \/ StorePut PROVE KeysOK'
<1>1. UNCHANGED <<nvm, lockKey, pair, dropped>> /\ main.at \notin {"boot", "wait", "load"}
      /\ buffers \in Images /\ ~failed
  BY DEF StoreStart, StoreSkip, StoreCopy, StorePut, Running, Typed, TypeOK, kept
<1>2. CASE StorePut
  <2>1. main.slot \in Slots /\ main.config \in Configs /\ commands \in Seq(Commands)
    BY DEF Typed, TypeOK, MainStates
  <2>2. PICK c \in Commands :
           /\ c.block = "config"
           /\ commands' = IF Room(1) THEN Append(commands, c) ELSE commands
    <3>1. SlotCommand(main.slot, main.config).block = "config"
      BY DEF SlotCommand, Update, Clear, SlotBlock
    <3> QED  BY <1>2, <2>1, <3>1, CommandTypes DEF StorePut
  <2>3. Extends({"config"})
    BY <2>1, <2>2, AppendExtends
  <2>4. /\ buffers'.lock = buffers.lock /\ buffers'.priv = buffers.priv
        /\ buffers'.pub = buffers.pub
    BY <1>1, <1>2 DEF StorePut, Buffered, Images
  <2> QED  BY <1>1, <2>3, <2>4, QuietKeys DEF KeyBlocks
<1>3. CASE StoreStart \/ StoreSkip \/ StoreCopy
  <2>1. UNCHANGED <<buffers, commands>>
    BY <1>3 DEF StoreStart, StoreSkip, StoreCopy
  <2>2. Extends({})  BY <2>1, QueueType, KeptExtends
  <2> QED  BY <1>1, <2>1, <2>2, QuietKeys
<1> QED  BY <1>2, <1>3

LEMMA DoneKeys == ASSUME Typed, KeysOK, CommandDone PROVE KeysOK'
<1>1. UNCHANGED <<main, lockKey, pair, dropped, failed>>  BY DEF CommandDone
<1>2. /\ EndKey("lock")' = EndKey("lock") /\ EndKey("priv")' = EndKey("priv")
      /\ EndKey("pub")' = EndKey("pub")
  BY DoneKey DEF KeyBlocks
<1> QED  BY <1>1, <1>2 DEF KeysOK, Booting

LEMMA NextKeys ==
    ASSUME Typed, PairOK, KeysOK, [Next]_vars PROVE KeysOK'
<1>1. CASE PowerLoss \/ ErrorReset
  <2>1. main'.at = "boot"
    BY <1>1, MainTypes DEF PowerLoss, ErrorReset, Unpowered, Positions
  <2> QED  BY <2>1 DEF KeysOK, Booting
<1>2. CASE UNCHANGED vars
  BY <1>2 DEF vars, KeysOK, EndKey, Waits, Booting
<1> QED
  BY <1>1, <1>2, InterruptKeys, BootKeys, StoreKeys, ExchangeKeys, DoneKeys
  DEF Next, MainLoop

\* Whenever flash is idle it holds the ECDH pair in use and the lock key in use,
\* whatever was written, refused, lost or interrupted on the way; only the lock key
\* whose command the full queue refused is not there (lock_code_update,
\* ecdh_pair_preserve, eddystone_flash.c and pstorage's queue).
THEOREM KeysReachFlash == Spec => []DrainedKeysStored
<1>1. Init => KeysOK
  <2>1. Init => main.at = "boot"  BY MainTypes DEF Init, Positions
  <2> QED  BY <2>1 DEF KeysOK, Booting
<1>2. Typed /\ PairOK /\ KeysOK /\ [Next]_vars => KeysOK'  BY NextKeys
<1>3. KeysOK => DrainedKeysStored
  <2>1. SUFFICES ASSUME KeysOK, main.at = "idle", commands = <<>>, ~failed
                 PROVE  /\ ~dropped => nvm.lock = lockKey
                        /\ pair # 0 => nvm.priv = pair /\ nvm.pub = pair
    BY DEF DrainedKeysStored
  <2>2. \A b : EndKey(b) = nvm[b]  BY <2>1, IdleKey
  <2> QED  BY <2>1, <2>2 DEF KeysOK, Booting
<1> QED  BY <1>1, <1>2, <1>3, AlwaysTyped, AlwaysPaired, PTL DEF Spec
=============================================================================
