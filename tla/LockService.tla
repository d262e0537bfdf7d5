---------------------------- MODULE LockService ----------------------------
(***************************************************************************)
(* The lock of the configuration service: the requests that                *)
(* eddystone_ble_handler.c lets through, the lock key and the unlock       *)
(* challenge of eddystone_security.c, and the identity keys of EID slots   *)
(* as a client may read them back.                                         *)
(*                                                                         *)
(* The AES block of the lock key, m_aes_ecb_lk, has one buffer pair and    *)
(* two users.  Reading Unlock encrypts a challenge in it and writing       *)
(* Unlock compares with the result, both in the interrupt; at the end of   *)
(* an EID's key exchange the main loop encrypts the identity key in it.    *)
(* The lock key itself is read when an exchange is carried out, not when   *)
(* the client asks for it.                                                 *)
(*                                                                         *)
(* Abstractions: keys and challenges are fresh numbers and a block of      *)
(* ciphertext is the pair of key and text; a request that is denied        *)
(* changes nothing and has no action; an EID write has a valid length      *)
(* (SlotConfig has the others), and so few that the scheduler's queue is   *)
(* never full; what survives power loss is FlashStore's.                   *)
(***************************************************************************)
EXTENDS Integers, Sequences

CONSTANTS
    NumSlots,    \* APP_MAX_ADV_SLOTS and APP_MAX_EID_SLOTS, which are equal
    Preempt,     \* may an interrupt hit inside the main loop's exchange?
    Patient,     \* do clients let exchanges finish before they use the lock?
    MaxFresh     \* bound: keys and challenges in a behaviour

ASSUME NumSlotsAssumption == NumSlots \in Nat \ {0}
ASSUME PreemptAssumption == Preempt \in BOOLEAN
ASSUME PatientAssumption == Patient \in BOOLEAN
ASSUME MaxFreshAssumption == MaxFresh \in Nat

Slots == 0 .. NumSlots - 1

VARIABLES
    lockState,   \* the Lock State characteristic
    lockKey,     \* m_aes_ecb_lk.key
    ecb,         \* m_aes_ecb_lk.cleartext and .ciphertext
    connected,   \* a client holds a connection
    activeSlot,  \* the Active Slot characteristic
    offered,     \* ghost: the challenge the client holds, 0 if none
    isEid,       \* [Slots -> BOOLEAN]: frame_write_buffer[0] is EID
    buffer,      \* [Slots -> EidWrites]: frame_write_buffer[1..]
    ik,          \* [Slots -> key]: m_security_slot[s].aes_ecb_ik.key
    exposed,     \* [Slots -> block]: m_slots[s].encrypted_eid_id_key
    queue,       \* the slots whose frame_set is in the scheduler's queue
    main,        \* the main loop's exchange and how far it got
    fresh        \* the last key or challenge drawn

slotVars == <<isEid, buffer, ik, exposed, queue>>
vars == <<lockState, lockKey, ecb, connected, activeSlot, offered, isEid,
          buffer, ik, exposed, queue, main, fresh>>

-----------------------------------------------------------------------------
(* AES as pairs, and what a slot's buffer says of its key *)

\* Zero is zeroed memory, and stands for a text no one meant: what a block
\* decrypts to under another key.
Blocks == [key : Nat, text : Nat]
NoBlock == [key |-> 0, text |-> 0]
Encrypted(k, t) == [key |-> k, text |-> t]
Decrypted(k, b) == IF b.key = k THEN b.text ELSE 0

\* An identity key comes encrypted under the lock key or, with ECDH, is
\* agreed on and does not depend on it.
EidWrites == [ecdh : BOOLEAN, block : Blocks]
NoWrite == [ecdh |-> FALSE, block |-> NoBlock]
Derived(k, w) == IF w.ecdh THEN w.block.text ELSE Decrypted(k, w.block)

\* "derive" .. "copy": in frame_set for main.slot with the write it copied
\* and the lock key it found.
Positions == {"idle", "derive", "load", "encrypt", "copy"}
Idle == [at |-> "idle", slot |-> 0, write |-> NoWrite, key |-> 0]
MainStates == [at : Positions, slot : Slots, write : EidWrites, key : Nat]

\* A frame_set for s is waiting or running.
Pending(s) == \/ \E i \in 1 .. Len(queue) : queue[i] = s
              \/ main.at # "idle" /\ main.slot = s
Quiet == queue = <<>> /\ main.at = "idle"

\* The Lock State byte; any byte but LOCKED counts as unlocked.
LOCKED == 0
UNLOCKED == 1
AUTO_RELOCK_DISABLED == 2
LockBytes == 0 .. 3
Unlocked == lockState # LOCKED

-----------------------------------------------------------------------------
(* Power up: the lock is closed, the EIDs that flash held are restored *)

Init ==
    /\ lockState = LOCKED /\ lockKey = 1
    /\ connected = FALSE /\ activeSlot = 0 /\ offered = 0
    /\ isEid \in [Slots -> BOOLEAN]
    /\ buffer = [s \in Slots |-> NoWrite]
    /\ ik = [s \in Slots |-> IF isEid[s] THEN 2 ELSE 0]
    /\ exposed = [s \in Slots |-> IF isEid[s] THEN Encrypted(1, 2) ELSE NoBlock]
    /\ ecb = IF \E s \in Slots : isEid[s]
             THEN [clear |-> 2, cipher |-> Encrypted(1, 2)]
             ELSE [clear |-> 0, cipher |-> NoBlock]
    /\ queue = <<>> /\ main = Idle /\ fresh = 2

-----------------------------------------------------------------------------
(* Requests of the client, in the SoftDevice event interrupt *)

InterruptAllowed == main.at = "idle" \/ Preempt

\* A new number; the bound on behaviours.
Draw == fresh < MaxFresh /\ fresh' = fresh + 1

\* What a patient client waits for, by reading its slots back.
Waited == Patient => Quiet

\* on_ble_evt: BLE_GAP_EVT_CONNECTED, reset_active_slot
Connect ==
    /\ ~connected
    /\ connected' = TRUE
    /\ activeSlot' = 0
    /\ UNCHANGED <<lockState, lockKey, ecb, offered, slotVars, main, fresh>>

\* Mutant: a connection that is lost leaves the beacon unlocked.
DisconnectUnlocked ==
    /\ connected
    /\ connected' = FALSE
    /\ offered' = 0
    /\ UNCHANGED <<lockState, lockKey, ecb, activeSlot, slotVars, main, fresh>>

\* on_ble_evt: BLE_GAP_EVT_DISCONNECTED relocks, unless the client had put the
\* state to any other byte.
Disconnect ==
    /\ connected
    /\ connected' = FALSE
    /\ offered' = 0
    /\ lockState' = IF lockState = UNLOCKED THEN LOCKED ELSE lockState
    /\ UNCHANGED <<lockKey, ecb, activeSlot, slotVars, main, fresh>>

\* A client whose requests the lock lets through.
Served == connected /\ Unlocked

\* Characteristic 2: an index past the last slot is the last slot's.
WriteActiveSlot(n) ==
    /\ Served
    /\ activeSlot' = IF n > NumSlots - 1 THEN NumSlots - 1 ELSE n
    /\ UNCHANGED <<lockState, lockKey, ecb, connected, offered, slotVars, main, fresh>>

\* Characteristic 6, one byte: any but these two is taken as LOCKED.
WriteLockState(b) ==
    /\ Served /\ Waited
    /\ lockState' = IF b \in {LOCKED, AUTO_RELOCK_DISABLED} THEN b ELSE LOCKED
    /\ UNCHANGED <<lockKey, ecb, connected, activeSlot, offered, slotVars, main, fresh>>

\* Characteristic 6, a byte and the new key under the old one: the byte is
\* stored as it came.
WriteLockCode(b) ==
    /\ Served /\ Waited
    /\ Draw
    /\ lockKey' = Decrypted(lockKey, Encrypted(lockKey, fresh'))
    /\ lockState' = b
    /\ UNCHANGED <<ecb, connected, activeSlot, offered, slotVars, main>>

\* Mutant: an EID write is accepted whatever the lock state.
WriteEidLocked(ecdh) ==
    /\ connected
    /\ Draw
    /\ LET w == [ecdh |-> ecdh, block |-> Encrypted(lockKey, fresh')]
       IN  buffer' = [buffer EXCEPT ![activeSlot] = w]
    /\ isEid' = [isEid EXCEPT ![activeSlot] = TRUE]
    /\ queue' = Append(queue, activeSlot)
    /\ UNCHANGED <<lockState, lockKey, ecb, connected, activeSlot, offered,
                   ik, exposed, main>>

\* Mutant: a slot that is an EID already is not scheduled to be built.
WriteEidOnce(ecdh) ==
    /\ Served
    /\ Draw
    /\ LET w == [ecdh |-> ecdh, block |-> Encrypted(lockKey, fresh')]
       IN  buffer' = [buffer EXCEPT ![activeSlot] = w]
    /\ isEid' = [isEid EXCEPT ![activeSlot] = TRUE]
    /\ queue' = IF isEid[activeSlot] THEN queue ELSE Append(queue, activeSlot)
    /\ UNCHANGED <<lockState, lockKey, ecb, connected, activeSlot, offered,
                   ik, exposed, main>>

\* Characteristic 10, an EID: stored, and left to the main loop.
WriteEid(ecdh) ==
    /\ Served
    /\ Draw
    /\ LET w == [ecdh |-> ecdh, block |-> Encrypted(lockKey, fresh')]
       IN  buffer' = [buffer EXCEPT ![activeSlot] = w]
    /\ isEid' = [isEid EXCEPT ![activeSlot] = TRUE]
    /\ queue' = Append(queue, activeSlot)
    /\ UNCHANGED <<lockState, lockKey, ecb, connected, activeSlot, offered,
                   ik, exposed, main>>

\* Characteristic 10, nothing, a single zero or a TLM: only the type byte
\* changes and the EID is destroyed.  The frame_set of a TLM, like that of any
\* frame but an EID, changes nothing here and is not queued.
ClearSlot ==
    /\ Served
    /\ isEid[activeSlot]
    /\ isEid' = [isEid EXCEPT ![activeSlot] = FALSE]
    /\ ik' = [ik EXCEPT ![activeSlot] = 0]
    /\ UNCHANGED <<lockState, lockKey, ecb, connected, activeSlot, offered,
                   buffer, exposed, queue, main, fresh>>

\* eddystone_security_unlock_prepare of challenge c.
Prepared(c) == [clear |-> c, cipher |-> Encrypted(lockKey, c)]
\* eddystone_security_unlock_verify
Verified(token) == token = ecb.cipher

\* Mutant: the challenge is handed out before the key block encrypts it.
ReadUnlockUnprepared ==
    /\ connected /\ ~Unlocked /\ Waited
    /\ Draw
    /\ offered' = fresh'
    /\ ecb' = [ecb EXCEPT !.clear = fresh']
    /\ UNCHANGED <<lockState, lockKey, connected, activeSlot, slotVars, main>>

\* Characteristic 7, read: random_challenge_generate and unlock_prepare.
ReadUnlock ==
    /\ connected /\ ~Unlocked /\ Waited
    /\ Draw
    /\ offered' = fresh'
    /\ ecb' = Prepared(fresh')
    /\ UNCHANGED <<lockState, lockKey, connected, activeSlot, slotVars, main>>

\* Characteristic 7, write: unlock_verify.  The client holds the lock key.
WriteUnlock ==
    /\ connected /\ ~Unlocked /\ offered # 0
    /\ IF Verified(Encrypted(lockKey, offered))
       THEN lockState' = UNLOCKED /\ offered' = 0
       ELSE UNCHANGED <<lockState, offered>>
    /\ UNCHANGED <<lockKey, ecb, connected, activeSlot, slotVars, main, fresh>>

-----------------------------------------------------------------------------
(* The main loop: frame_set of an EID *)

\* Mutant: the event stays in the queue.
FrameSetKeepsEvent ==
    /\ main.at = "idle" /\ queue # <<>>
    /\ main' = IF isEid[Head(queue)]
               THEN [at |-> "derive", slot |-> Head(queue),
                     write |-> buffer[Head(queue)], key |-> lockKey]
               ELSE main
    /\ UNCHANGED <<lockState, lockKey, ecb, connected, activeSlot, offered,
                   isEid, buffer, ik, exposed, queue, fresh>>

\* frame_set copies the write to its stack; for a slot that is no EID any
\* more it changes nothing here.
FrameSet ==
    /\ main.at = "idle" /\ queue # <<>>
    /\ queue' = Tail(queue)
    /\ main' = IF isEid[Head(queue)]
               THEN [at |-> "derive", slot |-> Head(queue),
                     write |-> buffer[Head(queue)], key |-> lockKey]
               ELSE main
    /\ UNCHANGED <<lockState, lockKey, ecb, connected, activeSlot, offered,
                   isEid, buffer, ik, exposed, fresh>>

\* The key is decrypted, under the lock key found before or after an
\* interrupt, and MSG_EID makes the slot an EID.
Derive ==
    /\ main.at = "derive"
    /\ \E k \in {main.key, lockKey} :
           ik' = [ik EXCEPT ![main.slot] = Derived(k, main.write)]
    /\ isEid' = [isEid EXCEPT ![main.slot] = TRUE]
    /\ main' = [main EXCEPT !.at = "load"]
    /\ UNCHANGED <<lockState, lockKey, ecb, connected, activeSlot, offered,
                   buffer, exposed, queue, fresh>>

\* MSG_IK: encrypted_eid_id_key_get in its two steps ...
Load ==
    /\ main.at = "load"
    /\ ecb' = [ecb EXCEPT !.clear = ik[main.slot]]
    /\ main' = [main EXCEPT !.at = "encrypt"]
    /\ UNCHANGED <<lockState, lockKey, connected, activeSlot, offered, slotVars, fresh>>

Encrypt ==
    /\ main.at = "encrypt"
    /\ ecb' = [ecb EXCEPT !.cipher = Encrypted(lockKey, ecb.clear)]
    /\ main' = [main EXCEPT !.at = "copy"]
    /\ UNCHANGED <<lockState, lockKey, connected, activeSlot, offered, slotVars, fresh>>

\* Mutant: the result goes to the active slot.
CopyToActive ==
    /\ main.at = "copy"
    /\ exposed' = [exposed EXCEPT ![activeSlot] = ecb.cipher]
    /\ main' = Idle
    /\ UNCHANGED <<lockState, lockKey, ecb, connected, activeSlot, offered,
                   isEid, buffer, ik, queue, fresh>>

\* ... and the copy of its result to the slot, encrypted_eid_id_key_set.
Copy ==
    /\ main.at = "copy"
    /\ exposed' = [exposed EXCEPT ![main.slot] = ecb.cipher]
    /\ main' = Idle
    /\ UNCHANGED <<lockState, lockKey, ecb, connected, activeSlot, offered,
                   isEid, buffer, ik, queue, fresh>>

-----------------------------------------------------------------------------
(* The specification *)

Interrupt ==
    /\ InterruptAllowed
    /\ \/ Connect
       \/ Disconnect
       \/ \E n \in 0 .. NumSlots : WriteActiveSlot(n)
       \/ \E b \in LockBytes : WriteLockState(b)
       \/ \E b \in LockBytes : WriteLockCode(b)
       \/ \E ecdh \in BOOLEAN : WriteEid(ecdh)
       \/ ClearSlot
       \/ ReadUnlock
       \/ WriteUnlock
MainLoop == FrameSet \/ Derive \/ Load \/ Encrypt \/ Copy

Next == Interrupt \/ MainLoop
Spec == Init /\ [][Next]_vars

\* The main loop runs whenever no event is being handled.
FairSpec == Spec /\ WF_vars(MainLoop)

-----------------------------------------------------------------------------
(* Properties *)

TypeOK ==
    /\ lockState \in LockBytes /\ lockKey \in Nat
    /\ ecb \in [clear : Nat, cipher : Blocks]
    /\ connected \in BOOLEAN /\ activeSlot \in Slots /\ offered \in Nat
    /\ isEid \in [Slots -> BOOLEAN]
    /\ buffer \in [Slots -> EidWrites]
    /\ ik \in [Slots -> Nat] /\ exposed \in [Slots -> Blocks]
    /\ queue \in Seq(Slots) /\ main \in MainStates /\ fresh \in Nat

\* While a client holds a challenge, the token it will answer with is the one
\* the beacon compares with (eddystone_security.h:46, "the result of the
\* encryption is compared with the provided unlock token").
OfferedTokenUnlocks ==
    offered # 0 => ecb.cipher = Encrypted(lockKey, offered)

\* Once its exchange is over, the key a client reads back from an EID slot is
\* the key the slot's EIDs are computed from (eddystone_security.h:125).
ExposedKeyIsSlotsKey ==
    \A s \in Slots : isEid[s] /\ ~Pending(s) => exposed[s].text = ik[s]

\* The identity key of a slot is the one its client had sent, encrypted with
\* the lock key of that moment (eddystone_security.h:73).
KeyAsGiven ==
    \A s \in Slots : isEid[s] /\ ~Pending(s) /\ buffer[s] # NoWrite
                     => ik[s] = buffer[s].block.text

\* A beacon with no client is locked, unless its last client wrote a Lock
\* State byte other than UNLOCKED.
NobodyLeavesItOpen == ~connected => lockState # UNLOCKED

\* While the beacon is locked its lock key and what clients wrote stay, and an
\* identity key changes only by an exchange that was accepted before.
LockedMeansFrozen ==
    [][lockState = LOCKED =>
         /\ lockKey' = lockKey /\ buffer' = buffer
         /\ \A s \in Slots : ik'[s] # ik[s] => Pending(s)]_vars

\* The main loop gets to every exchange that waits for it and ends it.
ExchangesEnd == []<>Quiet

-----------------------------------------------------------------------------
(* Documented, and not so: TLC refutes this for patient clients too.         *)

\* Writing a new lock code locks the beacon (eddystone_ble_handler.c:517,
\* "transition to lock state and update the lock code").
LockCodeLocks == [][lockKey' # lockKey => lockState' = LOCKED]_vars
=============================================================================
