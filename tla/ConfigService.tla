--------------------------- MODULE ConfigService ---------------------------
(***************************************************************************)
(* The requests of a client to the Eddystone configuration service: its    *)
(* characteristics and the dispatch of their events (ble_ecs.c), the gate  *)
(* of the lock, the replies and the long writes (eddystone_ble_handler.c). *)
(*                                                                         *)
(* A client has one request open at a time.  The SoftDevice answers it     *)
(* itself, or asks the program and waits for its one reply; a request that *)
(* gets no reply blocks the link until it times out, and a second reply    *)
(* fails.  Handlers run in the SoftDevice event interrupt, so that a       *)
(* request and its reply are one action.  A long write is prepared in      *)
(* parts, which the SoftDevice keeps, and executed at once.                *)
(*                                                                         *)
(* What a request does to power and frame of a slot is SlotPower's.  The   *)
(* interval is AdvIntervals', the keys are LockService's: those requests   *)
(* are answered here.  A failed APP_ERROR_CHECK resets the chip, as when   *)
(* the link is lost before a reply: it starts anew in an initial state.    *)
(***************************************************************************)
EXTENDS SlotPower

CONSTANTS
    PrepareChars,   \* the characteristics clients write in parts
    CancelsAsked,   \* is the program asked when a client cancels a long write?
    MaxWrites       \* bound: writes of slots and powers in a behaviour

\* A long write of another characteristic is dispatched as a plain write of it.
ASSUME PrepareCharsAssumption ==
    PrepareChars \subseteq {"rw_adv_slot", "factory_reset", "remain_cnntbl"}
ASSUME CancelsAskedAssumption == CancelsAsked \in BOOLEAN
ASSUME MaxWritesAssumption == MaxWrites \in Nat

VARIABLES
    connected,
    lock,       \* the Lock State characteristic; "EMPTY" has length zero
    active,     \* the Active Slot characteristic
    prepared,   \* the parts of a long write the SoftDevice keeps
    sending,    \* ghost: the long write the client is sending
    value,      \* the RW ADV Slot characteristic
    holds,      \* [Slots -> contents]: frame_write_buffer[1..]
    replies,    \* to the last request: 0, the link is blocked; 2, one failed
    last,       \* ghost: [Slots -> write]: the last one let through to each
    writes      \* writes of slots and powers so far

serviceVars == <<connected, lock, active, prepared, sending, value, holds,
                 replies, last, writes>>
vars == <<powerVars, serviceVars>>

\* The client numbers its writes, and every part of one carries its number: 0 is
\* the zeroes of a part that is missing.  A plain write is as two parts.
Numbers == 0 .. MaxWrites
Contents == [head : Numbers, tail : Numbers]
Values == [type : Types, contents : Contents]
LockValues == {"LOCKED", "UNLOCKED", "NORELOCK", "EMPTY"}
\* A long write has up to two parts, and its first byte is the type.
Missing == [head |-> 0, tail |-> 0]
NoParts == [char |-> "none", type |-> "UID", contents |-> Missing]
Prepared == [char : PrepareChars \cup {"none"}, type : Types, contents : Contents]

\* What the client knows of a write: its number, and how many of its parts were
\* accepted.  Its contents are theirs.
Sent == [number : Numbers, parts : 0 .. 2]
Nothing == [number |-> 0, parts |-> 0]
Plain(n) == [number |-> n, parts |-> 2]
ContentsOf(sent) ==
    [head |-> sent.number, tail |-> IF sent.parts = 2 THEN sent.number ELSE 0]

\* services_and_modules_init: a locked beacon, and the default frame as value.
Init ==
    /\ PowerInit
    /\ connected = FALSE /\ lock = "LOCKED" /\ active = 0
    /\ prepared = NoParts /\ sending = Nothing
    /\ value = [type |-> "UID", contents |-> Missing]
    /\ holds = [s \in Slots |-> Missing]
    /\ replies = 1
    /\ last = [s \in Slots |-> Nothing]
    /\ writes = 0

-----------------------------------------------------------------------------
(* The characteristics: may a client read and write, must the program be     *)
(* asked, may the length vary?                                               *)

Characteristic(read, write, rd_auth, wr_auth, vlen) ==
    [read |-> read, write |-> write, rd_auth |-> rd_auth, wr_auth |-> wr_auth,
     vlen |-> vlen]

brdcst_cap   == Characteristic(TRUE, FALSE, TRUE, FALSE, TRUE)
active_slot  == Characteristic(TRUE, TRUE, TRUE, TRUE, FALSE)
adv_intrvl   == Characteristic(TRUE, TRUE, TRUE, TRUE, FALSE)
radio_tx_pwr == Characteristic(TRUE, TRUE, TRUE, TRUE, FALSE)
adv_tx_pwr   == Characteristic(TRUE, TRUE, TRUE, TRUE, FALSE)
\* Mutant: the program is asked for a read it has no branch for.
lock_stateAsked == Characteristic(TRUE, TRUE, TRUE, TRUE, TRUE)
lock_state   == Characteristic(TRUE, TRUE, FALSE, TRUE, TRUE)
unlock       == Characteristic(TRUE, TRUE, TRUE, TRUE, TRUE)
pub_ecdh_key == Characteristic(TRUE, FALSE, TRUE, FALSE, TRUE)
eid_id_key   == Characteristic(TRUE, FALSE, TRUE, FALSE, TRUE)
rw_adv_slot  == Characteristic(TRUE, TRUE, TRUE, TRUE, TRUE)
factory_reset == Characteristic(FALSE, TRUE, FALSE, TRUE, FALSE)
remain_cnntbl == Characteristic(TRUE, TRUE, FALSE, TRUE, FALSE)

\* ble_ecs_init
Service ==
    [brdcst_cap |-> brdcst_cap, active_slot |-> active_slot,
     adv_intrvl |-> adv_intrvl, radio_tx_pwr |-> radio_tx_pwr,
     adv_tx_pwr |-> adv_tx_pwr, lock_state |-> lock_state, unlock |-> unlock,
     pub_ecdh_key |-> pub_ecdh_key, eid_id_key |-> eid_id_key,
     rw_adv_slot |-> rw_adv_slot, factory_reset |-> factory_reset,
     remain_cnntbl |-> remain_cnntbl]
Chars == DOMAIN Service

-----------------------------------------------------------------------------
(* The dispatch of the SoftDevice's questions                                *)

\* on_write: the handles of six characteristics are looked at before the kind
\* of write, those of three after it.  The execution of a long write and its
\* cancellation name no characteristic.
WriteEvent(c, op) ==
    IF c \in {"active_slot", "adv_intrvl", "radio_tx_pwr", "adv_tx_pwr",
              "lock_state", "unlock"} THEN c
    ELSE IF op \in {"prepare", "execute"} THEN op
    ELSE IF c \in {"rw_adv_slot", "factory_reset", "remain_cnntbl"} THEN c
    ELSE "none"

\* on_read
ReadEvent(c) ==
    IF c \in {"brdcst_cap", "active_slot", "adv_intrvl", "radio_tx_pwr",
              "adv_tx_pwr", "unlock", "pub_ecdh_key", "eid_id_key",
              "rw_adv_slot"} THEN c
    ELSE "none"

\* ble_eddystone_is_unlocked: of an empty value it returns a stack byte, the
\* same in each call of one handler.
Unlocked == IF lock = "EMPTY" THEN BOOLEAN ELSE {lock # "LOCKED"}

\* Mutant: the parts of a long write pass the lock.
LetsThroughLongWrites(unlocked, event) ==
    event \in {"prepare", "execute"} \/ unlocked = (event # "unlock")
\* A locked beacon serves the unlock characteristic, an unlocked one the others.
LetsThrough(unlocked, event) == unlocked = (event # "unlock")

\* The client's turn: it is connected, no request is open, and an interrupt may
\* hit the main loop.
InterruptAllowed == main.at = "idle" \/ Preempt
MayRequest == connected /\ replies = 1 /\ InterruptAllowed
Reply(n) == replies' = n /\ UNCHANGED connected

\* Both handlers reply once at their end, if on_write or on_read calls them.
HandlerReplies(event) == IF event = "none" THEN 0 ELSE 1

\* What a request may change besides SlotPower's variables.
valueVars == <<value, holds, last>>
longVars == <<prepared, sending>>
\* A long write is over.
NoLongWrite == prepared' = NoParts /\ sending' = Nothing

-----------------------------------------------------------------------------
(* Connections                                                               *)

Connect ==
    /\ ~connected /\ InterruptAllowed
    /\ connected' = TRUE
    /\ active' = 0
    /\ UNCHANGED <<powerVars, lock, longVars, valueVars, replies, writes>>

\* on_ble_evt relocks; of an empty value it reads a stack byte.
Disconnect ==
    /\ connected /\ InterruptAllowed
    /\ connected' = FALSE
    /\ lock' \in CASE lock = "UNLOCKED" -> {"LOCKED"}
                   [] lock = "EMPTY" -> {"LOCKED", "EMPTY"}
                   [] OTHER -> {lock}
    /\ NoLongWrite
    /\ replies' = 1
    /\ UNCHANGED <<powerVars, active, valueVars, writes>>

-----------------------------------------------------------------------------
(* Reads                                                                     *)

\* The SoftDevice answers alone, or asks ecs_read_evt_handler.
Read(c) ==
    /\ MayRequest /\ Service[c].read
    /\ Reply(IF Service[c].rd_auth THEN HandlerReplies(ReadEvent(c)) ELSE 1)
    /\ UNCHANGED <<powerVars, lock, active, longVars, valueVars, writes>>

-----------------------------------------------------------------------------
(* Writes                                                                    *)

\* A plain write of c that the lock lets through: the common reply is the only
\* one, and the value is the SoftDevice's to write.
Writes(c) == /\ MayRequest /\ Service[c].write
             /\ \E u \in Unlocked : LetsThrough(u, WriteEvent(c, "write"))
             /\ Reply(HandlerReplies(WriteEvent(c, "write")))

\* One that it does not let through.
DeniedWrite(c, op) ==
    /\ MayRequest /\ Service[c].write
    /\ \E u \in Unlocked : ~LetsThrough(u, WriteEvent(c, op))
    /\ Reply(HandlerReplies(WriteEvent(c, op)))
    /\ UNCHANGED <<powerVars, lock, active, longVars, valueVars, writes>>

\* Mutant: the index is stored as it came.
WriteActiveSlotUnchecked(n) ==
    /\ Writes("active_slot")
    /\ active' = n
    /\ UNCHANGED <<powerVars, lock, longVars, valueVars, writes>>

\* Boundary checking: an index past the last slot is the last slot's.
WriteActiveSlot(n) ==
    /\ Writes("active_slot")
    /\ active' = IF n > NumSlots - 1 THEN NumSlots - 1 ELSE n
    /\ UNCHANGED <<powerVars, lock, longVars, valueVars, writes>>

WriteRadioTxPwr(p) ==
    /\ Writes("radio_tx_pwr") /\ writes < MaxWrites
    /\ SetRadioTxPwr(active, p)
    /\ writes' = writes + 1
    /\ UNCHANGED <<lock, active, longVars, valueVars>>

\* "lock" and "disable" are the two valid bytes, "code" is a byte and a key,
\* whose byte is not looked at.  An empty write has its byte changed and stays
\* empty.
LockWrites == {"lock", "disable", "code", "empty", "other"}
WriteLockState(w) ==
    /\ Writes("lock_state")
    /\ w = "empty" => Service["lock_state"].vlen
    /\ lock' \in CASE w = "disable" -> {"NORELOCK"}
                   [] w = "code" -> {"LOCKED", "UNLOCKED", "NORELOCK"}
                   [] w = "empty" -> {"EMPTY"}
                   [] OTHER -> {"LOCKED"}
    /\ UNCHANGED <<powerVars, active, longVars, valueVars, writes>>

\* A token that matches unlocks.
WriteUnlock(matches) ==
    /\ Writes("unlock")
    /\ lock' = IF matches THEN "UNLOCKED" ELSE lock
    /\ UNCHANGED <<powerVars, active, longVars, valueVars, writes>>

\* Nothing SlotPower knows of.
WriteOther(c) ==
    /\ c \in {"adv_intrvl", "adv_tx_pwr", "factory_reset", "remain_cnntbl"}
    /\ Writes(c)
    /\ UNCHANGED <<powerVars, lock, active, longVars, valueVars, writes>>

\* The contents of v are copied to the active slot.
Copies(v) == holds' = [holds EXCEPT ![active] = v.contents]

\* A write of one byte, or of none, copies no contents: it sets a TLM or clears
\* the slot.
HasContents(t, l) == l = "wrong" \/ (l = "right" /\ t # "TLM")
WriteRwAdvSlot(t, l) ==
    /\ Writes("rw_adv_slot") /\ writes < MaxWrites
    /\ l = "zero" => t \in StackGarbage \cup {"UID"}
    /\ SetRwAdvData(active, t, l)
    /\ LET sent == Plain(writes + 1)
       IN  /\ value' = [type |-> t, contents |-> ContentsOf(sent)]
           /\ IF HasContents(t, l)
              THEN Copies(value') /\ last' = [last EXCEPT ![active] = sent]
              ELSE UNCHANGED <<holds, last>>
    /\ writes' = writes + 1
    /\ UNCHANGED <<lock, active, longVars>>

-----------------------------------------------------------------------------
(* Long writes: the replies of the handler's branches are its only ones      *)

\* Mutant: the handler replies once more at its end.
LongRepliesTwice == 2
\* long_write_overwrite_flag
LongReplies == 1

\* The client's next part: of the write it is sending, or the first of another.
NextPart == IF sending.parts = 0 THEN [number |-> writes + 1, parts |-> 1]
            ELSE [sending EXCEPT !.parts = @ + 1]

\* A part is served, and the SoftDevice keeps it with the one before.
Prepare(c, t) ==
    /\ MayRequest /\ c \in PrepareChars /\ sending.parts < 2
    /\ sending.parts = 0 => writes < MaxWrites
    /\ prepared.char # "none" => c = prepared.char /\ t = prepared.type
    /\ \E u \in Unlocked : LetsThrough(u, WriteEvent(c, "prepare"))
    /\ sending' = NextPart
    /\ prepared' = [char |-> c, type |-> t,
                    contents |-> IF prepared.char = "none"
                                 THEN [Missing EXCEPT !.head = NextPart.number]
                                 ELSE [prepared.contents EXCEPT !.tail = NextPart.number]]
    /\ writes' = IF sending.parts = 0 THEN writes + 1 ELSE writes
    /\ Reply(LongReplies)
    /\ UNCHANGED <<powerVars, lock, active, valueVars>>

\* The value of RW ADV Slot when the SoftDevice has written the parts.
Written == IF prepared.char = "rw_adv_slot"
           THEN [type |-> prepared.type, contents |-> prepared.contents]
           ELSE value

\* Every execution sets the active slot to a value of the length of an exchange.
ExecuteValue(v) ==
    /\ MayRequest /\ prepared.char # "none"
    /\ \E u \in Unlocked : LetsThrough(u, WriteEvent(prepared.char, "execute"))
    /\ SetRwAdvData(active, v.type, IF v.type = "EID" THEN "right" ELSE "wrong")
    /\ Copies(v)
    /\ value' = Written
    /\ last' = IF prepared.char = "rw_adv_slot"
               THEN [last EXCEPT ![active] = sending] ELSE last
    /\ NoLongWrite
    /\ Reply(LongReplies)
    /\ UNCHANGED <<lock, active, writes>>

\* Mutant: the value is read before the reply lets the SoftDevice write it.
ExecuteEarly == ExecuteValue(value)
\* The reply comes first, the SoftDevice writes the parts, and the handler reads
\* the value.
Execute == ExecuteValue(Written)

\* The lock refuses the execution, and the parts are dropped.
DeniedExecute ==
    /\ MayRequest /\ prepared.char # "none"
    /\ \E u \in Unlocked : ~LetsThrough(u, WriteEvent(prepared.char, "execute"))
    /\ NoLongWrite
    /\ Reply(HandlerReplies(WriteEvent(prepared.char, "execute")))
    /\ UNCHANGED <<powerVars, lock, active, valueVars, writes>>

\* The client gives a long write up, and the SoftDevice answers alone or asks.
Cancel ==
    /\ MayRequest /\ prepared.char # "none"
    /\ NoLongWrite
    /\ Reply(IF CancelsAsked THEN HandlerReplies(WriteEvent("none", "cancel")) ELSE 1)
    /\ UNCHANGED <<powerVars, lock, active, valueVars, writes>>

-----------------------------------------------------------------------------
(* The system                                                                *)

Write ==
    \/ \E n \in 0 .. NumSlots : WriteActiveSlot(n)
    \/ \E p \in Powers \cup OtherPowers : WriteRadioTxPwr(p)
    \/ \E w \in LockWrites : WriteLockState(w)
    \/ \E matches \in BOOLEAN : WriteUnlock(matches)
    \/ \E t \in Types, l \in Lengths : WriteRwAdvSlot(t, l)
    \/ \E c \in Chars : WriteOther(c) \/ DeniedWrite(c, "write")

LongWrite ==
    \/ \E c \in PrepareChars, t \in Types : Prepare(c, t)
    \/ \E c \in PrepareChars : DeniedWrite(c, "prepare")
    \/ Execute \/ DeniedExecute \/ Cancel

Interrupt == Connect \/ Disconnect \/ (\E c \in Chars : Read(c)) \/ Write \/ LongWrite

BuildFrames == Build /\ UNCHANGED serviceVars
RotateEid(s) == Rotate(s) /\ UNCHANGED serviceVars
MainLoop == BuildFrames \/ \E s \in Slots : RotateEid(s)

Next == Interrupt \/ MainLoop
Spec == Init /\ [][Next]_vars

\* The main loop runs whenever no event is handled.  The EID of an occupied slot
\* is due again and again, and update_time takes the slots in turn, so that no
\* EID keeps another from its turn.  Nobody has to connect, or to leave.
FairSpec == Spec /\ WF_vars(BuildFrames) /\ \A s \in Slots : SF_vars(RotateEid(s))

-----------------------------------------------------------------------------
(* Properties                                                                *)

TypeOK ==
    /\ PowerTypeOK
    /\ connected \in BOOLEAN /\ lock \in LockValues
    /\ active \in Slots /\ prepared \in Prepared /\ sending \in Sent
    /\ value \in Values /\ holds \in [Slots -> Contents]
    /\ replies \in 0 .. 2
    /\ last \in [Slots -> Sent] /\ writes \in Numbers

\* Every request a client may make, in any state of the lock and of a long
\* write, gets exactly one reply: none blocks the link, and no second reply
\* resets the chip.
OneReply == replies = 1

\* The contents of a slot are those of the last frame a client wrote to it that
\* was let through: all the parts of it that were accepted and none of another's,
\* also when long writes of one slot and plain writes of another come between,
\* when a part is refused, and when a long write is given up, denied or cut off.
SlotHoldsItsWrite == \A s \in Slots : holds[s] = ContentsOf(last[s])

\* A locked beacon accepts neither a frame nor a power, whatever was prepared
\* before it was locked.
LockedFreezesSlots ==
    [][lock = "LOCKED" => UNCHANGED <<power, holds, last>>]_vars

\* Once its client is done, an EID slot with a wrong ranging byte gets the
\* right one at a rotation.
EidRangingHeals ==
    \A s \in Slots : occupied[s] /\ second[s] # power[s]
                     ~> ~occupied[s] \/ second[s] = power[s]

-----------------------------------------------------------------------------
(* Documented, and not so: TLC refutes these two, OneReply with              *)
(* CancelsAsked, and SlotHoldsItsWrite if other characteristics are written  *)
(* in parts.                                                                 *)

\* A slot set by a long write holds all the bytes its length says
\* (eddystone_ble_handler.c:552, "Long writes to the RW ADV Slot
\* characteristic for configuring an EID frame"): a client that executes too
\* early has the missing bytes filled with zeroes.
LongWritesAreWhole == \A s \in Slots : holds[s].tail = holds[s].head

\* A write of the lock state that is not valid locks
\* (eddystone_ble_handler.c:524, "Any invalid values locks the characteristic
\* by default"): an empty one leaves the value without a byte.
InvalidValuesLock == lock # "EMPTY"
=============================================================================
