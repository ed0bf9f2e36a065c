# Keypr: a verification of the firmware and the phone app

Keypr is a USB security key on an ESP32-S3 that is meant to answer a login only
after a phone, connected over Bluetooth Low Energy, has agreed.  This directory
holds TLA+ modules that model the firmware (`src/firmware`) and the scanner of the
phone app (`src/mobile-app`), TLC configurations that check them on small
instances, and TLAPS proofs about them for every instance.  `PROJECT.json` lists
the components, the runs, the lines of source each definition models, the hazards
and the theorems.

Paths below are under `src/firmware/` unless they say otherwise.

## Inventory

| Component | Source | State it keeps | Operations |
|---|---|---|---|
| Boot and main loop | `main/main.cpp` | none | `setup`, `loop` |
| USB HID transport | `main/usb_hid.cpp` | one-packet mailbox, `rx_state` | `_onOutput` (USB task), `usb_hid_task`, `handle_packet`, the send helpers |
| CTAP2 commands | `main/ctap2.cpp` | locals of the running command | makeCredential, getAssertion, getInfo, reset |
| CBOR | `main/ctap2.cpp:26-183` | none | write, read, skip |
| Credential store | `main/storage.cpp` | flash namespace "fido2", `initialized` | init, store, find, update counter, reset |
| BLE link and trust | `main/ble_context.cpp`, `main/ble_keypr.cpp` | flash namespace "ble" (`t_connected`, `has_trusted`, `mac`), `phone_connected` | init, and the connect, authenticate and disconnect callbacks |
| BLE question and answer | `main/ble_phone.cpp` | `newMsg`, `msg`, `msg_size` in "ble", the value of the characteristic | `onWrite`, `ble_send`, `ble_wait_for_response` |
| Cryptography | `main/crypto.cpp` | generator of random numbers | random, key pair, sign, authenticator data |
| Phone app | `src/mobile-app/`, `SimpleBLEManager.swift` | `isScanning`, `isDeviceFound` | start and stop of the scan, the two CoreBluetooth calls, the cool-down |
| Website, pico-fido copy, disassembly | `src/website/`, `src/test_picofido/`, `firmware.s` | | a static page, vendored firmware, a generated file: not part of the key |

**Threads of control.**  The Arduino loop task runs `usb_hid_task` and, inside
it, a whole CTAP2 command, which waits up to five seconds for the phone.  The USB
task runs `_onOutput`.  The NimBLE host task runs the BLE callbacks.  The loop and
USB tasks share the packet mailbox, the loop and host tasks the flash namespace
"ble" and the value of the one characteristic; nothing is locked.

**Calls.**  `loop` → `usb_hid_task` → `handle_packet` → `ctap2_process` →
`ctap2_make_credential` (→ crypto, `storage_store_credential`) or
`ctap2_get_assertion` (→ `ble_send`, `ble_wait_for_response`, the store, crypto),
and back → `ctaphid_send_cbor_response` or `ctaphid_send_error`.

**What is hard**, and what would make each part correct:

- *Store.*  Slots are found by linear search and the counter is written to the
  first slot with the identifier.  Correct if no two slots ever share an
  identifier, nothing but a reset forgets a credential, and a full store refuses
  without touching a slot; with a flash that may refuse any write or not open at
  boot, and power that may go at any time.
- *Commands.*  Store, counter and signature are separate effects.  Correct if an
  acknowledged registration is in flash, an assertion speaks for a credential of
  the relying party that asked, and its counter never goes back, whatever fails
  between two of them.
- *Transport.*  One mailbox, two tasks, messages of several packets on several
  channels, no timeouts, lost packets.  Correct if the command that is run is one
  message of one application, whole and in order, its answer reaches that
  application, and whatever the mailbox takes is handled.  Down at the bytes: every
  length, the ones that fill a packet exactly included, and a buffer that is never
  cleared.
- *Phone link.*  Three callbacks and a write callback interleave with a polling
  loop over a namespace that is wiped at boot, while bonds are not.  Correct if only
  the trusted phone stays, a question is granted only on something a peer wrote
  since boot, a rejected phone makes room for the next, and every wait ends.
- *CBOR.*  Pointers and lengths are read out of nested maps whose order, members and
  lengths the client chooses, and whatever is not wanted has to be skipped.  Correct
  if the parser stands at a key after every entry, ends with what the client meant,
  and everything the key writes is one item a client can read.
- *Phone app.*  Calls wait on a queue while Bluetooth is switched, the key moves and the
  system ends and restarts the app.  Correct if the user is notified once per
  cool-down, and again and again as long as the key is near.
- *Together.*  Correct if no assertion reaches credentials, counters or keys
  without a consent and every getAssertion ends; and if each message of an
  application has its command run once, whatever was given up or in the mailbox when
  power failed, and the application is told how its own command ended.

## Modules

The modules are written so that the same text is checked and proved: parameters
are constants with named assumptions, and a component has one action per operation
or per step at which another task or a failure can come in.  No module declares a
recursive operator: a loop of the code is an action that is taken once per round.

| Module | Models | Uses |
|---|---|---|
| `Storage` | `storage.cpp` | |
| `CredentialVault` | what the store promises | |
| `Ctap2` | `ctap2.cpp`, commands | extends `Storage` |
| `CborItems` | `cbor_write_*`; CBOR messages as clients know them: items, how they lie in a buffer, what is inside what | |
| `Cbor` | `ctap2.cpp`, reader, the two parsers and all responses; `crypto.cpp`, layout of authenticator data | extends `CborItems` |
| `BlePhone` | `ble_context.cpp`, `ble_keypr.cpp`, `ble_phone.cpp` | |
| `Keypr` | `main.cpp` and the calls between commands and phone | extends `Ctap2`, `BlePhone` |
| `CtapHid` | `usb_hid.cpp`, mailbox, reassembly, dispatch, answers | |
| `Framing` | `usb_hid.cpp`, fragmentation byte for byte | |
| `System` | `main.cpp` and the calls between transport and commands | extends `Ctap2`, `CtapHid` |
| `PhoneScan` | `SimpleBLEManager.swift` | |
| `*Proofs` | theorems about the module they extend | `KeyprProofs` and `SystemProofs` also those about their halves |
| `*MC` | values for the constants of the runs | |

In every module an operator above a definition that its comment calls a *mutant*
is the same definition with a plausible bug, named for the bug.  It is part of no
specification; `PROJECT.json` says which property it violates when it takes the
place of the original.

### Storage and CredentialVault

`nvs` is a function from the slot numbers whose key is present to the blobs; an
absent key is one for which `getBytesLength` is 0.  `initialized` is RAM.  Each
search is the set of slots it may stop at, and the loop upwards takes the minimum.
A blob is written whole or not at all, and every write may fail.  `StoreSpec` drives
the operations with a caller that stores fresh identifiers; `UsesStore` says the
commands are such a caller, and is checked (run `ctap2`) and proved.  The vault is a
set of credentials with distinct identifiers, bounded in number, forgotten only all
at once; `VaultSpec` is the refinement with `Contents` for the set.

### Ctap2

`pc` is the step of the running command: makeCredential is parse, `keygen`,
`store`, `attest`; getAssertion is `ask`, `find`, `count`, `sign`.  The cuts are
where flash, cryptography or power can fail between two effects.  Parsing is its
outcome, an allow list is a sequence of identifiers of which the code keeps the
last, and `OtherLength` stands for any identifier not 32 bytes long.  `drawn`,
`acked`, `counted` and `failed` (has flash refused anything yet?) are history.
`crypto_random` is taken to draw 32-byte identifiers that do not repeat.

### BlePhone

Every access to the shared namespace or to the value of the characteristic is a
step: `onWrite` is one read and three writes, `ble_send` and
`ble_wait_for_response` are eight steps, `Poll` to `LowerFlag` for the second.
`stage` is the callback NimBLE has to run next for the one connection; the radio
(`PeerConnects`, `LinkDrops`, `PeerWrites`) is external.  `ble_context_init` never
installs the write callback of `ble_phone.cpp`: `Builds` says which firmwares are meant, and
`installed` which of them runs: FALSE is the firmware as built, TRUE the same code
with the callback in use; each statement says which it is about.  A message of a peer
has at most the 32 bytes of the buffer getAssertion reads it into (`BUF_LEN`,
`MessageAssumption`): the buffer's length is not handed on (`ctap2.cpp:436`,
`ble_phone.cpp:54`), and what the code does with a longer one is not modelled.

### Keypr

Conjoins the halves at the three moments they share: power comes (`setup`), power
goes, and getAssertion calls into the phone link (`AskPhone`, `TakeAnswer`).
Everything else interleaves.

### CtapHid

`OnOutput` and `ReadPacket` copy the mailbox in three parts, because the loop task
lowers `packet_pending` before it reads `pending_packet` and the USB task may
write it meanwhile.  A part is several bytes, so a read of the part that is being
written gives the old bytes, the new, or some of each (`Seen`); mixed control bytes
can make a command of any length, which no host announced (`MixedControls`).  `answer`
is history: what was sent in reply to the packet taken last.
A payload is a sequence of chunks, a chunk is what one packet
carries; lengths count chunks, and none is beyond `MaxChunks`.  A PING is one packet: the code echoes
as many bytes as it announces (`usb_hid.cpp:537`), and announcements above what the
packet holds are not modelled.  The host (external) is one application per channel.  It is `patient` if it
waits until the firmware has dealt with a packet before it sends the next, and waits
for the answers to what it has sent; the protocol does not make it do so, and
`Patience` says which hosts the key may meet.  `Unplugged` is the loss of power: the
RAM is gone and the host's transactions with it.

### System

Conjoins transport and commands.  `setup` brings USB up before it opens the store,
so reports may wait in the mailbox before the loop runs (`plugged` and `pc = "off"`).
`Call` is the entry into `ctap2_process` with a complete message; which command the
message holds is left open, as the transport does not look at it.  `Answer` sends
what the command has returned, as CBOR if it succeeded and as an error if not.
`ran` is history: the messages whose command has been called.  Power fails between
any two steps of either half.  That the composition behaves, for each half, as the
half alone may is proved (`SystemIsHid`, `SystemIsCtap`) and not checked: the
actions are built that way.

### CborItems and Cbor

Byte for byte: heads and lengths are as on the wire.  A message is the items it consists
of with the bytes they lie in; an item is a head and the string after it, and the items
inside a map or a list are the next ones.  `owed[k]` is how many items are still to
come before item `k`, for the message to be one item with all that is inside: it falls by
one with every item and rises by what the item holds, which is what CBOR's nesting
comes down to.  `ChildrenOf`, `Keys` and `Under` read the tree out of it.  The name in
an assertion is written as a string of C (`CString`): it ends before its first zero.

The parser of a command sees none of that, only bytes and an offset.  Each of its
loops has a counter for the rounds it has to go (`left` for the request,
`elements` for an allow list, `pairs` for a map), and `pending` stands for the
recursion of `cbor_skip`: the heads still to be skipped, over all levels.  One round,
or one head, is one step.  The code's recursion of `cbor_skip` over `total` and the
counter agree because each call takes what the one before left over and nothing else happens
between them.  After a request is parsed the response is written, one `cbor_write_*` at a
time, and read back by `cbor_skip` (in place of the client's reader); makeCredential
composes its authenticator data first, in the same way, out of the public key's items.

The reference is `Meant`, which looks a field up in the items the client sent: under its
key in the request, or in one of the maps of a parameter; the last one counts.
`Requests` is any set of well-formed messages (`RequestsAssumption`), with four
restrictions on what clients send: parameters are numbered in one byte; strings stand
where the parser takes a string for granted; the names of members are texts; and the maps and
lists it goes into have less than 24 entries, as it does not read a number
that has bytes of its own (see the hazards).  What it skips may be anything with
lengths below 64 KiB but tags, floating-point numbers and integers of eight bytes.

### PhoneScan

One action per method of `SimpleBLEManager`, and the block it hands to `asyncAfter`.
CoreBluetooth, the key, the user's switch and the system that ends and restarts the
app are external; the calls CoreBluetooth makes wait on the main queue.  A cool-down
ends at any moment.

### Framing

`ctaphid_send_cbor_response` against the reassembly in `handle_packet`, with the
lengths, offsets, the 8-bit counters and the 7-bit field of the code.  (In the key
each of the two faces the driver of the host.)  A byte is known by its message and
its place in it, so that a stale, shifted or foreign byte is seen.  Two things are
assumed.  The lengths announced are bounded (`MaxLength`), by what the sequence numbers can
count; that they fit the 1200 bytes of `rx_state.payload` the code does not check, so
`payload` stands for the memory from the buffer's start on, and `CopiesInside` says that
a packet changes nothing behind the length announced: whether that is inside the
buffer is up to the host.  And no initialization packet is lost while the receiver
waits for the rest of another message (`LoseInitMidway` is FALSE): with it TRUE,
TLC shows the continuations of the second message taken for those of the first
when their numbers fit.

## Runs

| Run | Instance | What it shows |
|---|---|---|
| `ctap2` | 2 slots, 3 identifiers, 2 parties, counters to 2, allow lists to 1, flash and boot may fail | registrations last, assertions are own, counters never go back, and grow as long as flash has not failed; "full" is said only when every slot is taken; the store keeps identifiers unique and implements the vault |
| `ctap2_allow_list` | allow lists to 2 | *violation*: see Findings |
| `ble` | 2 phones, yes, no and empty answers, 2 polls, callback in use | trust, grants, and under fairness every wait ends and a rejected phone makes room |
| `ble_login` | 1 phone, 1 poll, callback as built | *violation*: see Findings |
| `framing` | packets with room for 2 and 4 bytes, 3 sequence numbers, lengths 0 to 14, 2 messages | messages stay whole, none is missing, nothing is written behind the announced length |
| `hid` | 2 channels, 2 messages of up to 3 packets, PING, patient hosts and others, answers may be lost, power may fail | from any host the mailbox is whole while it is full and the reassembly keeps in step; from a patient one, whole messages and each answer to its request |
| `hid_torn` | 2 channels, 2 messages of up to 2 packets | *violation*: see Findings |
| `system` | 1 channel, 3 messages of up to 3 packets, PING, 1 slot, 2 identifiers, flash and power may fail | every command runs once and its outcome is told; accepted packets are handled, complete requests answered |
| `keypr` | 1 slot, 1 phone, 1 poll, with the callback and as built | no assertion without an answer written since boot, none at all as built; every getAssertion ends |
| `cbor` | 4134 requests of two commands, 20 users, 6 counters, 3 signature lengths | the parser is in step and ends with what was meant; responses are one item and read back |
| `phone_scan` | 4 calls on the queue | while the app runs each notification waits for the cool-down of the one before; prompts go on unless Bluetooth went off under a scan |
| `phone_prompts` | 2 calls on the queue | *violation*: see Findings |

**Why the bounds are enough.**  Two slots and two parties give a free slot behind a
taken one, two credentials of one party, one of each, and a full store; a third
identifier gives the registration that finds it full.  Two counts show a counter
that repeats and one that is ahead of flash.  Two phones give a trusted and a
rejected one, in both orders over a reboot, with a bond left for either; two polls a
wait that goes on and one that ends, and the answer that comes at the last poll.  Two
channels give interleaved applications, three packets a first, a middle and a last, two messages
one that is given up and the one after it, or one on each channel, of which one may be a
PING.  In `system` three messages give one that is given up, one after it and
one after a failure of the power.  In `framing` the lengths run to the largest the sequence numbers can
count, with the edges of every packet on the way, and the second message meets every
state of the buffer the first may leave.  In `cbor` strings have the lengths at which a
head grows (0, 23, 24, 255, 256) and at which the code stops keeping them (64, 65), their
bytes look like maps, arrays and long strings, one name holds a zero, parameters are given, left out and
malformed, in both orders, among members the key does not know.  On the queue of
the phone app two reports behind a change of Bluetooth are all that can matter, as
each call takes the flags as it finds them.  What is bounded: `MaxCount`,
`MaxAllow`, `Polls`, `MaxMessages`, `MaxChunks`, `MaxLength`, `SeqNumbers`, `MaxEvents`.
Most theorems do away with the bounds (see Proofs).

**Deadlock** is checked except in `framing`, `hid`, `hid_torn` and `system`, where the
hosts come to the end of the messages the model lets them send, in `cbor`, where a
request ends with its answer, and in the runs of the phone app.

**Symmetry** is used in `ctap2` and the runs of the transport, which check no liveness.

**Fairness.**  Safety uses none.  `BleFairSpec` schedules the two tasks
(FreeRTOS runs a task that is ready: the loop task polls with `delay`, the callbacks
return) and lets a disconnection the firmware asked NimBLE for happen.
`SystemFairSpec` schedules `setup`, the loop task and the USB task, for the same
reason; nothing is asked of the host, which may never send again, or of the power.
`KeyprFairSpec` is fair to the loop task alone: no answer, connection or write is
assumed.  `ScanFairSpec` serves the main queue of the app, ends its cool-downs and lets a
scan hear a key that stays near; it asks nothing of Bluetooth, the key or the system.
`RequestIsAnswered` is about one channel.  With two, an initialization packet ends the
transaction of the other channel without a word, so its application would wait for
ever; no answer "busy" is ever sent (`CTAP2_ERR_CHANNEL_BUSY` is defined and not
used).  Its endpoint takes every packet: `sendPacket` gives an answer up after 200 ms,
and nothing repeats it.

## Findings

1. `ctap2_allow_list`: the code looks for the first credential of the relying
   party also when there is an allow list but its last identifier is not 32 bytes long
   (`main/ctap2.cpp:516-525`), and the answer then speaks for an identifier the list
   does not hold; the comment at line 523 and `include/storage.h:20` keep that for
   requests without a list.
2. `ble_login`: `ble_context_init` creates the characteristic and sets no
   callbacks on it (`main/ble_context.cpp:148`), so what the phone writes never
   reaches `newMsg` and the login of `README.md:66-71` cannot end in
   "Authenticated".  `AsBuiltNeverAsserts` and the theorem `NothingAssertedAsBuilt`
   show the other side: no assertion is ever made.
3. `hid_torn`: `usb_hid_task` lowers the flag before `handle_packet` reads the
   buffer (`main/usb_hid.cpp:627`), and a report that finds the flag up is dropped, so
   `ctap2_process` can be given parts of two packets as a command, under a length read
   from both.  `CommandsAreWhole` proves that
   hosts that wait for each packet to be dealt with are safe.
4. `phone_prompts`: the system ends a scan when Bluetooth goes off, without a call of
   `stopScan`; `isScanning` stays true, and the guard of `startScan` refuses every later
   start (`SimpleBLEManager.swift:47`), where line 27 speaks of "continuous prompting".
   `PromptsUnlessStuck` shows that nothing else keeps the app from prompting.

Other places where text and code part, seen while modelling and without a run of
their own: the counter is written before the assertion has succeeded
(`storage.h:28` says "after successful assertion") and its result is dropped, so
are the results of the reset and of every `sendPacket`; the status byte
`ctap2.h:8` promises at the start of every reply is not written where a command fails; PING is answered as a CBOR
message (`usb_hid.cpp:536`); user presence is always true (`ctap2.cpp:190-192`),
where `README.md` asks for the button; `ble_phone.cpp:60` writes the flag TRUE where
the answer has been taken; `SimpleBLEManager.swift:28` waits 20 seconds where its
lines 13, 60 and 83 say 10.

## Proofs

All proofs are for any value of the constants that meets the assumptions named
beside them: any number of slots, parties, identifiers, phones, messages and polls,
channels, any length of messages, any packet size above the headers, any requests.

- **Ctap2Proofs, the store.**  `StoreInv` adds to the types and `UniqueIds` that every
  blob is valid: a slot with an invalid blob would count as free, and storing into it
  would forget what it held.  The store maps to the vault step by step: a store to
  `Register` (one entry more, so there is room), a counter to `SetCount` (unique
  identifiers make the first match the only one), a reset to `Wipe`, the rest to a
  stutter.
- **Ctap2Proofs, the commands.**  `CtapInv` ties the step the command is at to what
  flash holds.
  Stored identifiers have been drawn (so a new one is new); a credential about to be
  stored is nowhere yet, one about to be acknowledged is stored; flash is at most one
  behind what was reported (`CountInv`), and the counter in RAM between what was
  reported and one more than flash (`FoundInv`).  None of the properties is inductive
  without them: that the counter never goes back after a refused write needs exactly
  `CountInv`.  `CommandsUseStore` maps every step to one of `StoreSpec` and so brings
  `ImplementsVault` along.
- **BlePhoneProofs.**  `BleInv` follows a message through the three writes: whatever
  `msg` holds was written since boot and is not empty (`putBytes` stores no empty
  blob), which is why no interleaving of the loop task's reads can grant without it.
  Without the callback the flag stays down and the wait never gets past its check.
- **KeyprProofs.**  The whole implements both halves (`KeyprIsCtap`, `KeyprIsBle`), so
  their invariants hold of it, and its flash is a vault (`KeyprKeepsVault`); `KeyprInv` adds that the halves agree on power and on
  whose turn it is, and that a grant does not rest on a refusal.
- **FramingProofs.**  `Place(k)` is where the k-th continuation starts.  Both sides
  are always at such a place (`ReassemblyInv`), which is what makes the offsets, the
  copies and the sequence numbers come out: a number that fits the seven bits never
  wraps, because `LengthAssumption` lets no message need more (one that fits the buffer
  needs 21 of the 128).  `FramingTypeCorrect` keeps the offsets within the message and
  `PacketsStayInside` the copies; that the message is within the buffer is not claimed.  `CurrentInv`
  says whose bytes the receiver holds, for `MessagesStayWhole`; `TogetherInv` that
  without losses the two sides agree how far they are, for `WhatArrivesIsPassedOn`.
- **CtapHidProofs.**  `HidInv` holds with any host: `MailInv` follows the three parts of
  a report into the mailbox, and `Announced` is all that is left of a torn packet (its
  announced length is not zero), which is just what the reassembly needs to keep in
  step.  `PatientInv` is about patient hosts.  There one packet is on its way at a time
  (`Turns`), and it is either the first of what its application is sending
  (`Opening`), the next one of what is being received (`Following`), or a command of one
  packet from an application without a transaction (`Apart`).  `Own` makes each of
  these a statement about the application's present transaction, if it has sent
  anything of it: an application that gives up and begins again has sent nothing, so
  the packet of its old message that is still on its way disturbs nothing.  That
  weaker form is what makes the invariant inductive.
- **SystemProofs.**  The whole implements both halves (`SystemIsHid`, `SystemIsCtap`), so
  `HidInv`, `PatientInv` and the invariants of the commands hold of it, and its flash is
  a vault too (`SystemKeepsVault`).  `Fresh` adds
  which messages may still be called: those being sent, carried and received, and at
  `ctap2_process` the one received until it is.  `CommandsRunOnce` is its
  last part; `OutcomesAreTold` needs also that no error of the transport ends a
  patient application's wait (`WaitsForAnswer`).
- **CborProofs.**  The five properties of the run, for every set of requests that meets
  `RequestsAssumption` (so for any nesting, order and length), every user the store has
  room for and every counter of four bytes.
  - *Heads and messages.*  What the reader makes of the bytes of a head is what was
    written (`HeadRead`, `StringRead`, `ItemRead`); an item has one parent and a value
    stands under one key (`OneParent`, `PairIsOnce`).
  - *The parser.*  `ParserInv` says that the parser stands at an item `k` with
    `owed[k] = 2 * left + elements + 2 * pairs + pending`, and for each loop that is
    under way inside which map or list it is (`Loops`).  `Within` is how a reader
    without a stack is inside of something: everything since its head was owed
    more than is owed when it will have ended.  `InStep` alone is not inductive: it
    speaks of the moments between two entries, and what brings the parser from one to the next is
    all that lies inside.  `GotUpTo` says that the pointers are those of the last strings
    before `k`, which needs that nothing the parser passes over holds a field
    (`NothingSentInside`).  One lemma per kind of round moves `Stands` on
    (`EntryString`, `MemberPass`, `ElementMap`, `StandsPassing` and the like), and one per
    action draws the conclusion (`MemberKeeps`).
  - *The writer.*  `WriterInv` says that what is written lies as the items of the response
    up to there and how long it may be by now (`KeyFrom`, `MakeFrom`, `GetFrom`, `InfoFrom`),
    which gives the bounds of the two buffers; when it is all written nothing is owed
    (`ResponseComplete`), so the reader ends where the bytes do.
- **PhoneScanProofs.**  `Cooldowns`: one cool-down runs exactly while the key counts as
  found, and none when the app does not run.  `RestsBetweenPrompts` follows: a
  notification comes only when no cool-down is pending and starts one.  It speaks of one
  run of the app (ended and launched again it may notify at once) and counts no seconds.

Also proved: `RefusedOnlyWhenFull` and `CountersGrow`, which speak of the time until flash
has failed for the first time (`failed`).

Proved and left out of the runs, because what the runs check implies it:
`CredentialsKept` and `AsBuiltNeverGrants`.

Only model-checked: everything with fairness (`GateEnds`, `RejectedIsDropped`,
`CommandEnds`, `AcceptedIsHandled`, `RequestIsAnswered`, `PromptsUnlessStuck`), which the
prover does not reach.

## Not modelled

- Cryptography: random identifiers, key pairs and signatures are outcomes.  The
  primitives are mbedTLS.
- The wrap of the 32-bit signature counter: `MaxCount` bounds it in a guard.  At one
  login a second it is more than a hundred years away.
- Requests with maps or arrays of 24 or more entries, which the parser takes for
  shorter ones.
- Lengths above the buffers they are copied with, none of which the code compares: CBOR
  messages announced longer than `rx_state.payload` (`usb_hid.cpp:552`, `:586`), by a host or in a
  torn packet; a PING announced longer than its packet (`usb_hid.cpp:537`); an answer of the phone
  longer than 32 bytes (`ctap2.cpp:436`).  The properties are about lengths that fit.
- A full getAssertion with the phone between the first packet and the answer in one
  module: `System` has the transport and the commands, `Keypr` the commands and the
  phone, and `Ctap2`, which both are proved to implement, is the interface.
- The question at makeCredential: there is none in the code.
- The views of the phone app, which hold no logic.
- The website (`src/website`) is a static page.  `firmware.s` is generated.
- `src/test_picofido` is a copy of another project's firmware with its libraries
  (mbedTLS, TinyCBOR and others), nothing of which is built into the key.  It is
  nearly all of the repository's lines: the modules cover most of the code that is the key's own
  and less than one per cent of the files under `src/`.

## What is left

Nothing of the key's own logic is without a model.  Two things would add to it:
`System` and `Keypr` in one module, with a phone that answers while the host gives
up, and `framing` with hosts that announce more than they send.
