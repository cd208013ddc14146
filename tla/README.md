# CommTrafficCenter in TLA+

CommTrafficCenter (CTC) moves messages between the processes of one card and,
over an RS-485 line, between two cards. This directory holds a TLA+ model of
it, the TLC configurations that check the model on small instances, and TLAPS
proofs of what matters most for instances of any size. Every definition is
translated from the C source; paths below are relative to `src/`, and the
`map` of `PROJECT.json` gives the lines of each definition.

## 1. The system

    application process                           daemon (server/main.c)
    +---------------------------------+           +------------------------------+
    | callers: wait_on, .._with_act   |           | exter_transmitter            |
    |     ^  syncers (msg_syncer.c)   |           |   message queue -> RS-485,   |
    |     |                           |           |   waits for the ack          |
    | event poster --> mailbox ring   |  local    |     ^ notify_recv            |
    |     ^  accept/recv    |         |  socket   |     |                        |
    |     |                 v         | <-------- | inter_transmitter            |
    |     |           event handler   |           |   RS-485 -> receiver ->      |
    |     |           process_event   |           |   msg_check -> local socket  |
    +-----|---------------------------+           +------------------------------+
          |  ctc_send_msg: local socket, or message queue to the daemon

| Component | State | Operations | What is hard | What makes it correct |
|---|---|---|---|---|
| **Mailbox ring** `app/msg_mailbox.c` | array of 64 packages, `front`, `rear` | `init_mailbox`, `push_mailbox`, `pop_mailbox`, `is_full`, `is_empty`, `get_msg_num`, `traverse_mailbox` | cursors that wrap, full against empty | it is a bounded FIFO queue; a listing shows only what was pushed |
| **Event syncers** `app/msg_syncer.c` | 64 syncers (`_is_valid`, `_on_event`, `_msg`, `_handle`, `_sync_data`), `syncers_lock`, a lock and a condition variable each | `wait_on`, `wait_on_with_act` (allocate, register, wait, copy or call the handler, free), `sync_event` (match, copy, signal) | two kinds of lock nested in both orders; `_msg` written outside its lock; a signal nobody waits for; timeouts; handlers that wait again | no syncer is shared or leaked; a caller gets the answer to its own event; packages bypass nobody; every call returns |
| **Event processor** `app/msg_handler.c`, blocking part of `msg_mailbox.c` | mailbox, `mailbox_lock`, `mailbox_cond` | poster loop (`post_event`), handler loop (`is_mailbox_empty`, `wait_post`, `fetch_mail`) | unlocked test before the wait, lost signals, full mailbox, initialisation inside the threads | what no syncer takes is kept in order and handled; the poster never blocks |
| **RS-485 receiver** `app/msg_util.c` | `msg_buff`, `rx_add_up_len`, `next_step`, `head_pos`, static `msg_len` | `try_recv_full_msg` (old and new protocol), `convert_old_to_new`, `msg_check`, `recv_msg_from_exter` | frames cut anywhere by `read`, two protocols, noise, a buffer that is reset in between | nothing is made up, duplicated or reordered; with pauses nothing is lost |
| **Transmitter daemon** `app/msg_transmitter.c`, `server/main.c` | two threads | RS-485 to local socket, message queue to RS-485 | start-up order of the threads, ack after forwarding | each message is forwarded once, each send gets its own ack |
| **RS-485 driver** `infra/rs485_util.c` | descriptors, `ack_syncer` | `send_to_rs485_sync`, `notify_recv`, `get_time_out_len`, `open_rs485` | ack before the wait, ack of another message, timeout arithmetic | success means the peer has answered |
| **Message queue** `infra/mq_util.c` | POSIX queue | open, send, receive | full queue, priorities | FIFO from applications to daemon |
| **Sender and routing** `app/msg_sender.c`, `matrix_register.c`, `utils/hw_info.c` | process table | `ctc_send_msg`, `ctc_send_old_msg`, `is_cross_dev`, `send_msg_to_local`, `send_msg_to_remote` | length limits, routing, retry of `connect` | a message goes to the right place or the call fails |
| **Framing** `app/msg_util.c` | none | `package_msg`, `calc_msg_xor`, `convert_new_to_old`, `check_485fcs`, getters | signed length byte, checksums | round trip of both conversions |
| Tracing, macros | none | logging | - | - |

`PROJECT.json` lists each with its status, and under `hazards` every place in
this code that is hard to test, with the properties that would notice.

## 2. Modules

| Module | What it models |
|---|---|
| `Mailbox` | the ring as operators on a record: one operator per C function |
| `MailQueue` | abstract specification: a FIFO queue of bounded length, whose calls report success |
| `MailboxRing` | a client that pushes and pops in any order, and the loop of `traverse_mailbox`; `Queue!QueueSpec` is the refinement |
| `Syncer` | the syncer pool: callers, poster, locks, condition variables |
| `EventProcessor` | extends `Syncer` and `Mailbox`: adds the mailbox, `deliver_mail` and the handler thread; `SyncSpec` is its abstraction |
| `RxParser` | the RS-485 receiver, byte by byte |
| `Startup` | extends `EventProcessor`: both threads from zeroed memory, `syncers_lock` as a futex, and the local socket packages come through |
| `Timeouts` | the two deadline computations as operators |
| `Relay` | abstract specification: what the daemon promises, with no threads, acknowledgements or descriptors; without a line it loses messages |
| `Transmitter` | the two threads of the daemon, the message queue, the RS-485 driver; `TheRelay!RelaySpec` is the refinement |
| `OldFrame` | the conversions of the old protocol as operators, with the widths of their integers |
| `Sender` | one message from the sending function to the process it is for |
| `MC*` | each of them for TLC (`MailboxRing` needs none) |
| `MailboxLemmas` | lemmas about the operations of the ring |
| `MailboxProofs`, `SyncerProofs`, `EventProcessorProofs`, `StartupProofs`, `RxParserProofs`, `TransmitterProofs`, `SenderProofs` | theorems and proofs |

Definitions keep the names of the C functions they stand for. Those named
"Mutant" in a comment are plausible mistakes (a forgotten reset, a wrong
boundary); no specification uses them. For each property `PROJECT.json`
("mutants") names one that, put in the place of the correct definition, makes
TLC find the property violated.

### Syncer

An action is a critical section, unless the section blocks inside:

| Code | Action |
|---|---|
| `wait_on`, `wait_on_with_act` entered | `Call`, or `CallFromHandler` from within a handler |
| `alloc_syncer`, `regist_event`, `free_syncer` | same name |
| `sync_act`/`sync_data` up to `pthread_cond_timedwait` | `BeginWait` |
| return of the wait | `Notify` (signal), `Timeout`, `SpuriousWake` |
| relock, ETIMEDOUT | `TimedOut` |
| relock, `memcpy` or handler, unlock | `BeginCopy`, `EndCopy` |
| `event_poster` receives | `Recv` |
| `sync_event` to the first half of the `memcpy` in `notify_handle`; second half; lock, signal, unlock | `sync_event`, `FinishCopy`, `Notify` |
| `post_event` goes on to the mailbox | `Delivered` (in `EventProcessor`: `deliver_mail`) |

Blocking on a mutex is a guard. The lock variables keep an owner only where a
lock is held from one action to the next. `notify_handle` copies to `_msg` with
`syncers_lock` but without the lock of the syncer, under which the caller
reads it: the copy is not atomic, so both sides take two steps, one per half.
What a call registers is in `Kinds`: a buffer, a handler, or nothing, if the handler is NULL
(`sync_act` then waits, and fails). `wait_on` without a buffer returns before
`alloc_syncer` and touches nothing, so it is no activation. `AllocInside`, `RegistInside` and
`FreeInside` are the sections under `syncers_lock` without the lock, which `Startup` models in its own way.
A caller is one activation of `wait_on`; a handler that calls `wait_on` is a
second activation the first one waits for (`nested`).

### EventProcessor

The steps of `Syncer` plus the mailbox. `mailbox_lock` is never held across a
blocking call, so `deliver_mail` is one action and `wait_post` two states
(`wait`, `asleep`). `fetch_mail` (`app/msg_mailbox.c:45`) pops nothing, writes
nothing to its argument and returns no value: its result is a free choice, and
`process_event` sees an all-zero package, `Blank`.

### RxParser

Bytes are numbers and the buffer a sequence. `pc = "parse"` is one round of the
`switch` of `try_recv_full_msg`, `pc = "read"` is the `read` at the head of the
loop, which returns any number of the bytes available. `Return` is every return of the
function and the `recv_msg_from_exter` around it: the next call clears the
buffer, and bytes already collected behind the frame are lost, as in the code.
`spaced` is chosen once: a peer that pauses (it sends when the receiver has
nothing left to read, no noise), or one that does not. `STEP_RECV_FULL` is no
state, because `try_recv_head` overwrites it with `STEP_RECV_HEAD` before it returns.

### Startup

Everything `EventProcessor` has, but `StartInit` is the zeroed memory of a new
process: no syncer is free, all are on event 0, and the locks are usable (a
zeroed `pthread_mutex_t` is an initialised one on Linux).

`init_syncers` initialises `syncers_lock` under threads that may hold it or sleep on it
(`app/msg_syncer.c:45`). A lock whose blocking is a guard would not show what that does, so here
it is the word glibc's `pthread_mutex_lock` and `pthread_mutex_unlock` work on:

| Variable | Is |
|---|---|
| `word` | `free`, `locked`, or `contended` (somebody may sleep) |
| `at` | where each thread is with the lock: `out`, `asleep`, `woken` and to try again, or `in` |
| `seen` | the syncer `alloc_syncer` found (line 73) and has not taken yet (line 75) |
| `left` | who slept on the lock when `init_syncers` zeroed the word |

Whoever finds the word not free makes it `contended` and sleeps; an unlock wakes a sleeper only if the word is `contended`.
After `InitSyncersLock` the word is free, whoever is inside, so a second thread may enter, and the unlock
of the first wakes nobody. A call preempted between `FindSyncer` and `TakeSyncer`
and another under the zeroed lock take the same syncer; `raced` tells such runs apart. A mutex has no
deadline: who is left asleep stays so until another thread, that contends later, happens to wake it.

| Code | Action |
|---|---|
| `init_syncers`, per syncer: lock and `_is_valid`; `_on_event`; the rest | `InitSyncersLock`, then `InitValid`, `InitEvent`, `InitRest` |
| `init_msg_mailbox` in the poster thread | same name |
| `get_comm_info_from_matrix`, `try_create_socket`, or the end of the thread | `try_create_socket` |
| `pthread_mutex_lock`, `pthread_mutex_unlock` on `syncers_lock` | same names |
| `alloc_syncer`: scan up to `_is_valid`; reset it and return; none found | `FindSyncer`, `TakeSyncer`, `NoSyncer` |
| `regist_event`, `free_syncer` inside the lock; the rest of a call | `UnderLock`, `OutsideLock` |
| `sync_event` with the lock it keeps across the copy | `PosterRuns` |
| `send_msg_to_local` in another process | `BeginSend`, `ConnectRefused` (repeated), `Connect`, `Send`, which may fail |
| `accept`, `recv` of a package; of nothing, when `send` has failed | `AcceptAndRecv`, `AcceptAndClose` |
| signal to a condition variable that was initialised after the handler slept | `DeliverToForgotten` |

`init_syncers` writes several fields without `syncers_lock`, so it is several
actions. `raced` remembers whether any of them hit a lock that was held or a
syncer that was in use. `regist_event`, `free_syncer`, and the scan of `sync_event` are one action
each even here: a second thread can be inside with them only after a race, and then the properties
claim nothing of what the syncers hold.

### Transmitter

| Code | Action |
|---|---|
| `transmit_msg`, `send_msg_to_mq` in an application | `transmit_msg` |
| `open_inter_comm`, `recv_msg_from_inter` | same names |
| `write` of `send_to_rs485` | `Write`, part of the next two |
| `send_msg_to_remote` without acknowledgement | `SendNoAck` |
| `send_to_rs485_sync`: lock and write; `get_time_out_len` and wait; end of the wait; relock, result, unlock | `SendSync`, `BeginWait`, `Timeout` / `SpuriousWake` / part of `notify_recv`, `EndSend` |
| `open_rs485` | `init_gpio`, `create_ack_ayncer`, `iomon_get_frs485_fd` |
| loop of `inter_transmitter` | `recv_msg_from_exter`, `send_msg_to_local`, `notify_recv` |
| kill and start of the daemon | `Restart` |

`written` is what was given to `write`, `onLine` what of it came out on the line: a message is lost when
`frs485_fd` is still 0, or is 255 after a failed `open`. `Relay` loses messages while it has no line
(`Lose`), and `lost` is mapped to the difference, so the refinement says which losses there are and that
there are no others.

`live` is true while the thread sleeps with a deadline to come, so that a signal
can reach it. Whether the deadline is to come is computed with
`get_time_out_len` from the clock reading `tp`; POSIX makes a wait with a
deadline in the past fail at once, so such a wait is never `live`. Before
`create_ack_ayncer` the condition variable is zeroed and goes by
`CLOCK_REALTIME`: `live` is then free. `Passing` are the frames
`recv_msg_from_exter` returns; finding 4 says that in this build there are none. The run
takes a set that is not empty, to say what the daemon does when `msg_check` looks at what it is given.

### Sender and OldFrame

`Sender` follows one message, with the arguments chosen in `Init`: `ctc_send_msg`
(which `ctc_send_sync_msg`, `ctc_send_asyn_msg` and `ctc_send_inter_msg` call)
or `ctc_send_old_msg`, then `send_msg_to_remote` in the daemon,
`try_recv_full_msg`, `msg_check` and `inter_transmitter` in that of the other
card. A checksum is a tuple of what it covers, so "the checksum is right" means
the same bytes were summed. `signed` says whether `char` is signed, which C leaves to the
platform: `AsInt` and `AsWord` are what a byte above 127 then becomes, and
`CopyDies` is `memcpy` with a negative length. `CheckMayPass` has the role of `Passing` above.

## 3. What TLC checks

| Run | Shows | Instance |
|---|---|---|
| `mailbox_ring` | the ring refines the FIFO queue, its cursors stay inside, the loop of `traverse_mailbox` agrees with `get_msg_num` | 4 slots, 2 packages: all positions of the cursors, all fillings, full and empty |
| `syncer` | ownership and registration of syncers, who gets which package, which packages go to the mailbox; that the two nested locks deadlock only in `LockCycle`, and then for ever | 3 callers, 2 syncers, a package for an event and one numbered 0xff, spurious wake-ups, handlers that wait, two deep; about 1.4 million states, 2.5 minutes |
| `syncer_live` | every `wait_on` and every `post_event` returns, a signalled call succeeds, no deadlock | 2 callers, 2 syncers, two packages for one event; no handlers that wait |
| `event_processor` | the mailbox keeps the oldest packages in order, a handler thread that has come to fetch mail does not sleep over it, and the whole refines `SyncSpec`, liveness included: a full mailbox or a sleeping handler thread holds up neither the poster nor a call | 1 caller, 3 packages for one event, mailbox of 2 |
| `rx_parser` | only sent frames come out, each once and in order; with pauses all of them do; the buffer does not overflow and `head_pos` stays on its keyword | up to 3 of: a new frame without data, a new frame ending in half a keyword, an old frame, half a keyword, an oversized header, silence; all ways to cut them in reads |
| `transmitter` | messages and frames are relayed in order, none twice, whatever the acknowledgements, the order of the start-up and the failing opens do; lost is only what is written before the port is open or after it could not be opened, and what a restart has in hand; SUCCESS means a frame came in, after it was passed on, and no frame counts twice; a frame counts only late in a second | 3 messages (2 with acknowledgement), 3 frames (1 that fails the check), a queue of 1, clocks at .65 and .95 of a second, 1 restart; about 1.3 million states, 3.5 minutes |
| `startup` | what holds while both threads initialise: registrations stay and answers are the right ones, unless a thread is inside the syncer, or inside the lock, being initialised; what is claimed without a caller, and what goes past one; that the threads stop only if one of them slept on `syncers_lock` when it was zeroed; in which two ways the handler thread comes to sleep over mail; that the result of `send_msg_to_local` is true | 1 caller, 2 syncers, packages for event 0 and another, 2 attempts to connect, a backlog of 1; about 426 000 states, 2.5 minutes |
| `sender` | a message arrives where it was sent to and as it was sent, or is refused; what an old message survives | data of 0, 1, 127, 128, 248, 249, 255 to 257, 4096 and 4097 bytes, events around 127 and 255, 5 destinations, both kinds of char |
| `syncer_lost`, `syncer_invalid_event`, `event_unhandled`, `rx_check` | the findings below | the same instances |

**Why the bounds are enough.** Callers are interchangeable and so are the
syncers but for their order. Two of each give one that matches first and one
that does not, contention for each lock, reuse of a syncer by another call, and
a handler with a nested call; a third caller is a handler inside a handler, which shows
that the lock cycle can close through any depth of nesting: with two, a `LockCycle` that looked
at the first nested call only would have passed. The proofs then hold for any number. The two
packages of `syncer` are of different events, so that one may come where the other is expected. Two packages for
one event are what it takes to overwrite `_msg` between the halves of a read: `syncer_live` and
`event_processor` have them, and that the reader still gets an answer to its own event is theorem
`SignalBringsOwnEvent`, for any packages. With four slots the ring has its cursors in every relative position. In
the parser three items give a frame that is cut, one that follows in the same
read, and noise before either; a buffer of 14 bytes is filled by two reads of silence.
Every bound is a constant of a cfg: `NumSyncers`, `Callers`, `Msgs`,
`MAX_MSG_NUM`, `MaxSent`, `PKG`. Each package of `Msgs` arrives at most once,
`MaxSent` bounds what the peer sends. In `transmitter` a third message shows
what follows one that was not acknowledged, and a queue of one place is full as
soon as it is not empty; the two clock readings lie on both sides of the last
300 ms of a second, the only thing theorem `AckWindow` leaves to the clock. In `startup` two syncers
give one that is initialised and one that is not; two attempts stand for the hundred
of `connect_socket`, since each but the last does the same. One call and the
poster are two threads for each lock, so one may hold `syncers_lock` and the other sleep when it is
zeroed. That two calls do not share a syncer needs two, and is what theorem `StartIsSafe` says for any
number; with two calls, one syncer and one package the instance has 849 000 states, in which the
invariants hold too, but it takes too long for the temporal properties. Their liveness is about one
call for another reason as well: a futex does not promise which of several sleepers an unlock wakes. `MaxRestarts`,
`ConnectTries` and `Backlog` are constants too. `MCSyncer` uses symmetry in the callers
only where nothing temporal beyond a step is checked.

**Deadlock** is checked in `mailbox_ring`, `syncer_live`, `event_processor` and
`startup`. In `transmitter` the model stops when nobody sends any more, in
`sender` when the message has arrived.
In `syncer` a handler that waits can deadlock the threads (`LockCycle`), so that
run says exactly when instead; in `rx_parser` the system stops when the peer
stops sending.

**Fairness.** `SyncFairness`: each thread in a call keeps running, including
the clock that ends its wait; the poster keeps running. Nobody has to call
`wait_on`, send a package, or be woken without a signal. Weak fairness is
enough for the locks because packages are finite in number, so the poster cannot
hold `syncers_lock` again and again for ever; that a mutex could starve a
caller under an endless stream of packages is outside the model. Where the code
would stop a thread (a deadlock) fairness does not help, and the property
fails, as the mutant that keeps a lock shows. `EventFairness` adds the handler
thread, `RxParser` the receiver thread. `Transmitter` assumes that each of its
two threads keeps running, which includes the clock reaching a deadline;
applications need not send, the other card need not answer, and the daemon may be
killed. `StartFairness` assumes the two threads of the process, and the
calls and senders that have begun. Of the poster it assumes in addition that it does not find
`syncers_lock` taken each time it is awake and tries (strong fairness): calls may come for
ever, and each is outside the lock most of the time. One that sleeps is not helped by that: it must be woken. `Sender` assumes that each step of the one message is taken.

## 4. Findings

1. **A package reported as synchronised reaches nobody** (`SyncedIsReceived`).
   `wait_on` registers, then waits without looking whether the package is there
   already, and does not look after ETIMEDOUT either; `sync_event` reports success in both cases.
2. **Event 0xff is swallowed** (`ClaimedIsAwaited`). `INVALID_UINT16` is cast
   to `uint8_t` (`utils/com_def.h:19`): idle syncers are registered for 0x00ff, an ordinary event.
3. **Mail is never handled** (`DirectIsHandled`). See `fetch_mail` above; a
   package that arrives between `is_mailbox_empty` and `wait_post` also wakes nobody.
4. **No received frame passes the check** (`ReceivedIsForwarded`). `msg_check`
   looks at a local all-zero message instead of its argument (`app/msg_util.c:405`).

Other facts the runs show, about which no document or comment says otherwise:

- `get_time_out_len` divides the nanoseconds by a number one zero short. In
  seven tenths of every second the deadline has passed before the wait begins, so the
  send fails however fast the other card answers (`AcknowledgedLateInSecond`, `AckWindow`).
- Any frame is an acknowledgement, also one the other card sent before the
  message, and one that is for another process. `SuccessIsAcknowledged` is what is left.
- A failed `open` of the port is 255, which `open_rs485` does not recognise, and the result of
  `write` is ignored.
- A call or a package that is inside a syncer when `init_syncers` gets to it
  loses its registration or its lock, and the answer then goes past it to the mailbox.
  `StartIsSafeUnlessRaced` and `FateAtStart` exclude exactly that, and are violated
  without the exclusion.
- A thread that sleeps on `syncers_lock` when `init_syncers` zeroes it is not woken by the one that had it,
  and may wait for ever: a poster, and then no package is posted any more, or a call. `StuckOnlyIfLeft`
  and `SendResultHolds` except such a thread; without the exception TLC shows it.
- A message written before `open_rs485` is done, or after it failed, is lost, and one that asked for no
  acknowledgement is a success all the same (`ImplementsRelay` says that no others are lost).
- An old message of more than 127 bytes kills the daemon where `char` is signed;
  `MAX_EXT_MSG_LEN` allows 256, and 256 bytes are sent as none. Its receiver
  is process 1, which is not in `comm_matrix`.

A handler given to `wait_on_with_act` that itself calls `wait_on` can
deadlock the process (`LockCycle`). Nothing in the repository says whether a
handler may do that, so it is a fact about the code and not a finding.

## 5. What is proved

`MailboxProofs`, for every `MAX_MSG_NUM >= 1` and every set of packages, from
`RingAssumption`: `TypeCorrect`, `ListedWasPushedAlways`, `RingIsMailQueue`,
that the ring implements `MailQueue`, and `TraverseIsTheWalkAlways` (`TraverseIsTheWalk`). The type
invariant is inductive and carries the refinement; that only pushed packages are
listed is inductive together with it. The core is lemmas about the listing: a push appends to it, a pop takes its head,
each by splitting on whether a cursor wraps, which keeps `%` out of the rest.
They are in `MailboxLemmas`, because the event processor needs them too.
All of them speak of the listing as a closed form, which the loop of `traverse_mailbox` is not:
`WalkIs` says that the equation of the loop has a solution, since the listing from each slot is
one, and `WalkFrom` that it has no other. The second is an induction on the distance from the slot to `rear`
(`get_msg_num` falls by one with each round, so the loop stops), done as the least distance at which
a solution differs, because the induction theorems of the library cannot be instantiated.

`SyncerProofs`, for any number of callers, syncers, packages and events, with
or without spurious wake-ups and nested handlers, from `SyncerAssumption` and
`NullIsNoSlot`. The inductive invariant `IInv` is

- `TypeOK`;
- `Placement`: a call holds a syncer exactly between `alloc_syncer` and its return (`Places`); while the
  poster is inside `notify_handle` it holds `syncers_lock` and its syncer is on the event of its package
  (`Matched`);
- `SlotOwnership` and `RegistrationIntegrity`;
- `Unregistered`: a syncer allocated but not registered yet still has the values `free_syncer` left;
- `Contents`: the halves of `_msg` the poster has written are of its package, and at each `pc` of a
  signalled call, the halves it has yet to read and those it has read are of its event.

Without `Unregistered`, `regist_event`, which writes only one of the handler and
the buffer, could leave the other one of an earlier call. Without `Contents`
nothing relates the data a caller reads to the event it waits for. `Placement`
carries the argument that `syncers_lock`, held from `sync_event` to `Notify`,
keeps `free_syncer` and `regist_event` out while a package is being copied, so
the syncer the poster writes to is still on the event it matched.
`Invariance` proves it step by step, one case per action. From it follow

- `TypeCorrect`, `ExclusiveSyncers` (`SlotOwnership`), `StableRegistrations`
  (`RegistrationIntegrity`), `SignalBringsOwnEvent` (`SignalledGetsOwnEvent`);
- `NoForeignAnswer` (`SpuriousSeesNoOtherEvent`), with one more invariant, `Seen`: what a syncer
  holds, and what a call was given, is zero, or of the event the syncer or the call is on, or of
  `INVALID_EVENT`;
- the action properties `NoForeignWrite` (`WrittenOnlyDuringItsCall`),
  `AwaitedIsNotDirect` (`DirectOnlyWhenUnawaited`), `ClaimedForAWaiter` (`SyncedHadWaiter`);
- what the nested locks can come to: `OnlyDeadlock` (`StuckOnlyInLockCycle`), `NoDeadlockUnnested` (without
  handlers that wait, and so in the event processor, there is no deadlock at all) and
  `DeadlockIsForever` (`LockCycleIsForever`).

The deadlock theorems need a second invariant, `LInv`:

- `LocksHeld`: between two steps only the poster in `notify_handle` has `syncers_lock`, and only the call that reads
  a syncer has its `_lock`;
- `NestedRun`: a call that waits for a nested one is inside its handler, and the nested one runs;
- `Grounded`: every set of calls has one that waits for none of the set. A call that begins waits for
  nobody yet, so no cycle of nested calls is ever closed.

Suppose every thread in the middle of a call is blocked. Whichever call one starts from, `Grounded` gives an innermost
one inside it, which waits for no nested call; by `LocksHeld` and `Alone` the `_lock` of its syncer is free, so it
waits for `syncers_lock`, which the poster has. The poster is blocked too, so it wants
a `_lock` some handler runs under; the innermost call of that handler is the second half of the
cycle. `Inside`, the calls nested in a call to any depth, is written as the least closed set: a
recursive definition could not be used in the proof. `Stuck` lists what blocks each thread.

`EventProcessorProofs`, for any of the above and any ring: the processor is built from the steps of `Syncer`, so
its initial states and steps are those of the pool or stutters (the lemma `ProcessorDoesWhatSyncerSays`);
`IInv` holds in it, and with it the invariants of the pool (`SyncersInProcessor`). `ProcessorTypeCorrect` follows from it.
`FirstAreKept` (`MailboxKeepsTheFirst`) needs `MailInv`:

- `Posting`: the package the poster has in hand has no fate before `sync_event` or
  `notify_handle` gave it one, and is `direct` when `deliver_mail` takes it; without this
  a package could be delivered twice, or be `direct` and never delivered;
- `Listed` and `DirectIsDelivered`, the two halves of the property.

`NeverAsleepOverMail` (`NoSleepOverMail`) rests on `AwakeWithMail`: mail in the box and
the handler thread in `check` or `fetch` is stable, since nothing is ever popped. It says nothing of a thread
that has found the mailbox empty and is about to wait: that one can sleep over mail, and `SleepsOverMailForReason` of the run
`startup` says when.

`StartupProofs`, from `StartupAssumption` and all of the above, begins with zeroed memory instead of an
initialised pool, and its lock is the futex. A step inside the lock is one of `Syncer` without the guard on
`syncers_lock`, so only part of the lemmas of `SyncerProofs` serve again. The invariant has two parts.
`Base` holds whatever `init_syncers` interferes with:

- the types, and where a call holds a syncer (`Places`);
- `Futex`: if the word is not free, somebody is inside; and if somebody sleeps who did not sleep when the word was
  zeroed, the word is `contended` or a woken thread is on its way;
- `LockPlaces`: where in the code a thread is when it is not `out`, and that who has the `_lock` of a syncer reads that syncer.

`Proper` holds as long as `init_syncers` wrote to nothing in use (`~raced`):

- `OneInside`: at most one thread is inside `syncers_lock`, and `SeenIsFirst`: what it found is still the first
  syncer to be had;
- `Exclusive` and `UnbornIsFree`: nobody holds a syncer that can be taken, or one `init_syncers` has not
  set free yet;
- `Matched`, `Registers`, `Unsunk` (a syncer without a registered call points to nobody) and `Contents`, as in `Syncer`;
- `EventsAreWanted` and `Claim`: a syncer is on `INVALID_EVENT`, on event 0 until `init_syncers` writes
  it, or on the event of its call, and `sync_event` found its match for one of these reasons.

From them follow `StartIsSafe` (`StartIsSafeUnlessRaced`) and `FateHasReason` (`FateAtStart`).
`StartStuckOnlyIfLeft` (`StuckOnlyIfLeft`) needs `Base` only: suppose all are held up, and none of them was left asleep. Who has the `_lock` of a
syncer is reading and is not held up, so nobody has one, and the thread in the middle of a call must sleep on `syncers_lock`. By `Futex`
somebody is then inside it or woken; either can go on, since inside it nothing is waited for but the `_lock` of a syncer.
`StartTypeCorrect` (`StartTypeOK`) and `FailedIsNeverPosted`, the safety half of `SendResultHolds`, have
invariants of their own for the threads (`ThreadTypeOK`), the connections (`SocketTypeOK`) and the
results (`Sends`: a package is with the poster only if its sender was told `SUCCESS`; when `send` fails after
`connect`, the poster closes the connection).
`StartupAssumption` asks for one syncer at least: with none, the model of the loop of `init_syncers`
would enter a round the code does not.

`RxParserProofs`, from `ParserAssumption`, for any bytes in any pieces: `RxTypeCorrect`
and `HeadStays` (`HeadStaysOnKeyword`). The inductive invariant is both of them and `LengthIsThere`, that
the length byte of an old frame has arrived when the parser waits for the rest
of it. It has one lemma per function: a return leaves an empty buffer, what
`get_msg_head` finds stands there, and `read` only appends, so it still does.
`ConvertedIsAPackage` says that `convert_old_to_new` reads nothing behind the frame.

`OnlyFramesArrive` (`OnlySentFrames`) and `FramesArriveInOrder` (`ReceivedIsPrefix`) are about the stream as a whole,
and have the hypothesis `CleanLine`: a frame is one of the new or the old protocol with the length it says, or
noise, and keywords stand at the start of frames only, not inside one and not where one
ends and the next begins. Without it they are false, since nothing in either protocol escapes a keyword in the data: a line on
which a frame contains another has two readings. TLC evaluates `CleanLine` for the frames of the run (`MCRxParser`). The
invariant is `Cut`: there are

- a sequence `str`, all the bytes ever sent, and offsets `off` at which each frame lies in it (`Laid`);
- a position `p` where the call under way began to read, such that `msg_buff` and what is still on the wire
  are `str` from there on (`ReadFrom`): nothing is skipped while a call lasts;
- indices `at`, increasing, of the frames that were returned, all of which end before `p` (`Taken`).

No induction over the stream is needed, since a step only appends a frame to `str`, moves bytes from the
wire to the buffer, or ends the call and puts `p` where the buffer ended. What carries the step that returns a package: a
keyword in the buffer is one in `str`, so by `CleanLine` it starts a frame, and the length read from it is
that of this frame and not of a later one; the frame starts at `p` or behind it, so it was not returned before. For the peer that pauses, `Paused` says
with the same `str` and `off` that the call began exactly behind the last frame returned, that at most one frame
is on its way (`InStep`), and that a receiver with nothing to read has returned all of them.

`TransmitterProofs` begins with module `Timeouts`, for every clock reading: `WaitDeadlineIsExact`, that the deadline
of `wait_on` is exactly `time_ms` later and a valid `timespec`;
`AckDeadlineIsNeverLater` and `AckWindow`, that the deadline of an
acknowledgement is never late and lies ahead exactly in the last 300 ms of a
second. Each splits on whether the nanoseconds carry into the seconds.

Of the daemon, from `TransmitterAssumption`, it has two invariants. `AckInv` (`AcksInvariant`) is

- `Typed`: `TransmitterTypeOK`, and at each `epc` and `ipc` what the thread has in hand;
- `Once`: a message waits in the queue, or is in work, or has a result, and no two of these;
- `Fresh`: a frame waits at the port, or is in hand, or was handed over, and no two of these;
- `Acks`: a frame that ended a wait was handed over before and ended no other, and so will the one that
  `notify_recv` has in hand; a message whose wait is going on was written.

From it follow `TransmitterTypeCorrect`, `SuccessNeedsAFrame` (`SuccessIsAcknowledged`), and `DaemonRelays`,
the safety half of `ImplementsRelay`: each step, under the mapping of `TheRelay`, is
one of `Relay` or a stutter. Without `Fresh` a frame could end two waits, and without `Once` a message that
is written could have its result already. `LateAcknowledgementsOnly` (`AcknowledgedLateInSecond`) has the
invariant `Timely`: `AckWindow` settles the deadline; the rest is the start-up. A
zeroed condition variable may sleep on any deadline, so `Timely` says that
no frame is on its way before `create_ack_ayncer`: the path on which `init_gpio` fails
skips the port together with the condition variable (`NoFramesBefore`), and
initialising it forgets the sleeper (`SleepsLate`).

`SenderProofs`, from `SenderAssumption`. `RoundTrip`, for every package and either kind of char: what
carries it is that a convertible length survives the byte, the char and the
offset it goes through (`SmallLength`), and the event number likewise.
`OldMessagesArrive` (`OldArrivesIntact`), `MessagesArriveAsSent` (`DeliveredAsSent`) and
`SenderTypeCorrect` follow from invariants (`OldInv`, `Sent`, `Packed`) which say, for each place, how the
message there is computed from the arguments of the call; they are needed
because `at = "received"` alone says nothing of where the package came from.
`MessagesArriveAsSent` assumes that no process of `comm_matrix` has the number 1:
it knows only process 100 (`app/matrix_register.c`), and with a process 1 every old message would reach
it, whatever its destination, so the property would be false.

**Only model-checked.** Every invariant of the runs is stated by a theorem, and every action property but
`SleepsOverMailForReason`. Liveness stays with TLC: `WaitReturns`,
`PostReturns`, `SignalledSucceeds`, `AllAreReceived`, `AcceptedIsDelivered`,
and the liveness halves of `SendResultHolds`, `ImplementsSyncer` and `ImplementsRelay`; the safety halves of the first and the last are
`FailedIsNeverPosted` and `DaemonRelays`. No theorem here uses fairness.

## 6. Not modelled, and limits

- The models of `Syncer` and `EventProcessor` start when initialisation is
  done; `Startup` is about what happens before.
- A mutex or condition variable that is initialised while in use is taken to
  be free afterwards: that is what glibc's initialisation writes. POSIX leaves it undefined. Whoever
  sleeps on the condition variable is not woken by a signal any more, until its deadline if it has one; who sleeps on
  `syncers_lock` has none (see `Startup`). No call can hold a syncer before its `_lock` is initialised, and only the poster delivers
  mail: so nobody sleeps on those locks when they are initialised, and blocking on them stays a guard.
- `Startup` has no handlers that wait and no spurious wake-ups of calls (`Syncer` has both).
- In `Transmitter` handing a frame to a local process is one step, and the local process
  never dies; `frs485_fd = -1` and `close_rs485`, `close_msg_queue` are in no
  reachable path. With no port open, `read` has descriptor 0 or 255 and no frame arrives.
- `Sender` follows one message: several are the matter of `Transmitter` and `RxParser`.
- The getters of `app/msg_util.c` (`get_src_info` and the like) read fields of
  the package behind a pointer to its data; they change nothing.
- In `EventProcessor` handlers do not call `wait_on` (`NestedCalls = FALSE`);
  `Syncer` covers that.
- A package is a value, or two halves of one where it is copied without a
  lock. The socket delivers it whole; a short `recv` is not modelled, and neither is one that fails
  with a package in the socket: no signal handler interrupts it.
- In `RxParser` a `char` is unsigned (`Sender` has both kinds). In its runs no frame has a
  keyword in its data, which the theorems about the stream assume too (`CleanLine`) and the others do not, and the line itself neither loses nor changes bytes: frames have no
  checksum the receiver looks at, so nothing could be said of changed ones.
- In `Syncer` the 250 ms of `set_time_out_ms` are the action `Timeout`, possible at any time.
- Logging, sockets, files and serial-port settings are input and output only.

## 7. Plan

Done: 1 `Mailbox`, `MailQueue`, `MailboxRing`; 2 `Syncer`; 3 `EventProcessor`;
4 `RxParser`; 5 proofs of the ring and of the syncer pool; 6 `Timeouts` with its
theorems; 7 `Relay` and `Transmitter` with a theorem; 8 `Startup`; 9 `OldFrame` and `Sender` with theorems;
10 proofs of the remaining invariants of `Transmitter`, and that it implements `Relay`;
11 of those of `Sender`; 12 of those of `EventProcessor`, and that it does what `Syncer` says;
13 `RxTypeOK` and `HeadStaysOnKeyword` of `RxParser`; 14 the safety properties of `Startup`.
15 `StuckOnlyInLockCycle` from the guards of the steps, without `ENABLED`, and its proof for any depth
of nesting; 16 `OnlySentFrames` and `ReceivedIsPrefix` for any stream on a clean line; 17 the second half of `FateAtStart` for
`Startup`; 18 the loop of `traverse_mailbox`; 19 `syncers_lock` of `Startup` as a futex that is zeroed in use, with
its theorems, and `send` that fails; 20 messages lost for want of a port in `Relay` and `Transmitter`.

What would come next: a parser whose line is not clean, to say which frames survive a keyword in their
data; several messages through `Sender` at once; a starving mutex under an endless stream of packages.
