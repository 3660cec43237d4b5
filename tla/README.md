# Self-organizing boards: a TLA+ model

The program lets identical boards organise themselves: whoever finds the bus
silent claims the role of coordinator, everybody else joins and is given an id.
One state machine (`shared/core/node.c`) runs on Arduino boards over a serial
wire and, unchanged, in a simulator with one thread per node.

## The system

| Component | State | Operations | Modelled by |
|---|---|---|---|
| Node state machine, `shared/core/node.c` | role, id, election nonce, next id, JOIN nonce, time of last JOIN | `node_init`, `node_begin` (jitter, listen, claim, conflict window, HELLO + JOIN), `node_service` (defend, assign, accept, retry) | `Node`, `NodeProperties`; all boards together: `Registry` |
| JOIN deduplication, `coordinator_seen_nonce` | `seen_join_nonce[32]`, `seen_count` | search, record, overwrite | `JoinDedup`, `DedupTable` |
| Frames, `shared/core/proto.*` | none | constructors, checksum, validity, byte order | `Proto` (types and fields), `WireFormat` (bytes) |
| Bus contract, `shared/core/bus_interface.h` | none | create, send, receive with timeout | `BroadcastBus`, `FrameChannel` |
| Simulated bus, `shared/platform/sim/bus_sim.c` | a ring, mutex and condition per node, a global mutex, `g_num_nodes` | init, create, send, receive, shutdown | `SimBus` |
| Simulation driver, `sim/main.c` | `running` flags, threads, buses | create, spawn, stop, join, free; the loop of a thread | `SimMain` |
| UART bus, `bus_arduino.c`, `bus_uno_r4.c` | the serial receive buffer | serialise, find start of frame, read bytes with timeouts, validate | `UartBus`; its lost frames are `Lose` in `Node` |
| Hardware abstraction, `hal_*.c` | start time | clock, delay, random numbers, log | countdowns, `Tick` and free choice in `Node`; a clock that wraps in `UartBus` |
| Sketch, `AutoSort.ino` | none of its own | `setup`, `loop` | `PowerOn` and the steps of `Node`; `setup` of the port in `UartBus` |
| Serial monitor, Makefile, docs | - | - | not modelled: no part in the protocol |

A node talks to the others through `bus_send` and `bus_recv` only. Frames are
broadcast. `node_begin` blocks for one to several seconds and `node_service` is called in a loop;
each of them reads the clock, so the hard questions are about what arrives when:

* **Election.** Several nodes may listen, claim and decide at the same time; a
  frame may arrive on either side of a deadline, and a late board may claim
  while a coordinator is being made. Correct: at most one coordinator; never
  everybody giving way; the highest nonce wins; the incumbent is not overtaken.
* **Joining.** JOINs are repeated every 250 ms, so the coordinator sees
  duplicates; ASSIGNs are heard by everyone, late ones too, and sent once. Correct: an id
  belongs to the JOIN it answers, no id is held twice, one JOIN gets one id, an
  answer is not lost on its way, everybody ends with a role.
* **The dedup table.** Bounded, and never emptied. Correct: no false duplicate,
  no duplicate missed while the table remembers, and it remembers the newest.
* **The simulated bus.** One sender walks over all queues while readers run.
  Correct: one total order, nothing lost before a ring is full, no lost
  wake-up, nothing used after it is freed, and shutdown ends.
* **The UART bus.** Bytes are lost, changed or invented, a board restarts in the
  middle of a frame, the receive buffer overflows, the clock wraps, and each byte
  has its own timeout. Correct: the parser finds the frames again and then hands
  over every one whole, once and in order; it stores no more than a frame holds;
  every call ends.

`PROJECT.json` lists these hazards line by line with the properties that cover them.

## The modules

`Node` is the core. One step is what the code does between two points where
another node can interfere.

| Code | Action |
|---|---|
| `setup`, `node_init`, or a thread's start | `PowerOn` (or `Booted` initially) |
| `node_begin`: end of the jitter delay, first assignments | `Begin` |
| Phase 1, one `bus_recv` / the deadline | `ListenRecv` / `ListenTimeout` |
| Phase 2, the CLAIM is sent | `SendClaim` |
| Phase 3, one `bus_recv` that yields / does not / the deadline | `ConflictYield` / `ConflictIgnore` / `ConflictTimeout` |
| Phase 4 | `BecomeCoordinator`, inside the last two |
| Phase 5, HELLO, then JOIN | `SendHello`, `SendJoin` |
| `node_service` of a coordinator: CLAIM, new JOIN, known JOIN | `DefendClaim`, `AssignId`, `IgnoreDuplicateJoin` |
| `node_service` of a seeking node: its ASSIGN | `AcceptAssign` |
| any frame without a branch, with the retry check that ends the call | `ServiceSkip` |
| a call without a frame that finds the retry due | `RetryJoin` |
| power loss, a frame lost on the wire, time | `PowerOff`, `Lose`, `Tick` |

Modelling decisions:

* *Receive and answer are one step.* A node takes from its own queue only, and a
  send appends only, so no other node can tell whether something happened in between.
* *Time* is one countdown per node. `Tick` decreases all of them. With
  `Timely = TRUE`, which every run uses, a tick waits until nobody has anything
  to do: a tick stands for hundreds of milliseconds and a handler for a few. With
  `Timely = FALSE`, which the proofs cover too, frames may stay unread for ever.
* *The last `bus_recv` of a phase* lasts up to 50 ms, so it may return a frame
  after the deadline, and the code still handles that frame. `ListenRecv` and
  `ConflictIgnore` are therefore possible at `timer = 0`, in a race with the
  timeout. That is where the closest calls of the election are.
* *A coordinator that hears itself.* On the simulator's bus it answers the echo of
  its own defence, again and again, once per call of `node_service` (at least
  10 ms apart). Under `Timely`, `DefendClaim` therefore waits with the echo until
  the other nodes have handled what they were sent.
* *Reset.* `PowerOff` and `PowerOn` are a reset, with the two seconds in between that
  `setup` delays before it opens the bus (`SETUP`). Without them a claimant could hear another
  board claim while its own last CLAIM is still unread there, and both would give way.
* *Queues.* A receiver's queue holds `Capacity` frames and drops the oldest; only
  powered nodes receive. `EchoToSender` says whether a sender hears itself (the
  simulator) or not (the wire).
* *Nonces* are numbers, since the code compares them. `DistinctNonces` says that
  the random source does not repeat itself; runs also drop it.
* *History*: `ledger` lists the assignments ever sent, `elections` counts
  coordinators ever made, `claimNonces` and `joinNonces` are the draws so far,
  `overflowed` says that some full queue dropped a frame.
* `StableAuthority`, the premise of unique ids: one election so far, and the
  8-bit counter has not wrapped. Without it ids do repeat: a coordinator that is
  restarted starts again at 2 while the members keep their ids.

`Registry` is what the boards together amount to, without frames, queues, retries or
clocks: a register that grants each application (a JOIN nonce) at most once, the k-th
one with id k + 1, to the board that submitted it; the first leader takes id 1
and grants, and there is no second one. `NodeProperties` maps `Node` onto it
(`OneRegister`): a node has an application from its first JOIN until it is switched
off, what is granted is `ledger`, and a node holds an id in its service loop only.

| `Registry` | Step of `Node` |
|---|---|
| `Apply` | `SendJoin` |
| `Lead` | `ConflictTimeout`, or `ConflictIgnore` at the deadline |
| `Grant` | `AssignId` |
| `Take` | `AcceptAssign` |
| `Leave` | `PowerOff` of a node in its service loop |
| none (a stutter) | all others: claiming, defending, retrying, skipping, losing, booting, waiting |
| `FallApart` | any step that ends `InOrder`: a second election, the id counter about to wrap, the 34th assignment (the dedup table forgot) |

After `FallApart` the register promises nothing: there the code does hand out ids twice (see below).

`JoinDedup` holds the dedup table as operators, shared by `Node` and by
`DedupTable`, which drives it past its capacity; 0 is among the nonces there, the
array being zeroed. `BroadcastBus` is the abstract bus: frames are numbered as
they are sent and each receiver has the number of its next one. `SimBus` has the
rings with head, tail and count, the global mutex and where each thread is in
`bus_send` or `bus_recv`; what happens under one queue's mutex is one step.
`SimMain` composes it with `main` and the threads, and maps it onto
`BroadcastBus`: what is next for a receiver is the number of the last frame
pushed to it, less what its ring holds. Threads use the bus arbitrarily in `node_begin`, and in
`node_service` once to receive and at most once to send. `bus_recv` with timeout
0 has no caller and is left out; so are the exits of `main` on failed allocations.

`WireFormat` is `proto.c` as operators: the layout of a frame, its checksum (an
exclusive or, bit by bit a parity), finalisation, validation and byte order.
`UartBus` is one direction of a serial link, an R4 that sends to a UNO; the other
direction has a wire of its own and runs the same code.

| Code | Action |
|---|---|
| `setup` of the R4: `bus_create`, which may fail and halt the board | `CreateSender` |
| `bus_send`: finalise, serialise, write | `bus_send` |
| `setup` of the UNO: `bus_create`, then `bus_set_baud` and the start-up delay | `bus_create`, `bus_set_baud` |
| `bus_recv` entered; one byte of the hunt for a SOF | `Call`, `HuntByte` |
| one `read_byte`: more to come, refused, or the last one and then `proto_is_valid` | `ReadByte` |
| the hunt's deadline, or that of one `read_byte` | `RecvTimeout` |
| the wire for one byte time, with the serial library's buffer | `Tick` (`Arrive`, `Fault`, `Silent`) |
| reset of either board | `RestartSender`, `RestartReceiver` |

* *Time* is counted in byte times (1 ms at 9600 baud), so one `Tick` moves one byte and
  `hal_millis` by one. The processor polls faster than bytes arrive: a tick
  waits until the buffer is empty or the wait is over. Between two calls the node does
  something else for at most `Pause`, before the first one for `Startup`.
* *Abstracted into `Fault`*: a byte missed while SoftwareSerial itself sends, which
  blocks its interrupts, or while debug output is printed; line noise.
* `FrameChannel` is what the node may rely on. While the link is `sound`, frames
  are owed to the receiver and handed over in order; a disturbance cancels what is
  owed. The link becomes sound again with a frame sent after the line has been silent for
  `Quiet`, when the parser has given up whatever it was in the middle of. `sound` and `owed`
  are history. The refinement has two halves: `WholeFramesInOrder`, nothing else is handed
  over, and `OwedFramesArrive`, what is owed is handed over in the end.
* An unsound link may deliver anything that passes `proto_is_valid`. That is not
  pessimism: the bytes of one ASSIGN contain a valid frame once its SOF is lost (the
  instance in `MCUart` is built that way), and an 8-bit exclusive or detects no swapped bytes.

`Node` treats a broadcast as one step. `TotalOrder` is what justifies this for the simulator:
every receiver is handed the same order, and one that is not
reached yet merely sees its frame later, as if its last call had timed out.

## The runs

All bounds are constants of a `.cfg`. Phases are one or two ticks long: what
matters is which deadline comes first, and LISTEN = CONFLICT as in the code
(1000 ms each). The code's jitter (150 ms per index) is smaller than a phase
and so is the retry period; one tick stands for both.

| Run | Instance | Shows |
|---|---|---|
| `election` | 3 boards, index 1 each, switched on at any moment | `SingleCoordinator`, `IncumbentDefends`, `SomeoneLeads`, `HighestNonceWins` |
| `simulator` | 3 nodes with echo; two stop listening together and contest the election, the third begins to listen as they claim; fair | `SingleCoordinator`, `EveryoneSettles`, `ClaimsCease` |
| `restart` | 3 boards, queues of 2, one loss, one power cycle at any point | `TypeOK`, `MembersWereAssigned`, `UniqueIds`, `OneIdPerJoin`, `AnswersArrive`, `RoleStable`, `OneRegister` (refines `Registry`) |
| `recovery` | the contest of `simulator` on boards without echo, one of them reset at any moment, fair | `EveryoneSettles` |
| `simulation` | 2 threads, rings of 2, 5 frames | `TotalOrder` (refines `BroadcastBus`), `NoLostWakeup`, `BusOutlivesCalls`, `Terminates` |
| `dedup_table` | 3 slots, 5 nonces, 8 records | `NoFalseDuplicate`, `NothingForgottenYet`, `NewestRemembered` |
| `uart` | 3 frames, one fault or restart, buffer of 3 bytes, clock modulo 5 | `TypeOK`, `FrameFits`, `CallIsBounded`, `WholeFramesInOrder` and `OwedFramesArrive` (refine `FrameChannel`) |
| `no_margin`, `lost_assign`, `same_seed`, `echo_storm`, `dedup_forgets` | see below | disagreements with the documents |

`EveryoneSettles` assumes that in the end all boards stay powered: a network that loses
its coordinator for good has no second election. In `recovery` the
reset may hit a claimant after the others gave way to it, or a coordinator with JOINs on the way.

Three nodes are the smallest number with a winner and two losers who also
interfere with each other. Queues of 8 never overflow in `election`, queues of 2
do in `restart`, and rings of 2 do in `simulation`, where five frames go round a
ring more than twice. Two threads suffice to have a reader take a frame before
the other queue has it and try to answer it. In `uart` the ASSIGN's nonce
contains a SOF and a whole valid frame; disturbed bytes look like a SOF, like an impossible
length or like a possible one; the three frames let one be hit, one be sent too early
and one after a silence; `Startup` overflows the buffer of 3, and the clock wraps in every call.
`Quiet` is longer than `Startup`, a `Pause` for every byte the buffer holds and one more, and
a timeout: in the worst case the reader finds one byte of garbage per call and then waits
in vain for the rest of a frame.
Deadlock is not checked: a network
in which everyone has a role is silent for good, and a simulation that is over has stopped.
`restart` uses symmetry in boards (all have one index) and in JOIN nonces (only
compared for equality); election nonces are ordered and are not symmetric.

Fairness. A node whose step is possible takes one (`WF`): boards loop and
threads are scheduled. `Tick` has strong fairness because the echo of a defence
keeps disabling it, while clocks do not stop. In `SimMain` a wait of 50 ms ends and
`node_begin` ends (it lasts at most the jitter and two seconds), whatever the bus
does: `SF` on `EndBegin`. In `UartBus` the loop keeps calling `bus_recv`, which keeps
polling (`WF` on `Reader`), and bytes and clock move on (`WF` on `Tick`).

### Disagreements found

* **No margin** (`no_margin`). The listen phase is exactly as long as the conflict
  window. A board of index 0 switched on just after another one claimed stops
  listening just as that window closes, and both can become coordinator. An index
  above 0 adds jitter, which is the margin that makes `election` pass.
* **Lost ASSIGN** (`lost_assign`). The JOIN is recorded before the ASSIGN is sent,
  and a known JOIN gets no answer: one lost ASSIGN and the node retries for ever.
* **Same seed** (`same_seed`). The seed is one `analogRead`, of 1024 values at most. A member
  that reads the same one after a reset repeats its JOIN nonce, the coordinator
  takes it for a duplicate, and the board is never assigned an id again.
* **Echo storm** (`echo_storm`). In the simulator, one CLAIM that reaches a
  coordinator is answered, and then every answer is. It takes a node that missed
  the first CLAIM: in a 16-node simulation the rings of nodes 14 and 15 overflow
  during their start-up delay. `sim/main.c` stops after three seconds, just before
  these two claim; a longer simulation gets there. The run is scaled down to three nodes.
* **Forgetful table** (`dedup_forgets`). `seen_count` is both fill level and cursor;
  the 33rd nonce makes the table forget all others instead of the oldest.

Also seen, by changing a run, and excluded from the properties by a named premise:

* A coordinator that is reset starts again at id 2 while members keep theirs
  (`UniqueIds` without `StableAuthority`).
* The tie-break is strict, so two claimants with equal nonces both win (`election` without `DistinctNonces`).
* After 254 assignments the 8-bit counter gives a member id 0, which means
  unassigned (`UniqueIds` has `Len(ledger) <= IdMod - 2`).
* `bus_interface.h:135` has `bus_recv` block for up to `timeout_ms`. Only the hunt keeps that
  deadline, each byte after the SOF may take as long again: 650 ms where the node asked for 50.
  `CallIsBounded` states what the code does keep.

## The proofs

Checked by TLAPS for all values of the constants that satisfy the named
assumptions: any number of nodes or threads, any phase lengths, capacities,
losses, power cycles and frames.

| Module | Theorem | States |
|---|---|---|
| `NodeProofs` | `TypeCorrect` | `Spec => []TypeOK` |
| `IdProofs` | `MembersBacked` | `Spec => []MembersWereAssigned` |
| | `RolesAreStable` | `Spec => RoleStable` |
| | `IdsAreUnique` | `DistinctNonces` implies `Spec => []UniqueIds` |
| | `OneAnswerPerJoin` | `Spec => []OneIdPerJoin` |
| | `BoardsKeepOneRegister` | `DistinctNonces` implies `Spec => OneRegister`, the refinement of `Registry` |
| | `AnswersAlwaysArrive` | `DistinctNonces` implies `Spec => []AnswersArrive` |
| `ElectionProofs` | `AtMostOneCoordinator` | `Margin` implies `Spec => []SingleCoordinator` |
| | `IncumbentAlwaysDefends` | `Margin` implies `Spec => []IncumbentDefends` |
| | `SomeoneAlwaysLeads` | `Spec => []SomeoneLeads` |
| | `HigherNonceWins` | `Spec => HighestNonceWins` |
| `DedupProofs` | `DuplicatesAreReal` | `Spec => []NoFalseDuplicate` |
| | `NothingForgottenBefore` | `Spec => []NothingForgottenYet` |
| | `RetryRecognised` | `Spec => []NewestRemembered` |
| `BusProofs` | `NothingUsedAfterFree` | `Spec => []BusOutlivesCalls` |
| | `WakeupsArrive` | `Spec => []NoLostWakeup` |
| `OrderProofs` | `OneOrderForAll` | `Spec => TotalOrder`, the refinement of `BroadcastBus` |
| `WireProofs` | `NonceSurvives` | four bytes carry every 32-bit nonce |
| | `OneBadByteIsRejected` | one changed byte, except SOF and length, fails `proto_is_valid` |
| | `FramesSurvive` | what is finalised is valid, complete and decodes to the same frame |
| `UartProofs` | `TypeCorrect` | `Spec => []TypeOK`, so the clock stays in its width |
| | `BufferNeverOverflows` | `Spec => []FrameFits` |
| | `CallsAreBounded` | `Spec => []CallIsBounded` |
| | `FramesKeepTheirOrder` | `Spec => WholeFramesInOrder`, the safety of `FrameChannel` |

Assumptions. `ProtoAssumption`, `DedupAssumption`, `NodeAssumption`, `BusAssumption`:
sizes are natural numbers, those of queues, rings, tables and periods
positive, and the id space has more than two ids. `UartAssumption`: frames and bytes are in
range, every wait is shorter than the clock's range, and `Quiet` is long enough (see above).
Some theorems about ids and elections need more, named in the theorem:

* `DistinctNonces`: equal JOIN nonces give two nodes one id, equal election nonces
  two coordinators.
* `Margin`: `Timely`, `DistinctNonces`, and for every node jitter plus LISTEN exceeds
  CONFLICT. The code has LISTEN = CONFLICT, so this excludes a board of
  index 0, and only that; `no_margin` shows that its exclusion is necessary. Both properties
  speak of runs without loss and power cycle (`Reliable`); that is part of them.

The arguments, from the inductive invariants:

* `NodeProofs` types the helpers once (`EnqueueType`, `BroadcastType`, ...), and each
  action from them. It also says, per action, which frames are new in which queue
  (`FramesStep`) and that a step of one node leaves the others' own variables
  alone (`OthersKeep`); `IdProofs` and `ElectionProofs` rest on these.
* `MembersWereAssigned` is not inductive: an ASSIGN on its way may make a
  member. `BackingInv` adds that every ASSIGN in a queue is in the ledger, and
  that a node has no role before its service loop.
* `UniqueIds` needs more (`IdInv`): nodes that have drawn a JOIN nonce have
  different ones (`NoncesDiffer`); before a second election there is at most one
  coordinator, with id 1, and under `StableAuthority` the ledger is exactly
  2, 3, 4, ... up to that coordinator's counter (`FirstAuthority`).
  Two members with one id then share a ledger entry, hence a nonce, hence are one node.
* One register (`RegisterInv`): `IdInv`, the table's invariant below, and that every JOIN
  in a queue carries a nonce that was drawn. `HiddenStep` says which steps the register
  does not show, then there is one lemma for each step that it does
  (`SendJoinApplies`, `WinnerLeads`, `AssignGrants`, `AcceptTakes`, `PowerOffLeaves`). No timing is needed.
* `AnswersArrive` (`AnswerInv`): a nonce just drawn has no answer yet, as only nonces
  drawn before are in the ledger; an ASSIGN reaches every powered node when it is sent, and its
  node reads past it only by taking it. This is the safety behind `EveryoneSettles`.
* `OneIdPerJoin`: the table is the ledger (`TableIsHistory`), entry for entry,
  until it is full, so a nonce that was answered is found.
* One coordinator (`ElectionInv`): for each pair of a claimant `a` and another node `b`,
  `Overheard` relates their countdowns to whether a's CLAIM still waits at `b`. If `b`
  has not read it, it will, since a tick waits for it; if it was not powered then,
  its own listening ends after a's window, which is where the margin enters; if it claims too,
  both claimed in one instant and the lower nonce has the other's CLAIM unread. `Defended`
  and `Alone` say the same of a coordinator.
* Never nobody (`LeadInv`): behind every CLAIM on its way, and behind every node
  that gave way, stands a claimant with at least that nonce or a coordinator. The
  claimant with the highest nonce has nobody to yield to. No timing is needed.
* The dedup table (`TableInv`): the slots searched hold the newest nonces in the
  order recorded, and the fill level is their number until the table is full.
* The simulation (`LifeInv`): how far `main`'s loops have got says of each thread and bus
  whether it exists, runs or is over; hence a thread inside a call has its bus
  and mutexes. `NoLostWakeup` is inductive with it.
* One order (`OrderInv`): a ring holds the frames up to the last one pushed to it without
  a gap (`Window`), the pushes of one walk are a prefix of the queues, and only the
  owner of the global mutex walks. So a pop hands over the frame after the
  receiver's last one, or the oldest of those that an overflow left.
* The wire: two bytes differ in a bit, so changing one changes a parity.
* `bus_recv` (`BufferInv`, `CallInv`): the parser's buffer is a SOF, a header and at most as
  many bytes as the accepted length allows, and the time since the call began
  is at most one timeout per byte read plus the current wait.
* `WholeFramesInOrder`, in two stages. After a silence the reader is done (`DrainInv`): the
  silence so far and the time the reader still needs for what it has (`StillNeeds`) are
  together at most `Quiet`, so a frame sent after `Quiet` finds nothing unread and no frame half read.
  From then on (`StreamInv`), while the link is sound, what the parser has of a frame, the
  receive buffer and the wire are together the bytes of the frames owed, one after the
  other; where each frame ends is a function of its number, not a recursion. The next byte
  of a frame is there within one byte time (`NextIsHere`), so no timeout fires in the
  middle of one, and by `FramesSurvive` the frame found is the one that was sent.

Only model-checked: liveness (`EveryoneSettles`, `ClaimsCease`, `Terminates`,
`OwedFramesArrive`), which is out of the prover's reach. Every invariant, every action property
and all three refinements that the runs check are proved.

## Left out

Wording of logs, LEDs, pins, baud rates, build files and the serial monitor.
`bus_destroy` has no caller on a board. The R4's `bus_recv` and the UNO's `bus_send` are
the same code as their counterparts and are not repeated. `Node` sees only valid frames, a
damaged one being lost; that a wrong frame can pass the checksum stays in `UartBus`.
A `bus_recv` on the UART may overrun its 50 ms by far (`CallIsBounded`); `Node` has only
one call straddling a deadline.

## Plan

1. Done: `Proto`, `JoinDedup`, `Node` with the refinement of `Registry`, `DedupTable`;
   `SimBus` and `SimMain` with the refinement of `BroadcastBus`; `WireFormat` and `UartBus`
   with the refinement of `FrameChannel`; their runs; the theorems above.
2. A duplex link: what a board misses while SoftwareSerial itself sends, which
   is now one of the faults, tied to the frames that are sent.
