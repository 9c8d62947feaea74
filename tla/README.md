# Verification of the selective-reject file copy

`rcopy` copies a file from `server` over UDP with a sliding window, receive-ready
(RR) and selective-reject (SREJ) messages. This directory holds TLA+ models of
both programs and their window, the TLC configurations that check them, and
proofs checked by TLAPS. Source paths below are relative to `src/`.

## The system

| Part | Code | State | Operations |
|---|---|---|---|
| sliding window | `window.c` | `struct win`: `lower`, `current`, `upper`, `buffers`, `pdu_sizes` | `win_init`, `win_add`, `win_RR`, `win_deQueue`, `win_get`, `win_isFull` |
| server parent | `server.c` `process_server`, `handleZombies` | the well-known socket, `buf`, `client`, its children | receive a request, fork, reap |
| server child | `server.c` `process_client` | `state`, its window, `seq_num`, file offset, two static `retryCount`s | one function per state |
| client | `rcopy.c` `processFile` | `state`, its window, static `expected_seq_num`, static `retryCount`, the output file | `start_state`, `filename`, `file_ok`, `recv_data`, `dequeue_data` |
| packets | `srej.c` | none | `send_buf`, `recv_buf`, `createHeader`, `retrieveHeader`, `processSelect` |
| sockets | `networks.c` | kernel queues | `safeSendto`, `safeRecvfrom`, setup |
| error library | `libcpe464/PacketManager.cpp`, `MsgEvents/` | error rate, two lists of events, message count | `sendto_Err`, `processEvents`, `errorDrop`, `errorFlipBits`, `infoSeqNo` |
| its settings | `libcpe464/SettingsManager.cpp`, `network-hooks.c` | what the environment sets, `nextSeed` | `loadEnvData`, `sendErr_init`, `setUserMode_*`, `bindMod`, `forkMod` |
| poll set | `pollLib.c` | the descriptor table | `addToPollSet`, `pollCall` |
| checksum | `libcpe464/checksum.c` | none | `in_cksum` |

**How they interact.** rcopy sends FNAME to the well-known port; the parent forks
a child, which answers FNAME_OK or FNAME_BAD from a socket of its own. The child
then reads blocks, numbers them from 1, sends each as DATA and keeps it in its
window; after every DATA it looks for one answer without waiting
(`check_for_response`). When its window is full it waits (`wait_on_response`),
and on a timeout resends the packet at its lower edge (`timeout_on_response`).
rcopy puts every packet that arrives into its own window (`recv_data`), requests
the numbers that were skipped with SREJs, and writes what it can in order
(`dequeue_data`), one RR per block. At the end of the file the child sends
END_OF_FILE, outside the window, and resends it until EOF_ACK comes.

**What is hard about it.** Both programs run concurrently over a network that
loses, corrupts, delays and reorders. The two windows must stay in step although
RRs get lost and overtake each other. `win_add` returns errors through the same
value as sequence numbers, and `recv_data` uses that value as a sequence number.
Timeouts race answers. rcopy may reopen its socket and be served by a second
child while packets of the first are under way; a duplicated request has
two children serve the same socket. The parent receives every request into the
same buffer, and SIGCHLD does not queue. Either side may disappear.

**What makes each part correct.**
* window: holds exactly the packets of one frame, each in its cell; never moves
  back; frees no packet that may still be asked for;
* server: what the client has not written is in the window and can be resent; it
  never runs past the client's window; it reports success only for a complete
  copy; it ends if nobody answers;
* client: the output is a prefix of the file, written in order; nothing that can
  be written waits; only missing packets are requested;
* parent: one child for each request, with the request's own data; no zombie stays;
* error library: the environment prevails over what is compiled in, and leaves the
  rest as main asked; no two processes draw the same random numbers; damage to one
  send of a packet is not sent again with the next;
* together: without errors the copy completes, and with any single error too if the
  window has room for a second RR (finding 1 shows what happens if it has none).

`PROJECT.json` lists under "hazards" the lines where these are at risk.

## Modules

| Module | Models | Notes |
|---|---|---|
| `Window` | `window.c` | constant-level: a window is a record, each function an operator on it |
| `WindowWidth` | `window.c` with `int`s up to `IntMax`, signed and unsigned as in C | run to where they wrap |
| `WindowWidthProofs` | the theorems on wrapping numbers | |
| `SlidingFrame` | what either program may rely on in `window.c` | abstract specification of `WindowWidth` |
| `Network` | sockets, `send_buf`/`recv_buf`, the error library, `processSelect`'s count | variables `net`, `sockets`, `faults` |
| `Server` | `server.c` | one action per step of `process_client`'s loop, a timeout an action of its own |
| `Rcopy` | `rcopy.c` | likewise; the loops that send are cut into turns |
| `Transfer` | the two programs and the network together | all properties of the system |
| `TwoChildren` | one rcopy and two children | two instances of `Server`, one of `Rcopy` towards each |
| `TwoChildrenProofs` | the theorems on two children | two instances of `TransferProofs` |
| `ServerMain` | `process_server`, `handleZombies`, the process table, several clients | of a child and a client only what concerns the request |
| `ServerMainProofs` | the theorems on requests | |
| `ErrorLibrary`, `MCErrorLibrary` | settings, events and hooks of `libcpe464` | a program and its children |
| `ErrorLibraryProofs` | the theorems on settings, drops, damage and seeds | |
| `FileCopy` | what a run of rcopy promises | the abstract specification |
| `TransferInv` | the inductive invariant of the data: what is where | |
| `SessionInv` | the inductive invariant of the two programs together, and one of flow control that also holds with a second child | stands on `TransferInv` |
| `TransferProofs` | the theorems on all safety properties of a transfer | |
| `Arithmetic` | lemmas on numbers the proofs share: least elements, induction up to a bound, division | |
| `MCTransfer` | instance for TLC | constants come from the `.cfg` files |
| `Packets` | `srej.c` and `in_cksum` on bytes | constant-level |
| `Wire`, `MCWire` | one exchange byte by byte: `send_buf`, `errorFlipBits`, `recv_buf`, the RR or SREJ that answers | justifies the records of `Network` |
| `WireProofs` | the theorems on the checksum and on the numbers of answers | |
| `PollSet` | `pollLib.c` and the descriptors of its process | justifies `Receivable` in `Network` |
| `PollSetProofs` | the theorems on the poll set | |

`Server` and `Rcopy` extend `Network`, which extends `Window`; `Transfer` extends
both and instantiates `FileCopy`. `Packets`/`Wire`, `PollSet` and
`ErrorLibrary` stand on their own: they check, one layer down, what `Network`
takes for granted of a packet, of a poll and of `sendto`. `WindowWidth` does the
same for the unbounded numbers of `Window`. `ServerMain` is the layer above: it
justifies that a transfer is between one client and the child with its request.

**State.** `sstate` and `cstate` are the variables `state` of the two loops. To
these are added the points inside a state function where the process blocks or
sends in a loop: `POLL_RESPONSE` (inside `timeout_on_response`, after the
resend), `RECV_EOF_ACK` (the blocking `recv_buf` of `new_wait_on_eof_ack`),
`SREJ` and `DEQUEUE` (the loops of `recv_data` and `dequeue_data`), `NONE` (no
child yet) and `EXIT` (the error library's `exit(1)` on an empty packet).
`swin`/`cwin` are `struct win` in each process, `sseq` is `seq_num`, `offset`
the read position, `rretry`/`eretry`/`cretry` the static retry counts,
`expected` is `expected_seq_num`, `srej` the loop variable `i`, `out` the blocks
written.

**Actions** carry the names of the functions: `ServerSendData`,
`ServerWindowFull`, `ServerSendEof` and `ServerReadError` are the ways through
`new_send_data`; `HandleResponse` is the body that the three receiving states
share, instantiated with the state each of them goes to.

**Abstractions.**
* Blocks are numbers, all different, so that a misplaced one shows.
* A cell whose size is 0 is `EmptyCell`. The bytes left in it are only read by
  `win_RR`, which then clears the size again, and by `process_srej`, which sends
  length 0 whatever the bytes are.
* `clientSeqNum`, carried by RR and SREJ and read by nobody, is left out.
* Numbers are unbounded; `WindowWidth` shows that a transfer stalls before its
  windows could wrap. `expected` may become negative as in the code, and the unsigned
  comparison on `rcopy.c:115` is modelled as it works then (`BelowExpected`).
* The RR carries its number unswapped (`rcopy.c:64`): the field of the packet in
  the window is still in network order, so the number that arrives is right
  (checked in `Wire`).
* A corrupted packet is `Corrupted`, whatever it was: `recv_buf` returns before
  it looks at it. Inverting one byte changes the ones' complement sum by an odd
  number (times 256 or not) that is no multiple of 65535, so it never slips
  through; `Wire` checks this on bytes.
* `timeout_on_eof_ack` resends the buffer `packet`; in every state that leads
  there it holds the EOF packet, so `Eof(sseq)` is sent.
* In `Transfer` only the child that serves rcopy's present socket is followed. A
  child of an earlier socket sends to a closed port. A second child with the same
  request is in `TwoChildren`, whose two queues towards rcopy are one socket: it
  may read either first, as if the network had delayed the other.
* Writes succeed, unless `WriteMayFail`; the proofs assume it (`WritesSucceed`).
* File and socket calls fail only at the places where the code handles it
  (`IoMayFail`): host lookup, opening either file, reading.
* `ServerMain` gives the parent one `buf` for `buf` and `client`, which recv_buf
  fills together; the file name is one letter and what follows it on the stack
  another; forking and opening take the time they take, so that requests, ends
  and signals come in between.
* `ErrorLibrary`: a packet is the set of its inverted bytes, an environment
  variable the sequence of its tokens, a rate and a draw percentages.
* `eretry` stops counting at MAX_TRIES + 1, from where it is only compared.

**Time.** `Prompt = FALSE`: a poll may time out at any moment, whatever is on its
way, which covers any delay. `Prompt = TRUE`: round trips are much shorter than
SHORT_TIME (1 s), so a poll times out only when nothing is on its way and
everybody waits; rcopy's LONG_TIME (10 s) runs out only if the server will not
send on its own any more.

## Runs

The runs of one transfer use `MCTransfer`; the bounds are the constants.

| Run | W | blocks | queue | network | Question | Result |
|---|---|---|---|---|---|---|
| Reordering | 3 | 4 | 3 | any number of drops and flips, reordering, timeouts at any time, I/O errors | safety, refinement | holds |
| SmallestWindow | 2 | 5 | 3 | the same in FIFO order, with duplicates | inductive invariant, safety, refinement | holds |
| OneFault | 5 | 9 | 6 | at most one error anywhere, prompt | copy complete; without the error both programs end | holds |
| LostRR | 2 | 3 | 3 | one error, prompt | `BreaksStall` | violated |
| LostEofAck | 3 | 2 | 3 | one error, prompt | `GivesUp` | violated |
| EmptyRequest | 3 | 3 | 3 | one error, prompt | `RequestsAreAnswerable` | violated |

| Run | Module | Question | Result |
|---|---|---|---|
| TwoChildren | `TwoChildren` | does a second child with the same request harm the copy or overrun the window (W = 2, 2 blocks) | no |
| ServerMain | `ServerMain` | one child per request, each client its own file, children reaped, requests served (2 clients, 2 processes, 1 packet lost or damaged, 1 retry) | holds |
| ErrorLibrary | `MCErrorLibrary` | do settings prevail and leave the rest to main, do lists drop what they list, do seeds differ (but for a random seed and the first child), does damage stay in its send (67 environments, 2 children, 2 sends) | holds |
| WindowWidth | `WindowWidth` | are the windows of `int32_t` sliding frames over plain numbers, and what happens at the end (`IntMax` = 31, W = 4) | yes; the server stalls |
| Wire | `MCWire` | are damaged packets, and only those, rejected; do RR and SREJ carry the number that is meant | holds |
| PollSet | `PollSet` | does pollCall report the socket exactly if it has a packet; does the table grow far enough | holds |

**Bounds.** What matters is the number of blocks relative to the window: with
W = 3 and four blocks plus the EOF packet (or W = 5 and nine), both windows wrap around their ring,
every cell is reused, and an old packet can meet the cell of a newer one. W = 2
is the smallest window that works at all (see MC_WindowOfOne below). A queue of three
holds more than the server's effective window (W - 1 unacknowledged packets), so
resent and new packets mix; overflow (`ChannelCap`) is reached too. `MaxTries`
is 10 in the code; 1 and 2 distinguish the first try, a later one and giving up.
`FaultLimit` counts errors where liveness needs them to be few; with
`Unlimited` they are not counted. Wire tries numbers that fill one to four bytes
and payloads of one and two bytes (an odd and an even packet) at both ends of a
byte's range, and inverts each byte of each. PollSet starts with every set of
inherited descriptors up to 6 that contains standard input, with a table that
grows by 2 (10 in the code), so that the socket lies inside and beyond it.

TwoChildren needs no errors to be interesting: with W = 2 and two blocks the RRs
and SREJs one child gets are for packets of the other, ahead of it or long freed.
Two processes in ServerMain are enough for two children at once, two zombies
behind one signal, one zombie beside a running child, and a full table; with one
retry each of the two clients has two requests, two of which the port holds. The
environments of ErrorLibrary set no variable, one, or two that concern errors,
each to every kind of value the parsers tell apart (nothing, no number, -1, a
list, a list that breaks off); two children tell a seed that is handed on from
one that is counted on, and two sends damage the same buffer twice. Numbers up to 31
in WindowWidth let a window of four go round its ring eight times before the signed
numbers end. The Reordering run has 1.3 million states and ErrorLibrary 1.7
million; both take about two minutes.

**Fairness.** `FairSpec` asks for weak fairness of each program's steps: the
operating system schedules both processes, and every poll returns, with a packet
or by its timeout. Nothing is assumed of the network: in OneFault the one error
may hit any packet. ServerMain asks for weak fairness of the parent and of
its signal handler, and for nothing of the children: one that never ends must not
hold up the others. WindowWidth lets the packet at the client's lower edge and
the newest RR arrive in the end, which is what resending is for.

`CHECK_DEADLOCK FALSE` is set where the programs may have come to their end or a
child may rightly be found blocked in `recv_buf`, where the process has no
descriptor left to open (PollSet), where no client asks any more (ServerMain),
and where the bound on sends is reached (ErrorLibrary).

### What the runs found

1. **A full window of lost RRs is never repaired** (LostRR, `server.c:236`,
   `rcopy.c:115`). With W = 2 one lost RR is enough. With W = 4 it takes two
   losses, or one duplicate that leads to finding 3; this is why completion is
   claimed for one error only.
2. **Giving up on EOF_ACK blocks for ever** (LostEofAck, `server.c:254`).
3. **Requests the server cannot answer** (EmptyRequest, `rcopy.c:116`,
   `server.c:155`): the wrong packet is sent, or the child exits.

The comment or message each of these contradicts is quoted under "findings" in
`PROJECT.json`.

**Assumptions that do not hold everywhere.** Some properties of the passing runs
rest on an assumption or make an exception. Each has a configuration that drops
it and with which TLC finds a statement of the repository violated within
seconds; they are not among the runs. The module comment above each property
quotes the statement.

| Configuration, module | What it shows |
|---|---|
| `MC_WindowOfOne`, `MCTransfer` | `check_args` accepts a window of one packet (`rcopy.c:294`), which cannot hold the first packet; the first timeout ends the child |
| `MC_DiskFull`, `Transfer` | a `write` that fails (`rcopy.c:62`) is acknowledged all the same, and the transfer reported as complete |
| `MC_HangUp`, `PollSet` | once the other end of standard input is gone, `poll` reports the unused slots, which hold descriptor 0 (`pollLib.c:81`): every timeout is disabled |
| `MC_SecondChild`, `TwoChildren` | of two children, the one rcopy heard last gets the EOF_ACK (`networks.c:54`), although it still sends data |
| `MC_OpenedName`, `ServerMain` | the file name has no terminator (`server.c:375`): the name that is opened goes on with what the stack holds |
| `MC_EmptyVariable`, `MCErrorLibrary` | a variable set to nothing, as `testRandError.sh:15` clears them, counts as a list (`SettingsManager.cpp:112`) or as port 0 (`network-hooks.c:92`) |
| `MC_FlipList`, `MCErrorLibrary` | a list of packets to flip is ignored, and switches random flips off (`SettingsManager.cpp:240`) |
| `MC_FirstChild`, `MCErrorLibrary` | with a random seed, which both programs ask for, `sendErr_init` reads the time twice, and the first child repeats its parent's numbers if it was the same second (`network-hooks.c:196`); `SeedsDiffer` excepts this pair of processes and no other |
| `MC_StandardEvents`, `MCErrorLibrary` | a listed drop keeps the events behind it from being performed (`PacketManager.cpp:125`) |

## Properties

Safety: `OutputIsPrefix`, `ServerRetains`, `LowestIsHeld`, `NeverTooHigh`,
`EofAckMeansComplete`, `NoUnexpectedFlag`, `RequestsOnlyGaps`, `DeliversAtOnce`,
the action property `WindowsAdvance`, one type invariant, and the refinement
`ImplementsFileCopy`; below the transfer `ReadAsSentOrRejected` and
`AnswersNameTheirPacket` (Wire), `ReadyMeansReadable`, `SlotsInTable` and
`PacketsAreSeen` (PollSet), `EnvironmentPrevails`, `DropsWhatIsListed`,
`AtMostOneByteDamaged` and `SeedsDiffer` (ErrorLibrary), the refinements
`ServerFrame` and `ClientFrame` (WindowWidth); above it `OneChildPerRequest` and
`EachGetsItsOwn` (ServerMain), and `ImplementsFileCopy` and `NeverTooHigh` once
more in TwoChildren. Liveness: `BothFinish`, `CompletesDespiteFault`,
`ZombiesAreReaped`, `RequestsAreServed`, `StallsAtTheEnd` (a limit, stated so that
it is known: after about 2^31 packets the server's window is full for ever), and
the two refuted ones. Each is stated and explained in its module. Every property
of a passing run has a mutant: an operator, marked as such next to the one it
mutates, that changes the model as a plausible bug would, and with which TLC
finds the property violated.

`LowestIsHeld` and `ServerRetains` hold for W >= 2 only.

## Proofs

All theorems hold for every value of the constants that their modules' `ASSUME`s
admit. These say no more than the types of the constants and what `check_args`
and `win_init` accept, with three exceptions, each explained where it is made:
`WritesSucceed`, `StackIsClean`, and a window of two packets in two theorems.

**A transfer.** For every window size >= 1, every file, channel capacity and
error budget, with and without reordering and duplication, prompt or not:

| Theorem | Module | Statement |
|---|---|---|
| `Invariance` | `TransferProofs` | `Spec => []IInv` |
| `TypeCorrectness` | `TransferProofs` | `Spec => []TypeOK` |
| `PrefixSafety` | `TransferProofs` | `Spec => []OutputIsPrefix` |
| `Refinement` | `TransferProofs` | `Spec => ImplementsFileCopy` |
| `NeverBack` | `TransferProofs` | `Spec => WindowsAdvance` |
| `NothingHeldBack` | `TransferProofs` | `Spec => []DeliversAtOnce` |
| `SessionInvariance` | `TransferProofs` | `Spec => []Session` |
| `FlowControl` | `TransferProofs` | `Spec => []NeverTooHigh` |
| `AckMeansComplete` | `TransferProofs` | `Spec => []EofAckMeansComplete` |
| `NothingUnexpected` | `TransferProofs` | `Spec => []NoUnexpectedFlag` |
| `OnlyGaps` | `TransferProofs` | `Spec => []RequestsOnlyGaps` |
| `Retention` | `TransferProofs` | `Spec => []ServerRetains`, if W > 1 |
| `LowestHeld` | `TransferProofs` | `Spec => []LowestIsHeld`, if W > 1 |

They assume that writes to the output file do not fail (`WritesSucceed`), without
which the output need not be a prefix of the file. A window of one packet refuses
the very first packet, so that nothing is retained and the cell at the lower edge
stays empty: `MC_WindowOfOne` shows the run, and the last two theorems are false
for it.

**Above and below it.**

| Theorem | Module | Statement |
|---|---|---|
| `BothInvariance` | `TwoChildrenProofs` | `Spec => []Both`, for every window size, file and error budget |
| `FlowControl` | `TwoChildrenProofs` | `Spec => []NeverTooHigh` |
| `Refinement` | `TwoChildrenProofs` | `Spec => ImplementsFileCopy` |
| `RequestsInOnePlace` | `ServerMainProofs` | `Spec => []IInv`, for any number of clients, processes, retries, lost and damaged packets |
| `OneChild` | `ServerMainProofs` | `Spec => []OneChildPerRequest` |
| `OwnFile` | `ServerMainProofs` | `Spec => []EachGetsItsOwn`, if `StackIsClean` |
| `ChecksumDetects` | `WireProofs` | `Spec => []ReadAsSentOrRejected`, for all numbers, bytes and payloads of up to 1400 bytes |
| `AnswersNamed` | `WireProofs` | `Spec => []AnswersNameTheirPacket`, likewise |
| `PollInvariance` | `PollSetProofs` | `Spec => []PollInv`, for every number of descriptors and growth of the table |
| `ReadableWhenReady` | `PollSetProofs` | `Spec => []ReadyMeansReadable` |
| `InsideTheTable` | `PollSetProofs` | `Spec => []SlotsInTable` |
| `NothingOverlooked` | `PollSetProofs` | `Spec => []PacketsAreSeen` |
| `NoOverflow` | `WindowWidthProofs` | `Spec => []TypeOK`, for every `IntMax` and window of at most half the numbers |
| `ServerSlides` | `WindowWidthProofs` | `Spec => ServerFrame` |
| `ClientSlides` | `WindowWidthProofs` | `Spec => ClientFrame` |
| `LibraryTypes` | `ErrorLibraryProofs` | `Spec => []TypeOK`, for every set of environments made of tokens, rates, draws, and any number of forks and sends |
| `EnvironmentRules` | `ErrorLibraryProofs` | `Spec => []EnvironmentPrevails`: what the environment sets, and what it leaves open |
| `OnlyListedDrops` | `ErrorLibraryProofs` | `Spec => []DropsWhatIsListed` |
| `DamageDoesNotAddUp` | `ErrorLibraryProofs` | `Spec => []AtMostOneByteDamaged` |
| `OwnSeeds` | `ErrorLibraryProofs` | `Spec => []SeedsDiffer`, with and without a random seed |

**The argument for the data of a transfer.** `OutputIsPrefix` is not inductive:
that the next block written
is the right one depends on what sits at the lower edge of the client's window.
`IInv` therefore says, from the server to the output: the server's window holds
only packets of the file, each block under its own number (`ServerInv`, with
`sseq = offset + 1`); packets on their way to the client are those, the answers
to the request, and an EOF packet numbered one past the last block (`QueuesOK`);
a full cell of the client's window holds such a packet, its number belongs to
this cell and lies in the frame (`Frame`); and the lower edge is the number of
the next block to write (`LowerOK`, `WrittenOK`). When `dequeue_data` takes the
packet at the lower edge, its number and the lower edge share a cell and a frame,
so they are equal (lemma `SameResidue`), hence the block is the next one of the
file. The server may be confused about what the client has (finding 3) without
any effect on this, which is why it holds for all windows and networks.

The proof that a step preserves `IInv` has a lemma for each operation of the
window, one for each way to send or read, one for each action of the two
programs, and one for each program that joins them. The refinement is proved
from `IInv`: every step but those of `dequeue_data` and the ways to DONE leaves
`out` and `outcome` alone. `NeverBack` needs that a child in FILENAME has a fresh
window (`Fresh`); `NothingHeldBack` is inductive together with `IInv`, because an
old packet other than the one at the lower edge cannot touch the cell of the
lower edge (`SameResidue` again).

**The argument for the two windows.** That the server does not run past the
client's window depends on every RR it has had and may still get, hence on what
the client may have sent, hence on what the server had sent before. `Session`
closes this circle:

* `QueuesFit`: an RR on its way carries a number the client has written and the
  server has sent; an EOF packet is on its way only if the child has come to the
  end with room in its window; an EOF_ACK only if rcopy has ended with the file;
* `SessionOK`: while a request is on its way nothing else is, so that a new child
  never meets packets of an older one, and a child that has ended hears nothing;
* `ChildOK`: the server's window covers the numbers from its lower edge to the
  one sent last, and each of them is in its cell (`Covers`, `Retains`);
* `Lagging`: its lower edge is below the client's, once it has moved: `win_RR`
  keeps the packet the RR names;
* `ClientLoop`: rcopy expects the number after the highest it has seen, and what
  is left of a gap while it sends SREJs is empty.

`NeverTooHigh` follows because the server sends below its upper edge, a window
above its lower one, which lags the client's by one. `ServerRetains` follows from
`Retains` and `Lagging`; `EofAckMeansComplete` because an EOF packet, and so the
EOF_ACK, is one past the last block.

**The argument for two children.** rcopy and either child are a Transfer, with the
queues of that child, except that rcopy also moves when it hears the other one.
`TwoChildrenProofs` instantiates `TransferProofs` for each (`P1`, `P2`), shows
that the steps of TwoChildren are steps of these, and cites their lemmas. The
parts of `IInv` carry over: they relate either queue to rcopy's window by the
number of each packet alone. `Session` does not: a child may be told of
packets it has not sent, and its window then jumps over them. `Flow` says what is
left. Its `Horizon` is the upper edge of rcopy's window; a child's next number is
at most the horizon, and below it once the last block is read; it is told only of
packets below rcopy's lower edge. A child sends while `current` is below the upper
edge of its window: `Follows` says that `current` has followed the packets sent,
unless the window has jumped past them, when the next number is no higher than the
window's lower edge, which lags rcopy's. rcopy only ever raises the horizon
(`ClientAdvances`), so what it does for one child keeps `Flow` of the other
(`ElsewhereKeeps`).

**The argument for requests.** That no two children have the same request is not
inductive: it must not be in the port or in the parent's buffer any more either.
`IInv` (ServerMain) says that every request in the port, in `buf` while the
parent is about to fork, or with a running child, carries a socket number its
client has used, and is in one of these places only. A client numbers its
sockets, so that a new request is none of those; receiving moves a request from
the port to `buf`, a rejected packet does not bring the old one in `buf` back to
life, and forking moves it on. `OwnFile` follows from what a child that has
opened a file says of the name.

**The argument for the checksum.** Folded twice, a sum below 2^31 gives 0 exactly
if it is a multiple of 65535 other than 0 (`FoldZero`), and a checksum added to
the sum it was made from makes it one (`FoldSeals`); the sum of the longest packet
is far below 2^31 (`SumFits`). An inverted byte changes one word (`OneWord`) by an
odd number no greater than 255, times 256 for the second byte of a word, so by no
multiple of 65535 (`DamageShows`). Hence `WireInv`: the bytes on the wire are
those that createHeader made of `sent`, with at most one inverted.

**The argument for the poll set.** rcopy closes its socket before it opens the
next, and `socket` returns the lowest free descriptor. So the new socket has the
number of the old one: `PollInv` says that every descriptor below it is taken,
that it is the only slot watched besides standard input, and that the table is
larger. Without the close, the table would keep a slot for a socket that nobody
reads.

**The argument for wrapping numbers.** The server adds only while `current + 1`
is below its upper edge, which is negative as soon as it passes `IntMax`: so the
window is full for ever before any number wraps (`WidthInv`), and up to there the
conversions change nothing. The client's window follows the server's.

**The argument for the error library.** `LibraryInv` says that in each running
process the settings obey the environment, those it leaves open are as main asked
(`Compiled`), and a list of drops is among the standard events of a process; this is
kept by every `setUserMode`, by `bindMod` and by `forkMod`, which hands on all but the
seed. `nextSeed` is above every seed given out so far, and above the parent's own,
unless that is random and there is no child yet (`Seeds`): only the first child can
get its parent's seed, and no two children ever share one. The buffers that
processes send from are never inverted, because the events work on the copy
`bufTmp`: with this, one send can invert one byte, and only if an event hits it.

**Induction.** The provers cannot use an induction rule that takes a predicate as
a parameter, but they can use one about a set. `Arithmetic` derives it from the
well-foundedness of the natural numbers: every nonempty set of numbers has a least
element (`LeastNumber`), so a set that contains 0 and, with each number below n,
the next one, contains all up to n (`InductionUpTo`). This is how the existence of
the running sum of `in_cksum`, its bound and its change are proved.

**Only model-checked.** Liveness: `BothFinish`, `CompletesDespiteFault`,
`ZombiesAreReaped`, `RequestsAreServed` and `StallsAtTheEnd`, which are out of the
prover's reach. Every other property of a passing run is the statement of a theorem.

## Not modelled

* `send_data`, `wait_on_ack`, `timeout_on_ack`, `wait_on_eof_ack`, `win_SREJ`,
  `win_isEmpty`, `win_seqInFrame`, `select_call`, `removeFromPollSet`, `send_Err`,
  `recv_Mod`, `setDropAll`, `clearMsgEvents`: never called in a reachable state, or
  never called at all.
* Name lookup, allocation wrappers, printing (`selectMod`, `printType`,
  and `recvfrom_Mod`, which passes on what `recvfrom` returns and prints it),
  `CPE464_AUTOGRADER`: no influence on what the programs do.
* Memory layout: cells shorter than the packets they hold (`window.c:46`), the
  length `getsockname` is given (`network-hooks.c:121`).
* System calls whose failure ends the process at once (socket, bind, poll,
  sendto): for the other side this is a process that has ended, which is modelled.
* A server that an operator starts again: nothing is persisted, and a new parent
  is a fresh one.
* A process started with standard input closed: its socket would be descriptor 0,
  which `rcopy.c:194` and the poll table take for none.

## Plan

Done: Window, Network with duplication, Server, Rcopy, FileCopy, Transfer,
TwoChildren, Packets, Wire, PollSet, ErrorLibrary, ServerMain, WindowWidth and
SlidingFrame, with theorems about all their safety properties. Left: what
`MC_WindowOfOne` shows as a statement about every file; `StallsAtTheEnd` without
time, that a full server window stays full once `current` is at `IntMax`.
