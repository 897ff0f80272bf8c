# A TLA+ model of leelen2sip

leelen2sip is a bridge between the LEELEN video intercom and SIP.  A SIP client
that calls a number makes it look for the LEELEN device with that number on the
local network, call it over LEELEN's own UDP protocol and answer the SIP call
when the device does.  This directory holds TLA+ modules for the parts of the
program where the order of things matters, the TLC configurations that check
them, and proofs of the properties that matter most.

## The system

| part | state | operations | talks to |
|---|---|---|---|
| LEELEN VoIP dialog, `leelen/voip/dialog.c` | ID, state (DISCONNECTED, CONNECTING, CONNECTED, DISCONNECTING), time of the last code that waits for an ACK, time of the last activity | init, send a code, send BYE, receive, two timeouts, destroy | the peer's dialog, over UDP |
| LEELEN VoIP socket pool, `leelen/voip/voip.c` | an array of dialogs | receive, connect, shrink, destroy | dialogs; no user in the bridge |
| single flag, `utils/single.h` | one `signed char` | start, run, stop, join, continue, finish | every daemon: mainloop, discovery, INVITE worker, forwarder |
| discovery, `leelen/discovery/discovery.c` | flag, `host`, `initres`, mutex, condition variable, up to two sockets | discovery (caller), mainloop (daemon), start, stop, connect, destroy | INVITE workers, devices on the network |
| advertiser, `leelen/discovery/advertiser.c` | own address, report | should_reply, reply, set_report_addr | devices that look for us |
| bridge, `sipleelen/sipleelen.c`, `uas.c`, `uac.c`, `transaction.c` | array of sessions and its mutex, registered client, sockets | receive SIP, receive LEELEN, sweep of the timers, create, free | libosip2, sessions, discovery |
| session, `sipleelen/session.c` | LEELEN dialog, SIP dialog, current transaction (borrowed), reference counter, flag of the INVITE worker, two forwarders | init, established, bye_leelen, bye_sip, connect, decref, destroy | all of the above |
| media forwarder, `sipleelen/forwarder.c` | two sockets, one flag for two threads | start, stop, destroy, mainloop of each half | the session sets, stops and destroys it; never started at this commit |
| arrays and counters, `utils/array.h`, `refcount.h` | a pointer vector; a counter | insert, steal, take, shrink; inc, dec, should_free | sessions, dialogs |
| phone numbers, `leelen/number.c` | four numbers | parse, format, pack, unpack | dialogs, discovery, INVITE |
| program, `leelen2sip.c` | the configuration | options, checks, connect, run, SIGINT, destroy | bridge, discovery |
| addresses, `inet46i/*` | - | conversions between IPv4 and IPv6, comparing, prefixes, opening sockets | everything that sends |
| logging, thread names, `utils/log.*`, `utils/threadname.*` | - | output | - |

Who runs: the thread of `SIPLeelen_mainloop` handles every packet and every
timer; the thread of `LeelenDiscovery_mainloop` reads advertisements; each
INVITE has a worker thread while it looks for the phone and calls it; a forwarder
has two threads, one for each direction; a signal handler stops the mainloop.
All of these threads are detached.  They share the sessions (reference counter, flag
of the worker), the result fields of the discovery, and the flags.

What is hard, and therefore what the models are for (`PROJECT.json` lists each
at its line under "hazards"):

- UDP loses, duplicates and delays; an ACK of the LEELEN protocol does not say
  what it acknowledges; both ends may talk at once;
- every wait has a timeout, and the answer may come just after it;
- a session is reached from an array, from transactions and from worker
  threads, with one counter to say when nobody reaches it any more;
- the discovery hands a result over through shared fields;
- flags are taken, stopped and joined by several threads, and by signals;
- resources are released at the end of the program, or of a call, while threads
  that were only told to stop may still use them;
- an address passes through two families, two protocols and a text before
  something is sent to it.

## Modules

| module | what it models |
|---|---|
| `LeelenDialog` | The functions of `dialog.c`, as operators on a record. No variables: `DialogNet` and `Session` use the same operators. |
| `CallLeg` | What a dialog promises its owner, without messages or time stamps: a leg moves because the owner asked, the peer said so at some time, or nobody confirmed for `AckTimeout`. |
| `DialogNet` | Two or more devices that run `dialog.c` against each other over a lossy, duplicating, reordering network. `ImplementsCallLeg` is the refinement of `CallLeg`. |
| `SingleFlag` | `utils/single.h` and `single.c`: each atomic access to the flag is a step; callers start, run and join, anybody stops, daemons check and finish. |
| `Forwarder` | `sipleelen/forwarder.c`: an owner and the two halves of each start around one flag and two sockets. |
| `Lifecycle` | `main()`, `SIPLeelen_connect`, `_run`, `_destroy` and `LeelenDiscovery_connect`, `_destroy`: the resources of the program and its threads from the first mutex to the end. |
| `Discovery` | Workers in `LeelenDiscovery_discovery()` and the daemon; each section under the mutex is a step, what happens outside it (the first test of `initres`, the wait) is one of its own. |
| `Session` | One session of the bridge with its transactions, its INVITE worker and the sweep. |
| `PtrVector` | The functions of `utils/array.h`, as operators on a sequence of pointers. |
| `SessionTable` | Several sessions: the array, the memory, the counters and the sweep that walks over them. |
| `LeelenNumber` | `leelen/number.c`: parsing, comparing, answering, and the two packed forms, as operators. |
| `NumberText` | The texts users write, one character per step, and what the operators of `LeelenNumber` make of them. |
| `CommandLine` | The options of `leelen2sip.c`, one per step, and `start_leelen2sip` up to the sockets. |
| `Inet46` | The conversions, comparisons and prefixes of `inet46i`, as operators on words. |
| `Addresses` | Where replies to SIP clients and messages to LEELEN devices go: Via headers, solicitations, reports, calls and answers. |
| `MCThreads`, `MCData` | Instances of several of these at once (below); the other `MC...` modules hold finite values of constants. |
| `..._proofs` | Theorems and proofs of the module they are named after; `Data_proofs` of `NumberText`, `CommandLine` and `Addresses`. |

How they are put together:

- `Session` and `DialogNet` both extend `LeelenDialog`: the first replaces the
  peer by arbitrary LEELEN messages, the second has both ends.
- `Session` takes the outcome of a discovery (found or not) as a choice, which
  is what `Discovery` allows, and the flag of the worker as a fact (running or
  not), which is what `SingleFlag` allows when one thread starts and joins.
- `SessionTable` keeps of each session what the others can notice: who holds it,
  and whether its call is over.  It is weaker than `Session` in what it knows of
  a call (the end of one is a choice) and stronger in that sessions share the
  array and each other's memory.
- `CommandLine` ends where `SIPLeelen_connect` begins; `Lifecycle` goes on from
  there and has of the options only which sockets they ask for.
- `Lifecycle` composes the threads of the program and has of each no more than
  the flag it looks at and the resources it uses; what they do meanwhile is in
  `Discovery` and `Session`.
- `Addresses` extends `Inet46`; it is about one request or one call, as nothing
  of it depends on another.
- `MCThreads` and `MCData` put three modules each beside each other that share
  no variable.  A variable `part` says which of them moves, and the others keep
  their initial state, so the states are those of the three modules added up and
  not multiplied; a property of one says nothing new about the others.

### LeelenDialog and DialogNet

`dialog[e]` is the structure of device `e`.  `state` is
`LeelenDialog.state`; `live` stands for `id != 0`.  The two stamps are kept as
ages: `sent` for `last_sent` (`Never` for `tv_sec == 0`), `idle` for
`last_activity` (-1 for the second into the future that sending writes).
`LeelenDialog_init` sets neither, so `Fresh` takes them as parameters and every
use quantifies over all values.  `net[e]` is the set of datagrams on their way to
`e`: a datagram can be taken out of order, taken and left (duplicated), or lost.
A datagram that finds `net` full is lost too.  `story` and `said` are history
variables that only properties read.

`Connect` needs an empty network: a dialog gets a fresh random ID, so no
datagram of an earlier one is for it.  Numbers, addresses, ports and media
formats are left out, no branch of `dialog.c` depends on them; whether a body
parses and whether `sendto()` succeeds are choices.

### SingleFlag

`pc` is the place of each thread in `single_acquire`, `single_start`,
`single_join` or the daemon.  The compare-exchange in `single_acquire` is weak
and may fail on a stopped flag (`ExchangeFails`).  The daemon is any loop over
`single_continue`, or a function that ends with `single_finish`.

### Discovery

`initres` starts at 0, is set to 254 by each call and to 0 or to an error by the
first advertisement after that.  An advertisement does not name the phone that
was asked for, so `ads` is a set of devices that answer.  `fresh` and `alone`
are history variables.  `OneSocket` covers the case where the daemon loops over
two pollfds and only one was set.

### Session

`ses` is one record: `alloc` (none, live, freed, and crashed for a NULL
dereference), `listed` (in `SIPLeelen.sessions`), `refs`, `sip` (a SIP dialog
exists), `cur` (`session->transaction`), `dlg` (the LEELEN dialog), `tr` (the
transactions whose `reserved1` is the session) and the history variable `lost` (a
message of a transaction could not be sent).  The functions of `session.c` and
`transaction.c` are operators from a session to a session, so an action reads
like the handler it models.  An action is a packet, a step of the worker, a
sweep, the end of a transaction in libosip2, or a tick.

libosip2 is external and modelled from how it is used: it hands an INVITE and
each retransmission of it to the same callback, refuses a second final answer,
kills an accepted INVITE at once and any other answered transaction `Linger` to
`LingerMax` ticks later, makes no transaction for an ACK, and runs queued
answers in `osip_ist_execute`.  `cancelled` is an INVITE with a queued 487, which
libosip2 still calls IST_PROCEEDING.  When `_SIPLeelen_send` fails (the fault
`sip`), libosip2 kills the transaction on the spot, and so before the handler that
answered goes on: at the 100 and the error answers of an INVITE, at the answer to
a request, at a queued 487 in the sweep or at the next repetition, at our BYE, and
whenever a message is repeated (`Unsent`, `Repeat`).  An answer therefore has a set
of outcomes: `Answers`, `Provisional` and `Executed` are sets of sessions, and
`MayAnswer` has the session as it was too, for an answer that was not built.  A
killed transaction is removed from libosip2's lists and never freed
(`_SIPLeelen_kill_transaction`), so a pointer to one is to memory that stays; its
slot is not given away while `cur` or `job` has it, and no answer reaches it.

A request finds the session by its SIP dialog, or by the branch of the current
INVITE.  `ReInvite` is an INVITE in the dialog, or a repetition that libosip2 no
longer knows while its killed transaction is still the current one.  `NistBye` is
BYE and CANCEL; `Options` is OPTIONS and REGISTER in the dialog; `NoCallback` is
any other method, which is attached like the rest and answered by nobody.
`NotNew` is a session that could not be made.

A tick is the period of the sweep (800 ms); the wait for a LEELEN ACK (500 ms)
is over within one.  Three assumptions on time are built in, because the code
relies on them: no tick passes while a worker runs (its discovery lasts
200 ms); transactions outlive a wait for an ACK (`Linger > RetryAge +
AckTimeout`: 5 s and more against 500 ms); and a client repeats an INVITE only
until `RetryAge` after the answer.

`leaving` counts workers after `single_finish` that have not given back their
reference: a second worker may start in between.

The functions that build and parse messages and open sockets are sets of
outcomes named after them (`SIPLeelenSession_connect`, `osip_message_response`
...): success, and failure if `Faults` has its cause.

### PtrVector and SessionTable

A vector is a sequence without the terminating NULL; indices start at 1.  A
function that searches returns the set of indices it may stop at, which the
definition picks by what it looks for and not by a loop.  `ptrvshrink` is
translated as it is: the index of the last element that is not NULL becomes the
length.

In `SessionTable` an identity is a piece of memory: a session that is freed
may be the next one that is made, so a stale pointer in the array would be to a
session again.  `held` is the number of transactions with `reserved1` at the
session, `busy` the sessions with a worker, `over` those the sweep would remove,
`at` the index of the sweep.  The sweep holds the mutex, and packets wait for
it (`Idle`); workers do not, so it looks at one element per step.  An action of
a packet or a callback is `Session`'s, without the details: `Talk` is what the
end or beginning of a call may do to the counter.  Two ways to lose a reference
are left to `Session` (below), and so `HoldersAreSafe` is about the rest.
`due` and `peak` are history variables.

### Forwarder

`fwd` is the flag, `half[<<n, d>>]` the place of the half for direction `d` of
start `n`.  A half that sleeps in `poll()` while the forwarder is stopped and
started again is still there, which is why halves are named after their start.
`Forwarder_start` waits while the flag is STOPPING and takes it when it is
STOPPED; the first half to leave its loop makes it STOPPED for both.  At this
commit nothing calls `SIPLeelenSession_start_forward`, and the module has an
owner who may do what `forwarder.h` offers in any order.  `late` counts how often
a half was in `poll()` on sockets that were closed.

### Lifecycle

`held` is the set of what has been initialised or opened and not released, and
`misused` becomes true when something is released that is not held.  `stage` is
the place of `main()`, whose thread also runs the mainloop; each way a function
can fail is a disjunct that goes where its `goto` goes.  `Plans` are the lists of
sockets that the four kinds of `<interface>` ask for.  A worker is what
`_SIPLeelen_ist_invite_process` does to the discovery (`look`, `wait`) and then
to the call (`call`).  The mainloop waits for a worker in `JoinWorker`, as it
does for a LEELEN message of its session.

SIGINT is an action without fairness.  Before `single_run` it finds a flag that
is STOPPED and is ignored, which is why `Interrupt` needs `state = 1`.

### LeelenNumber and NumberText

A character is one of ten digits or `Sep`, any other one.  A number is the
record of the fields of `struct LeelenNumber`.  Where there is no extension,
`LeelenNumber_init` leaves the byte `extension` as it was, so the parser takes
the memory it writes to as the parameter `dest`.  `base` is a set of at most one
number.  `NumberText` writes a text character by character; the digit is given
by the place, since the parser asks whether, not which.

`ParseMatchesForms` compares the parser with a definition of its own: the three
forms of `number.h:134-138` as the ways to cut a text into fields.  Where two of
them fit, `number.h` does not say which one is meant; the code reads a single
digit after the only separator as an extension, and the definition follows it.

### CommandLine

The text of an option is what it stands for: an interface or an address is a
family, an interface index and a host; a number is the integer it spells, or
none.  `argtoi` cuts what `strtol()` returns to an `int` of `IntRange` values
before it compares.  `last` is a history variable: the last port given for each
of the six port options.

### Inet46 and Addresses

A word has `Bits` bits in place of 32, and `0xffff`, `127.0.0.1` and so on keep
their shares of it.  A socket address is a family and its words; ports play no
part in the properties.  Functions that may fail are sets with one element or
none.  In `Addresses` `device` is the configuration of the device that is
called, which is a bridge too, `report` what it says its address is, and
`theirs` the address of the caller's dialog.

## What is checked

| run | instance | shows |
|---|---|---|
| `dialog` | 2 devices, 1 datagram one way and 2 the other, CALL, ACCEPTED | `TypeOK`, `WaitIsArmed`, `SilentPeerOnlyAfterBye`, `InviteSettles`; the dialogs implement `CallLeg` |
| `discovery` | 2 workers, 3 calls | `NeverStale`, `SoleCallerIsTold`, `ResultStands`, `CallReturns` |
| `discovery_peer` | 2 workers, 2 calls | violated: `SuccessIsThePeer` |
| `session` | 3 transactions at a time, 4 packets, any garbage, all failures but `bye` | `RefsCoverHolders`, `CurrentIsAttached`, `CallHasTransaction`, `SilentSessionEnds` |
| `session_ack` | no failures, ACKs | violated: `CallKeepsSession` |
| `session_leak` | no failures | violated: `DestroyedWhenUnused` |
| `table` | 3 sessions, 2 transactions each, references up to 3 | `ArrayIsSound`, `HoldersAreSafe`, `SweepMissesNone`, `HolesAreReused` |
| `table_lost` | 3 sessions, 1 transaction each | violated: `OthersStay` |
| `threads` | flag: 2 callers, 2 workers, 2 stops; program: 2 INVITE workers; forwarder: 3 starts | flag: `AtMostOneDaemon`, `FlagHasOwner`, `JoinWaits`, `StopTakesEffect`, `StartReturns`; program: `AllReleasedOnce`, `LastRound`, `StopEnds`; forwarder: `HalvesAreBounded`, `LastReceive`, `StartHolds` |
| `data` | texts of up to 12 characters; up to 4 options; 6 clients, 6 devices, words of 8 bits | numbers: `ParseMatchesForms`, `FormsAgree`; options: `ListenWins`; addresses: `RepliesReachIPv4`, `CallsReachDevice`, `NetworksMatch` |
| `options_interface` | up to 2 options | violated: `InterfaceIsTaken` |
| `sip_reply` | 6 clients | violated: `RepliesGoBack` |

### What the violated properties say about the code

- **A discovery can return another phone's address** (`discovery_peer`).
- **The ACK of a 200 frees the session** (`session_ack`).  `SIPLeelen_receive`
  finds the session, gets no transaction for the ACK, and calls
  `SIPLeelen_decref_session` without having taken a reference.
- **The last reference does not destroy the session** (`session_leak`) when it is
  given back by `SIPLeelenSession_decref`, as the sweep and the INVITE worker do.
  In the run the phone is not found, the INVITE gets its 404, the sweep takes the
  session out of the array and libosip2 ends the INVITE before the worker has left:
  the worker's reference is then the last one.  `refcount_dec` turns the counter
  from 1 to 0, says so, and puts it back to 1; `SIPLeelenSession_may_free` asks
  `refcount_should_free` again, of the 1, and frees nothing.
- **Removing a session drops another** (`table_lost`): `ptrvsteal` of the last
  session cuts the array off before the last one that is left.  That session is
  not freed, but packets no longer find it and the sweep no longer comes to it.
- **`-i` ends the program** (`options_interface`): the result of `argtosockaddr` is
  compared the wrong way round, so an interface that can be parsed is an error
  and one that cannot is passed over.
- **Replies to IPv6 clients go to an IPv4 address** (`sip_reply`):
  `IN6_SET_ADDR_V4MAPPED`, which overwrites the address, stands where
  `IN6_IS_ADDR_V4MAPPED` is meant.

### What else the models say about the code

Dialogs and sessions:

- When the ACK of a BYE stays out, `LeelenDialogState_nak` makes the dialog
  CONNECTED, also one that was still CONNECTING when the BYE was sent
  (`dialog.h:32`: "dialog is established").  `SilentPeerOnlyAfterBye`, proved,
  says that this is the only way to be CONNECTED to a peer that never spoke.
- `said` is what a device has said since the start and is never reset, so of the
  second dialog of a device the refinement says less than of the first: a leg may
  move on a code of the dialog before.
- An ACK does not say what it acknowledges: that of the CALL can end the wait for
  that of a BYE.  The refinement of `CallLeg` holds because the leg, too, moves
  on any ACK the peer ever sent.
- A SIP message that cannot be sent costs more than the message.  When it is the
  100 of an INVITE, the transaction is dead before the worker has begun, and the
  worker stores it as `session->transaction` (`uas.c:127`), where
  `_SIPLeelen_kill_transaction` no longer comes to withdraw it: the sweep then
  skips the session, once it is CONNECTED, for ever (`sipleelen.c:459`).  When it
  is a 488 to a repeated INVITE, or a 487 to a cancelled one, the transaction of a
  call goes while the dialog is CONNECTING, and the dial timeout of the sweep
  follows NULL (`sipleelen.c:435-436`).  `CurrentIsAttached` and
  `CallHasTransaction` say what holds until then (`lost`);
  `CurrentOfSentMessages` and `NeverCrashes`, both proved, say that nothing else
  leads there.  An INVITE that is repeated after its transaction was killed so, and
  before the worker has stored it, finds no session and makes another one; that one
  is outside of this module, which has one session.
- The sweep reads `leelen.state` of every session, also of one whose dialog is not
  set up yet or never will be (`sipleelen.c:430`), while
  `SIPLeelenSession_init` sets only `leelen.id` (`session.c:214`).  If malloc() left
  a 1 there, the session looks CONNECTING; when its INVITE was answered and ended
  by then, `session->transaction` is NULL and the program crashes.  The runs reach
  this; `CallHasTransaction` names it as the other cause (`~ ses.dlg.live`), and
  `NeverCrashes` excludes it by an assumption on the memory (`CleanMemory`).
- Requests in the SIP dialog other than INVITE, BYE, CANCEL, OPTIONS and REGISTER
  have no callback (`uas.c:379-394`).  `SIPLeelen_receive` attaches their
  transaction all the same (`sipleelen.c:247-250`), nobody answers it, and it holds
  its reference for ever; if there was no current transaction it becomes it, and
  the sweep skips the session as long as it is CONNECTED.  An answer for which
  there is no memory has the same effect.
- `SilentSessionEnds` is therefore about sessions whose requests have all been
  answered, and whose current transaction, if any, has not been killed.  There are
  two more ways to an INVITE that is never answered.  When the LEELEN ACK comes
  after 500 ms but before the sweep, `LeelenDialog_receive` ends the dialog, the
  sweep finds it DISCONNECTED, and nobody answers (`uac.c:58`).  When the body of
  an ACK cannot be parsed, the dialog is CONNECTED, the INVITE is still the current
  transaction, and the sweep skips the session.
- Two references are never given back: the one the sweep takes when it answers a
  call that was set up in vain (`sipleelen.c:440`), unless something fails, and the
  one for a transaction that is not made (`uac.c:103`).  `RefsCoverHolders` allows a
  counter that is too high.
- The run `session` leaves the failure `bye` out: with it `RefsCoverHolders` does
  not hold, because the sweep gives the reference of the array back when the BYE
  of a session timeout cannot be sent, and leaves the session in the array
  (`sipleelen.c:464`).  `AckOf200` is in `AckSpec` only, for the same reason.
- `CallKeepsSession` is violated without ACKs too, by a longer behaviour: a
  retransmitted INVITE starts a worker for a session that was refused and has left
  the array, and nobody hangs the call up.

Threads:

- `single_join` after `single_stop` does not wait: it looks for a flag that is
  RUNNING (`single.h:106`), and the flag is STOPPING.  Every destructor of the
  program has this sequence, and `forwarder.h:58` and `discovery.h:129` say it
  waits.  A join that started while the daemon was running does wait
  (`JoinWaits`, proved).
- So `Forwarder_destroy` and `LeelenDiscovery_destroy` close sockets under their
  threads.  What bounds the harm is that the flag never comes up again:
  `LastReceive` and `LastRound`, both proved, say that each thread looks at them
  once at most.
- Of two halves that share a flag, the first that ends makes it STOPPED, and a
  start may follow while the other still sleeps.  That other half then runs on
  behalf of the new start; `HalvesAreBounded`, proved, says that the threads do
  not pile up by more than one per start.  A half that has seen the flag
  STOPPING and then ends takes down the start that came in between
  (`StartHolds`).
- `SIPLeelen_destroy` frees the sessions while workers may run and joins none of
  them.  `StopEnds` holds because every wait has a timeout or is woken, and
  because `cnd_destroy` waits for those still inside `cnd_timedwait`.
- `LeelenDiscovery_destroy` closes `sockfd` and `sockfd6` and never `spec_sockfd`;
  `AllReleasedOnce` excepts it.
- When the IPv6 socket of the discovery cannot be opened beside an IPv4 one, a
  warning says that the program goes on; `setsockopt()` is then called on -1 and
  ends it.

Numbers, options and addresses:

- `LeelenNumber_equal` compares the extensions exactly where there are none, and
  ignores them where there are; `EqualIsSameRoom`, part of `FormsAgree`, says what
  it compares instead.  A repeated INVITE for the number that is being called may be
  refused with 400.
- The 5-byte form exchanges the halves of each field: `LeelenNumber_tobytes` puts
  the second half first, `LeelenNumber_frombytes` reads the first half first.
  `BytesSwapHalves` states exactly that.
- `LeelenNumber_init` returns 2 for a text that needs a base and has none, and
  `leelen2sip.c:276` relies on it, while `number.h:143` says "otherwise 1".
- `IntRoundTrip` is about memory without an old extension:
  `LeelenNumber_has_extension` takes a byte left over from an earlier number for
  an extension.
- `usage()` gives the port of `LEELEN_DISCOVERY_PORT` as the default of
  `--discovery-listen` (`leelen2sip.c:192`), but `--discovery` moves it too;
  `ListenWins` follows the code.
- `argtoi` cuts the result of `strtol()` to an `int` (`arg.c:19`), so that a port
  of 2^32 + 5060 is 5060.
- The port of SIP is compared with the ports that are sent to, not with those
  that are bound, and never with that of VoIP (`leelen2sip.c:72-79`).  Without an
  `<interface>` `config.addr` keeps the family AF_UNSPEC; the host that is
  compared was never stored, and a call cannot open its socket and ends in 500.
- `--report-addr` is overwritten by `LeelenDiscovery_sync`.
- A host that reports an IPv6 address to a bridge on IPv4 ends the call in 500,
  also when `sockaddr_to4` has just converted it (`uas.c:90-98`).
- `recvfromto` stores `ipi_addr`, so that a bridge on all addresses reports the
  group 224.0.0.1 as its own; for IPv6 nothing is stored.  `CallsReachDevice` says
  that a call to the group still arrives and that the first answer puts the
  dialog right.
- The IPv6 group of the discovery is written with a byte for each digit
  (`protocol.c:17-18`) and is 0f0f:2::1.
- `inet_innetwork6` compares the words behind the prefix, not those of the prefix
  (`route.h:115-119`); `NetworksMatch` says what that amounts to.  The bridge does
  not call it.

### Bounds

- `AckTimeout = 1`, `SentMax = AckTimeout` in `DialogNet`: a wait is either fresh
  or over; no test tells older ages apart.  In `Session` `SentMax = 3`, for the
  test of `2 * timeout`, and `Duration = 2`, so that a session timeout comes
  after a dial timeout and before or after the end of a transaction.
- One datagram per direction is enough to lose, duplicate and cross; two in one
  direction are enough to reorder, and the devices are alike.  In a call
  only ACCEPTED is sent, which moves a CONNECTED dialog back to CONNECTING;
  OPEN_GATE, which only starts the timer of a dialog that waits for nothing, and
  the other invitations, which the tables treat like CALL, are left to the proofs.
  Those cover any capacity and all codes.
- Two callers and two workers are enough for a start during a stop, two joins,
  and a stop between two daemons; the proofs cover any number.
- Three starts of a forwarder (`MaxStarts`) leave halves of two earlier ones beside
  the current one; the proofs cover any number.
- Two INVITE workers are one that the mainloop joins and one that waits for the
  discovery meanwhile; the proofs cover any number.
- Two workers are enough for cross-talk in a discovery; three calls for a stale
  result of an earlier call beside two that overlap.
- Three transactions are an INVITE, a CANCEL or BYE and a BYE of ours; four
  packets are an INVITE, its repetition or another request, and two LEELEN
  messages, or one and a BYE.  The proofs cover any number.
- Three sessions are enough to have one in the middle of the array and to reuse
  its place; `MaxHeld` is a call and a request, `MaxRefs` lets one reference be
  lost.  The proofs cover any number.  The model values of the sessions are
  symmetric, no property of the run is temporal.
- `TextMax = 12` is one character more than `LeelenNumber_init` accepts.
- `MaxOptions = 4` is a number and three more: both options of one service in any
  order and one of them again, or those of two services.  `MaxPort = 4` leaves one port free beside the three services, and
  `IntRange = 16` makes 20 a port once it is cut.
- `Bits = 8` has room for the marks of a mapped address in half a word; `Prefixes`
  has those at and around the ends of words.
- `MaxStops`, `MaxStarts`, `MaxCalls`, `MaxTraffic`, `MaxHeld`, `MaxRefs`, `TextMax`
  and `MaxOptions` are the only bounds on counters.

### Fairness

- `DialogNet`: the clock ticks and owners poll `LeelenDialog_ack_timeout` (the
  sweep does, every 8 polls of 100 ms).  Nothing is asked of the network.
- `SingleFlag`: a thread inside the library or a daemon is scheduled again; a
  weak compare-exchange does not fail for ever on a flag it can take, which is
  strong fairness of `Exchange`, as others may take the flag in between.
- `Lifecycle`: `main()`, the discovery daemon and each worker are scheduled;
  `poll()` and `cnd_timedwait()` have timeouts in this program.  Nobody has to
  press Ctrl-C, and no packet has to come.
- `Discovery`: weak fairness of each caller's next step; waits have a timeout.
  Nothing is asked of the daemon or the network.
- `Session`: the mainloop sweeps, the clock ticks, the worker is scheduled,
  libosip2 runs its timers.
- `Forwarder` has no liveness property and no fairness: a half with a busy socket
  may never be told of a stop before a new start.

`CHECK_DEADLOCK FALSE` is given where the program may stop: the discovery after
its last call, the session after its end, the program after `exit`, the text when
it is full and the command line at its end.

## What is proved

All proofs are for every value of the constants that the named assumptions
allow: any set of devices with a symmetric, irreflexive `Peer`, any network
capacity, any positive `AckTimeout` (`TimeAssumption`, `NetAssumption`); any
disjoint sets of callers and workers (`SingleAssumption`); any set of sessions
(`TableAssumption`); any number of starts of a forwarder
(`ForwarderAssumption`), of INVITE workers (`InviteWorkersAssumption`), of
workers and calls of a discovery (`DiscoveryAssumption`), and of transactions of a
session (`SessionAssumption`); texts of any length, any number of options, and any
addresses.

`DialogNet_proofs`:

- `TypeCorrect`, `AlwaysArmed`, `NeverConnectedToSilence`.  `WaitIsArmed` is
  inductive with the type: every table that leads to a waiting state is used by
  `Sent`, which sets the stamp, and the one place that clears it, `AckChecked`,
  leaves the wait in the same step.  `SilentPeerOnlyAfterBye` is not inductive
  alone: a dialog that is DISCONNECTING must have sent a BYE, since the timeout
  takes it to CONNECTED.  That is the strengthening.
- `DialogIsCallLeg`: initial states map to initial states, and every action maps
  to a step of `CallLeg` or leaves its variables alone.  It needs the invariant
  that a datagram on its way was said by its sender (`said` covers `net`) and
  `WaitIsArmed`, for the wait of the leg.

`SingleFlag_proofs`:

- `TypeCorrect`, `MutualExclusion`, `NeverOrphaned`, `JoinOutlivesDaemon`.  The
  inductive invariant says that there is exactly one owner when the flag is up
  (a daemon, or a caller between the exchange and thread creation) and none when
  it is down.

`Forwarder_proofs`:

- `ForwarderTypeCorrect`.
- `AtMostOneLateReceive` (`LastReceive`), from `CloseInv`: once the owner destroys
  the forwarder the flag is not RUNNING, so a half that has left `poll()` since
  does not come back to it.
- `OnlyStopEnds` (`StartHolds`), from `StartInv`: no half of the current start
  leaves its loop while the flag is RUNNING.
- `ThreadsAreBounded` (`HalvesAreBounded`), from `CountInv`: the halves, counted as
  a cardinality, with those the owner may still add before it is idle, and one
  more while the flag is STOPPED, are no more than the starts and one.

`Lifecycle_proofs`:

- `TypeCorrect`.
- `NothingLeftBehind` (`AllReleasedOnce`), from `HeldInv`, which says of each stage
  what is held there.
- `OneRoundAtMost` (`LastRound`), from `DaemonInv`: after the stop the flag of the
  discovery does not come up again, so a daemon that has read from the closed
  sockets ends at its next check.
- `ThreadsKeepTypes` (`TypesOK` of `MCThreads`): the types of the program and of the
  forwarder, whichever part moves.

`Discovery_proofs`:

- `TypeCorrect`.
- `NoStaleHost` (`NeverStale`), from `FreshInv`: when `initres` is not 254, it was
  written since the start of every call that is past its first test.
- `SoleCallerHears` (`SoleCallerIsTold`), from `AloneInv`: a call that has been
  alone and has been answered finds the answer in `initres`, as only another call
  resets it.
- `FirstAnswerStands` (`ResultStands`), from the type alone.

`Session_proofs`, for any set of transactions and any limits that
`SessionAssumption` allows.  `AckOf200` is not a step of `Spec`.
`CounterCoversHolders` excludes the failure `bye`, with which it does not hold
(above); `CurrentOfSentMessages` and `NeverCrashes` exclude `sip`, and the latter
also memory of a new session that looks like a dialog that is being set up
(`CleanMemory`); the others are for any failures:

- `TypeCorrect`, `CounterCoversHolders` (`RefsCoverHolders`), `CurrentNeverDangles`
  (`CurrentIsAttached`), `CurrentOfSentMessages`.  The inductive invariant
  `SafeInv` says of a session in memory that its counter covers the array, the
  transactions (a cardinality) and the workers, that `session->transaction` is one
  of them or a message was lost, and that a dialog that is CONNECTING has a timer
  (`Armed`); of one that is not, that nobody reaches it; and that a message is only
  lost where `sip` is among the failures.  `Armed` is what makes the dial timeout
  give back one reference and not two: the check of the timer has made the dialog
  DISCONNECTED, so there is no BYE that could fail.  With `bye` among the failures
  the counter promises nothing (`Counted` is false), and what is left of the
  invariant still carries the other theorems.  `JobAttached` is what lets the
  worker store the transaction it works for: unless a message was lost it was
  attached or repeated less than `Linger` ago, and no tick passes while a worker
  runs.
- One lemma per function of the code carries this through it (`AttachSound`,
  `KillSafe`, `UnsentSafe`, `DecrefSafe`, ...).  `Same` collects the functions that
  holders do not see, such as the moves of the dialog; `Near` is what an answer
  does, which is the same if it is sent and ends the transaction if it is not;
  `Inherits` is what every step keeps of the history.
- `CallKeepsTransaction` (`CallHasTransaction`) and `NeverCrashes`, from `CallInv`,
  which relates, until a message is lost, the age of the wait for the ACK to that
  of the current transaction's answer: a worker has a transaction that was answered
  at most `RetryAge` ago and no dialog that waits; when it sends the CALL it makes
  that transaction the current one, no tick passes before it ends, and the next
  sweep that is due handles the timeout, so the transaction is at most
  `RetryAge + AckTimeout` old, which `SessionAssumption` puts below `Linger`.  A
  crashed session has a dialog that was never set up and looks CONNECTING
  (`Dead`), and where malloc() leaves no such memory there is none.  `Follows`
  collects what the functions of the code keep of this; `Calms` is the weaker
  promise of a LEELEN message, which may kill the transaction because it has ended
  the wait.

`SessionTable_proofs`:

- Lemmas about `array.h`: inserting puts the element into one place and keeps the
  others (`InsertResult`); stealing empties one place and may cut off the end
  (`StealResult`); taking leaves no element that was there once (`TakeResult`).
- `TypeCorrect`, `ArrayAlwaysSound`, `HoldersAlwaysSafe`.  Neither of the last two
  is inductive: a session is freed when its counter reaches 0, and that nobody
  holds it then, the array included, takes the invariant `Counted`, that the
  counter of an allocated session is at least 1 and at least the number of its
  holders.  The lemmas carry it through each action: a lost element only lowers
  the number of holders.
- `SweepIsComplete` (`SweepMissesNone`), from `SweepInv`: no session that was due
  when the sweep began stands before its index.
- `ArrayStaysShort` (`HolesAreReused`): an insertion takes a hole if there is one,
  so the array is never longer than the most sessions there have been.

`Data_proofs`, for texts of any length, any number of options and integers
(`CommandLineAssumption`) and any clients, groups and homes that
`AddressesAssumption` allows:

- `ParserTakesListedForms` (`ParseMatchesForms`).  The parser and the list of
  forms it should accept are taken apart into the same shapes: refused at once,
  no separator, one separator before the last digit, one elsewhere, two.
  `InitCases` says what the parser does with each shape (`InitForms`),
  `RoomReadings`, `JoinedReadings` and `BlockRoomReadings` which forms a text of
  that shape can have, and the theorem compares the two shape by shape.  The
  lengths that are left are few, as a number has at most 11 characters; that a
  text may be longer costs nothing, as it is refused.
- `NumbersAreFilledIn` and `FormsOfNumbersAgree` (`FormsAgree`).  The digits of a
  number that was parsed are digits, so the sums and remainders of the packed
  forms are linear arithmetic.
- `SettingsKeepTypes` and `ListensOnLastPort` (`ListenWins`), from `PortsInv`: the
  bit of a service in `listen` is set once its `--X-listen` was given, and no two
  services share a port after the test in `start_leelen2sip`.  What `argtoi` cuts
  to an `int` is in range again when it passes the test.
- `RepliesReach` (`RepliesReachIPv4`), `CallsReach` (`CallsReachDevice`) and
  `FamiliesMatch`, from `AddressesInv`, which says of a report where it comes
  from: it is the address of the device, the group it was asked in, garbage, or
  the loopback address of a device on ::1 (`Heard`), each in the form that the
  two conversions give it.  An IPv6 home that looks like an IPv4 one is left out
  by `AddressesAssumption`; with it, the device would be taken for one with an
  IPv4 address.
- `PrefixesByBits` (`NetworksMatch`).  `NetworksMatch` compares the words of an
  address with its bits for the prefixes and words of the run; the lemmas under it,
  `IsNetworkByBits`, `InNetworkByBits` and `InNetworkOfWords`, do for all words and
  all prefixes from -1 to `4 * Bits`, whatever `Bits`.  The provers know no law of
  powers and cannot instantiate the library's induction theorems, so both are
  built here: `2 ^ n` is the number of subsets of `1 .. n` (`FS_SUBSET`), from
  which `Powers` counts that one more element doubles it, and `Induction` speaks of
  a set that holds 0 and each successor, from the least number outside of it
  (`WFMin`).  `LowBits` and `HighBits` then take a word apart at any bit.
- `DataKeepsTypes` (`TypesOK` of `MCData`): each of the three modules makes no
  steps but its own when they stand beside each other (`EachPartRuns`).

Only model-checked is every liveness property, as fairness is beyond this prover;
each invariant and each action property that a passing run checks is stated by a
theorem too.

## Not modelled, and why

- Formatting and parsing (`message.c`, `sdp_message.c`, `osip.c`, the text of
  discovery messages): a choice between success and failure wherever a branch
  depends on it.
- `voip.c`, the array of dialogs, beyond receiving and connecting: the bridge uses
  one dialog per session and none of this file.  Read beside the models, it has two
  flaws: shrinking counts a dialog that is not there (`voip.c:47`), and receiving
  does not skip the holes that destroying leaves (`voip.c:22`).
- `host.c`'s discovery of one host and `utils/server.c`: not called by the bridge.
- `pbr.c` and `localip.c`: rules of the kernel, not called by the bridge.
- Logging and thread names: output.
- Regular expressions of `--reply-to`, and the failure of `realloc()` in
  `array.h`.
- The failure path of `SIPLeelen_new_session` when a mutex cannot be made: it takes
  the session out of the array and then frees what the array has at that index
  (`sipleelen.c:51-52`).  `NotNew` is its outcome for the callers.
- What the threads of a session do to it after `SIPLeelen_destroy` has freed it:
  `Lifecycle` says when the program is gone, not which memory a worker still
  looks at until then.
- libosip2 sends an answer of the worker at once, from the worker's thread; if
  that happens before the callback for the INVITE has returned, libosip2 is not
  in IST_PROCEEDING yet.  `Session` does not go into libosip2 that far.

## Plan

Done, in this order: `LeelenDialog`, `CallLeg`, `DialogNet` and proofs;
`SingleFlag` and proofs; `Discovery`; `Session`; `PtrVector`, `SessionTable` and
proofs; `LeelenNumber` and `NumberText`; `Forwarder`, `Lifecycle`, `Inet46`,
`Addresses`, `CommandLine`; proofs of `Forwarder`, `Lifecycle`, `Discovery` and `Session`; proofs of `NumberText`,
`CommandLine` and `Addresses`.

Next, in the order of what they add:

1. Memory after the end: `Lifecycle` with the sessions of `SessionTable`, to say
   which of them a worker may still reach when they are freed.
2. `Forwarder` inside `Session`, once the bridge starts one.
3. `LeelenVoIP` on top of `PtrVector` and `LeelenDialog`, once the bridge uses it.
