# ESP_SSLClient: specification, model checking and proofs

ESP_SSLClient is a TLS client for Arduino-like boards: `BSSL_TCPClient` (the
class applications use) on top of `BSSL_SSLClient`, which drives the BearSSL
engine over any Arduino `Client` (the *transport*: WiFi, Ethernet, GSM). This
directory holds TLA+ modules of the client and of the engine, the TLC
configurations that check them, and TLAPS proofs of their main properties.

Paths below are relative to the repository: `src/src/client/SSLClient.h` is
written `SSLClient.h`, `src/src/bssl/ssl_engine.c` is `ssl_engine.c`, and so on.

## The system

| Part | State it keeps | Operations | Modules |
|---|---|---|---|
| `BSSL_SSLClient`, life cycle (`SSLClient.h`) | `_secure`, `_is_connected`, `_handshake_done`, `_sc`/`_eng`, I/O buffers, validator, `_write_idx`, `_recvapp_*`, write error, time-outs, stored target | `connect`, `connectSSL`, `stop`, `connected`, `validate`, `write`, `read`, `available`, `flush`, `peek*`, `availableForWrite`, probe, settings | `SSLClient` |
| `BSSL_TCPClient`, facade (`TCPClient.h`) | its own `_host`, `_port` | the same, plus TLS upgrade with what is stored | `TCPClient` |
| I/O pump (`mRunUntil`, `mUpdateEngine`) | positions in nested loops, deadline | moves bytes between application, engine, transport | `SSLPump`, `ByteChannel` |
| Engine, buffers (`ssl_engine.c`) | registers `ixa` … `oxc`, `iomode`, `application_data`, the handshake coroutine | `*_buf`, `*_ack`, `flush`, `close`, `renegotiate`, `jump_handshake` | `EngineIO`, `AbstractEngine`, `EngineIORefines` |
| Engine, record layers (`ssl_rec_*.c`) | scheme, sequence number | span, split, seal, length check, unseal | `RecordLayers`, `RecordFlow` |
| Engine, handshake (`ssl_hs_*.t0`) | session, keys, message hash, what it waits for | one per message, alerts | `Handshake` |
| Server session cache (`ssl_lru.c`) | a list and a binary tree in one store | save, load, forget | `SessionCache`, `AbstractCache` |
| Authentication settings (`SSLClient.h`, `Helper.h`) | trust flags, fingerprint, key, anchors, CA, client pair, store, stored session | setters, validator choice, resumption | `AuthSettings` |
| X.509, PEM, `X509List`, keys, `CertStore`, MFLN parser, `br_sslio`, `Memory.h`, `vector/`, cryptography | | | not modelled |

**How they interact.** All is calls in one thread. The facade delegates to
`BSSL_SSLClient`; this calls the transport (external) and the engine. The
engine's calls enter the handshake processor, a coroutine of T0 code that goes
on until it has nothing to read or no room to write. The pump is the one place
where calls nest unexpectedly: `mRunUntil` and `mUpdateEngine` call `stop()`
when something fails, `stop()` calls `flush()`, and that calls `mRunUntil`
again. `write()`, `connect()` and `validate()` look at the session timeout
first, and may close and reopen the connection before they do their own work.

**What is hard here.** There are no threads, but
* the transport may be lost, and time passes, between any two steps of a loop;
* `stop()` frees the engine under loops that are still running;
* `_eng` and `_recvapp_buf` are aliases into memory others free;
* an idle connection is silently replaced by a new one, to a *stored* target,
  in the mode (plain or TLS) it was found in;
* any allocation in `mConnectSSL` may fail;
* input and output may share one buffer (`SSLCLIENT_HALF_DUPLEX`), and then
  each may wait for the other;
* a record is encrypted in place: room for header, initialisation vector,
  split, padding and tag is reserved before anybody knows what will be written,
  and the scheme may change in between;
* the application and the handshake processor write into the same record;
* settings are flags tested one after the other much later;
* the two ends may remember different things of an earlier session.

`PROJECT.json` lists these hazards one by one, at their lines.

**What makes each part correct.**
* Life cycle: the engine is allocated whenever something may use it; a secure
  client shook hands on the connection that is open; a write error ends the
  connection.
* Facade: whoever asked for TLS never writes in the clear; bytes go to the
  target last connected to.
* Pump: bytes leave in order, once each, nothing is overwritten; every call
  returns; no loop runs on a freed engine.
* Engine: no register leaves its buffer; nobody waits for what cannot come;
  a byte leaves in a record of its own type; a shared buffer holds one
  direction at a time.
* Record layers: what one side seals fits its buffer, and the other side takes it.
* Handshake: both ends agree, nothing is downgraded, nobody unauthenticated
  gets through, compatible ends come together.
* Cache: it is an LRU map, whatever the tree goes through.
* Settings: one trust mode is in force, and never a weaker one than the last
  one asked for; the client pair set is offered.

## The modules and the code

`PROJECT.json`, under `map`, names the lines each definition stands for.

### `SSLClient`
All members of the object that matter, with the transport, are one record `w`
of the set `World`. A C++ method `M` is the operator `M(w)`: the world after
it, or the *set* of outcomes (world and value) if the network or `malloc`
decide. Methods are composed as in the code: `write` is
`mCheckSessionTimeout`, then `mRunUntil`, and so on. A call of the application
is one atomic step; what happens inside its loops is the subject of `SSLPump`.

Abstractions: addresses are model values; a port is in the `_secure_ports`
table or not; `_write_idx` and `_recvapp_len` are kept as "zero or not"
(`pending`, `recv`), and `recv` also remembers whether the bytes are of the
connection that is open; `_session_ts` is unset, fresh or expired; the engine
is closed or not. Two ghost facts are added: `peer`, whom the transport was
last connected to, and `engHere`, whether the engine's handshake ran on the
connection that is open.

Of the transport it is assumed that `stop()` closes it, and that `write()`
returns no more than 0 only when the connection is lost or its write error is
set. A transport is always set (`mIsClientInitialized` is true), and the
application gives `setClient` a transport that is not connected yet. The client
is a static object, so `_host` begins empty.

### `TCPClient`
Extends `SSLClient` with `_host` and `_port` of the facade, the last call and
how its bytes left (`call`), and the application's last granted wish (`asked`):
whom it connected to and whether that was TLS. `Uses` switches habits of the
application on and off: session timeouts ("idle"), enabling and disabling SSL
("switch"), connecting while connected ("over"), the `validate`, probe and peek
calls ("peek"), and the `connect` that takes certificates as arguments ("certs"),
which stores no target. The probe is made of addresses only: the one of a host
name calls itself (`SSLClient.h:822`) and never returns.

### `SSLPump`, `AbstractEngine` and `ByteChannel`
`SSLPump` opens the calls up. Each iteration of `mUpdateEngine` or `mRunUntil`
is a step; the calls in progress are the frames of `stack`, so `stop()` called
from inside a loop is a frame on top of it, and the freed engine is what the
frames below find when it returns. `taken` and `sent` count the bytes `write()`
copied and the bytes in records that left whole.

The engine it drives is that of `AbstractEngine`, the record `eng`: bytes of
the record being filled (`acc`), bytes and pieces of the record being sent
(`rec`, `left`), decrypted bytes (`plain`), whether an incoming record is
incomplete (`part`), and whether the engine is closed, was told of a closure
(`shut`) or gives the application its turn (`app`). `SENDREC`, `SENDAPP`,
`RECVREC` and `RECVAPP` are the bits of `br_ssl_engine_current_state` as
functions of these, for two buffers and for a shared one.

`ByteChannel` is the abstract promise: while a connection is up it takes bytes
and sends no more than it took; a connection counts from its own beginning.
`SSLPump` implements it with `up <- secure` (property `ChannelSpec`).

### `EngineIO` and `EngineIORefines`
`EngineIO` is the engine of the code: the registers with their real offsets,
`iomode`, the schemes in force in both directions, and the handshake processor
`cpu` as a coroutine. A call of the engine that enters the processor is
followed by steps of the processor until it yields (`cpu.run` is "off" again);
no other call begins before. `jump_handshake()` gives it a window on the
buffers (`hin`, `hout`), `put` counts what it wrote. The T0 words of the
handshake are kept as far as they touch the buffers: reading, writing,
`flush-record`, the type of records, `switch-*`, `set-max-frag-len`,
`application_data`, alerts and closure, and where each waits. Bytes are not
modelled, only where they lie, who wrote them (`by`), and how many of the
application are in the record being sent (`load`).

`Patient` says that the peer answers in turn. `Renegotiates`, `Forces` and
`Closes` switch on uses of the engine that ESP_SSLClient does not make (it sets
`BR_OPT_NO_RENEGOTIATION`, `Helper.h:1146`; flushes with 0 only; and its call of
`br_ssl_engine_close` is commented out, `SSLClient.h:497`); `Closes` is on in the
run, the proofs hold for all three.

`EngineIORefines` adds `held`, the abstract engine of the last moment at which
the registers rested. What `EngineIO` does from one rest to the next, a call
with all the processor does in it, is one step of `AbstractEngine` (property
`ImplementsEngine`). So what `SSLPump` assumes of its engine is what the code's
engine does.

### `RecordLayers` and `RecordFlow`
`RecordLayers` is the arithmetic of `ssl_rec_cbc.c`, `ssl_rec_gcm.c`,
`ssl_rec_ccm.c`, `ssl_rec_chapol.c` and of the clear layer of `ssl_engine.c`:
for a scheme (kind, block size, MAC and tag length), where the payload may lie
(`PayloadSpan`), what `encrypt()` makes of it (`Encrypt`: one record, or two for
TLS 1.0), which announced lengths `check_length()` takes, and what
`decrypt()` leaves. `RecordFlow` sends sealed records from a sender to a receiver with a
buffer of the legal size; a record is its key's sequence number, its length and
its plaintext.

### `Handshake`
Both automata, one action per message read, with the flight the reader then
writes. A message is its type, the keys that protect it, and what of its
contents decides. Secrets, randoms and session IDs are the number of the
connection they were drawn for. The hash of all messages is abstracted to the
set of messages this side read damaged (`odd`): two hashes are equal when both
sides read what the other one wrote. The server keeps its sessions in
`AbstractCache`, the client stores one. Between connections the application may
change the client's configuration or drop its session, the server may be
restarted or forget a session; during a connection the wire may damage one
clear message, and either side may send data, ask for renegotiation or hang up.

Facts the model carries and a reader may not expect:
* A client whose minimum version was raised (`setSSLVersion`, `SSLClient.h:807`)
  above that of its stored session fails every later handshake with this server:
  the server resumes at the old version, the client says
  `BR_ERR_UNSUPPORTED_VERSION` and keeps the session. It is a precondition of
  `CompatibleSucceeds` (`Compatible`).
* The server checks a resumed session against the client's list and version, not
  against a list of its own that was changed since.
* A BearSSL server that asks this client to renegotiate always loses the
  connection, although the client refuses politely and goes on: the warning 100
  it answers with is fatal to `process-alert-byte`, and application data under
  way is unexpected. `CompatibleSucceeds` says no more than what holds: the
  client does not fail.
* A damaged version is damaged in the record header too; otherwise the engine
  says `BAD_VERSION` before the automaton sees the message.

### `SessionCache`, `AbstractCache`, `SessionCacheRefines`
`SessionCache` keeps the store of `ssl_lru.c` as a function from addresses (the
number of an entry; 0 is `ADDR_NULL`) to entries with `prev`, `next`, `left`,
`right`, and models `find_node`, `find_replacement_node`, `remove_node`, the
moves in the list, and the three calls on them. The code masks IDs with a keyed
permutation; `Ids` are masked IDs in their order. `AbstractCache` is a sequence
of sessions, the last used first, with a capacity; a forgotten one stays in its
place until it is evicted. `SessionCacheRefines` reads the sequence off the list.
The loops of the code that follow links are walks of as many steps as there are
entries (`Walk`), which stay where they end; that none of them would need more
is part of what is proved.

### `AuthSettings`
The trust members as a record `s`, one operator per setter, the validator
`mInstallClientX509Validator` chooses, which servers that validator passes, and
the two ways to a connection: a full handshake, and resumption of a stored
session, which looks at no certificate. A server is its CA, key, fingerprint
and whether it is self-signed; dates and host names match, the clock is set,
`malloc` succeeds. Ghost variables: `asked`, the check last asked for (a setter
of half a client pair counts as asking for none, since it clears them all), and
`given`, the halves of a client pair given. `IssuerHashed` tells the platform
core from the internal core, where the decoder does not report the issuer and
no certificate is ever found to be self-signed.

### MC modules
`MCAuthSettings` supplies four servers, each right in one respect and wrong in
the others; `MCEngineIO` three pairs of buffers and three schemes; `MCHandshake`
three clients and four servers; `MCSessionCache` two sets of parameters.

### Proofs
`ClientProofs` (`SSLClient` and `TCPClient`), `AuthSettingsProofs`,
`SSLPumpProofs`, `RecordLayersProofs`, `RecordFlowProofs`, `EngineProofs`,
`SessionCacheProofs` and `HandshakeProofs`; see below.

## The runs

Passing:

| Run | Bounds | What it shows |
|---|---|---|
| `ssl_client` | one host, one address, one secure and one plain port | `EngineOwned`, `EngineOnItsConnection`, `WriteErrorIsFinal` in every order of calls and failures |
| `tcp_tls` | two hosts, one secure port, "idle" | idle reconnections keep TLS and the target |
| `tcp_mixed` | one host, one address, both ports, "switch", "peek", "certs" | writes keep TLS and the target across failures, upgrades and switches |
| `pump` | both builds, records of 2 bytes in 2 pieces, writes of up to 3 bytes, 4 bytes, 2 incoming records and 1 record of the processor per connection | `NoByteLost`, `WrittenIsSafe`, `ReadsWhatIsThere`, `StopNestsOnce`, `EngineAlive`, refinement of `ByteChannel`, `FullDuplexReturns` |
| `engine_io` | buffers for 512 bytes (shared and split) and 1024 (split), three schemes, incoming records of 0, 1 or 512 bytes, transfers whole or one byte short | `RegistersFit`, `OneAtATime`, `TypesKept`, `NeverStuck`, `InputIsRead`, refinement of `AbstractEngine` |
| `records` | every scheme; fragments of 512, 1024, 16384; buffers 0, 1, 7 or 240 bytes above the legal size; payloads 0, 1, 2, 9 or 17 bytes short of full; two records under way, sequence numbers up to 2 | `RecordsFit`, `NeverRefused`, `PlaintextKept` |
| `handshake` | three clients, four servers, three suites, three connections, caches of 0 to 2 sessions, one damaged message per connection | `Agreement`, `Authenticated`, `CompatibleSucceeds`, `HandshakeEnds` |
| `session_cache` | caches of 0, 1 and 4 entries, 5 IDs of which one is forgotten | `ListHasAll`, `TreeFindsAll`, refinement of `AbstractCache` |
| `auth` | two identities, four servers | `OneMode`, `OnlyAdmittedServers` |

Violations, each a disagreement between the code and what its documentation or
comments say (details under `findings`):

| Run | What it shows |
|---|---|
| `tcp_idle` | an idle plain connection is reopened to the target an earlier TLS attempt stored |
| `pump_silent` | a transport that writes 0 bytes without an error makes `mRunUntil` use the engine `stop()` freed |
| `auth_mutual` | `setCertificate` and `setPrivateKey` clear each other |

Other behaviour of the code met while modelling, which no run is about:
* an upgraded connection idles, its reconnection fails half-way, and the next
  one is plain (`SSLClient.h:1754`);
* `stop()` returns early on a plain connection and leaves it open
  (`SSLClient.h:488`), also the one a failed `connectSSL()` of the facade was to
  close;
* `connect()` to a secure port takes a transport that is open as it is, whomever
  it leads to, for its handshake and the bytes after it (`SSLClient.h:472`): with
  "over" among the habits `WritesReachTarget` is refuted;
* `connect()` of an address stores only the port, `connect()` with certificates
  nothing: `connectSSL()` then makes its handshake for the name of an earlier
  connection, or none (`TCPClient.h:71`, `:649`);
* `stop()` on a healthy connection closes the transport with bytes that
  `write()` accepted still in the engine, when `flush()` gave up
  (`SSLClient.h:506`);
* with a shared buffer, data that arrives while `write()` waits for room makes
  it loop for as long as nobody reads (`SSLClient.h:1857`); this is why
  `FullDuplexReturns` speaks of two buffers;
* `available()` counts bytes of an earlier TLS connection after the transport
  was reconnected plain (`SSLClient.h:217`);
* the fixed overhead of 85 bytes gives room for 511 bytes, not 512, with the
  smallest output buffer under AES-CBC with SHA-384 (`ssl_rec_cbc.c:298`);
* the comment on `cbc_check_length` says that the length must be a multiple of
  the block size; the code tests bounds only (`ssl_rec_cbc.c:53`), and so does
  `CheckLength`.

`tcp_tls` leaves "certs" out: after such a connect, `connectSSL()` stores the
target of an earlier one, and an idle connection is then reopened
to that.

**Why the bounds are enough.** `SSLClient` has no counters: its state is
finite once the addresses are, and the proofs cover any number of these. Two
hosts are needed only to tell targets apart; `tcp_mixed` tells them apart by
host, address and port. In the pump, a record of two bytes is the smallest that
can be partly filled, and two pieces the fewest that can be interrupted; a
write of three bytes fills one record and begins another; four bytes allow two
full records; two incoming records allow one in the middle of a write and one
in the middle of the `stop()` that follows. The pump's safety properties are
proved for any sizes. `engine_io` has real offsets: 512 is the smallest
fragment length the engine supports, 1024 the smallest the peer may lower; a
cut of one byte stops a header, a body, a payload or a record short of its end;
the schemes differ in what they put before and behind the payload, and
`RegistersFit` is proved for all. `records` takes every scheme; slacks and cuts
are around the places where rounding to a block changes. In `handshake` three
connections are a full one, a resumption, and one after something changed; the
messages a connection may have damaged are those whose contents decide. Four
entries are the fewest with which a tree node with two children is removed
that is not the root, five IDs the fewest that evict from a cache of four.

Bounds are guards of the environment, never of the code: `MaxTaken`,
`MaxWrite` (the application), `MaxIn`, `MaxOwn` (the peer and the handshake
processor), `MaxConns`, `MaxWire`, `MaxSeq`.

**Assumption on the peer.** In `engine_io` `Patient` is TRUE: no input follows a
flight, a ChangeCipherSpec or a closure alert in the same record or before the
answer. Without it `NeverStuck` and `InputIsRead` fail: a peer that goes on
after it has to wait can put input into a shared buffer that is never read,
because the output it waits behind has no room. With `Renegotiates`
`TypesKept`, `NeverStuck` and `InputIsRead` fail (application data gathered
when a handshake begins again), with `Forces` `OneAtATime` fails: an empty
record forced out of a shared buffer that holds input, which
`bearssl_ssl.h:1790` and `:2207` leave to the caller. Neither happens under
ESP_SSLClient.

**Deadlock** is checked where somebody can always take a step: the
application can make another call, and the pump's thread always has a step
inside a call. It is not checked in `engine_io` (a closed engine makes no step),
`handshake` (after `MaxConns` connections) and `records` (after `MaxSeq`
records). There `NeverStuck`, `HandshakeEnds` and `NeverRefused` say what must
not stop.

**Fairness.** `SSLPump`: `WF(Thread)`, because the processor runs
the code inside a call, and `WF(TimePasses)`, because `millis()` advances. The
application and the peer owe nothing. `FullDuplexReturns` needs that the input
is finite (`MaxIn`): the inner loop of `mUpdateEngine` has no clock, and a peer
that sends for ever keeps it busy for ever. `Handshake`: `WF(ClientStep)` and
`WF(ServerStep)`, because each side runs its engine on what has come; nobody
has to hang up, to speak or to connect.

## What is proved

All theorems hold for every value of the constants that satisfies the
module's assumption.

**Life cycle** (`AddressesDistinct`: names and addresses differ, ports are in
the table or not, and the three "nothing stored" values are no targets).
`ClientProofs` proves `Spec => []I` for `TypeOK`, `EngineOwned`,
`EngineOnItsConnection` and `WriteErrorIsFinal`. Their conjunction `Sound(w)` is
inductive as it stands; inside a call it may be broken for a while (a write
error is set before `stop()` runs), and the lemma `StopFailedSound` says that
`stop()` repairs it. One lemma per method says that in a sound world every
outcome is sound, from `mFreeSSL` and `stop` up to `mConnectSSL`, `connect` and
`write`; each cites those of the methods the code calls, and the step lemma has
one case per action.

**Facade.** Its second half carries this over: `TInv` adds the types of what
`TCPClient` keeps, for every value of `Uses`. With it come two theorems about
action properties. `TlsKept`: if the application sets no session timeout
(`"idle" \notin Uses`), `TlsStaysTls`. `TargetReached`: if moreover it does not
connect over an open connection (`"over" \notin Uses`), `WritesReachTarget`.
Both assumptions are needed: `tcp_idle` shows what happens without the first;
with "over", a `connect()` to a second host keeps the transport of the first.
Both rest on the relation `Kept(x, y)`, proved of every method that does not
connect: it opens no transport, moves it to no other peer and takes TLS off no
connection that stays open. The invariants `ModeKept` and `TargetKept` then
relate the wish to the connection, and remember for a step that makes no call
what the last write did.

**Pump.** `SSLPumpProofs` proves the six invariants of the run `pump` and the
refinement of `ByteChannel` (`PumpIsChannel`), for records and writes of any size and any
number of calls, losses and records, under one assumption: the transport is not
silent (`~SilentWrites`; `pump_silent` shows why). The invariant has to know
what each frame of the stack may count on when the frame above it returns:
`Sound(stack, writeError, taken)` says that the calls nest as in the code
(`WellNested`), that a frame that is told of a failure finds the error set
(`ErrorsShow`), and how many bytes the writes in progress have still to copy
(`Pending`). `Fits(eng)` bounds the engine's buffers by each other, `Owned`
relates the flags to the allocation, `Counted` adds up where the bytes taken
are, `Safe` keeps the room behind `_write_idx` free, `Shown` ties `_recvapp_len`
to the engine, and `Answered` says what a return value promises.

**Record layers.** `RecordLayersProofs` has the arithmetic: the span of every
scheme lies in the buffer (`SpanIs`, `SpanHasRoom`), what `encrypt()` makes of
a payload in it does not leave the buffer (`EncryptFits`) and so on, with
rounding to blocks, for every fragment length from 512 to 16384 and every
buffer of the legal size or more. `RecordFlowProofs` uses it for
`RecordsFit` and `NeverRefused`: the records under way are numbered as the
receiver counts and each was made of at most a fragment, so a receiver with the
smallest legal buffer takes all of them. `PlaintextKept` needs the sum of the
plaintexts under way (`Carried`, a recursive function over the wire): the lemmas
say how it changes when a record joins at the end or leaves at the front. They
are inductions over the length of the wire, done without an induction theorem:
suppose a length at which the lemma fails, and take the least one.

**Engine.** `EngineProofs` proves `TypeOK` and `RegistersFit` for all buffers,
schemes, lengths and cuts, and all values of `Closes`, `Renegotiates`, `Forces`
and `Patient`. `RegistersFit` is far from inductive: the scheme changes while the
registers keep their values. The invariant has three parts. `Sound(e)`: the
input registers are in order, and the output is either a span that
`make_ready_out()` made for the encryption *now in force*, with some legal
fragment length, or a sealed record; the gathered payload is no longer than the
fragment length in force. `Window(e, cpu)`: what the processor holds are bytes
in the registers, and it writes only into an empty payload. `Early(e, cpu)`: the
fragment length is agreed on before any application data. One lemma per
operator says what it keeps, one per action that the step does.

Its second part adds who has the buffers. `OneAtATime` is proved if no empty
record is forced out (`~Forces`), `TypesKept` if no handshake is begun again
(`~Renegotiates`), each for all values of the other constants; "Assumption on
the peer" says how each fails without its own. The invariant `More` has
three parts more, and each holds in every state of every instance, its
assumption being its premise. `Turn(e)`: in a shared buffer input that was begun
has `iomode` "in", output that was has "out". `Hand(e, cpu)`: the processor has
room only where output may be written, which is why nothing it has written and
not yet acknowledged can lie over input. `Typed(e, at)`: the gathered payload is
of one writer, who fits the record type, and the processor's place says which
one may write: where it waits for an answer nothing is gathered, before the
first Finished the type is not "app", and during a closure the application has
no turn.

Its third part proves `NeverStuck`, `InputIsRead` and the refinement of
`AbstractEngine` under the use the run makes of the engine: the peer answers in
turn, no handshake is begun again, nothing is forced out (`Calm`), for all
buffers, schemes, lengths and cuts. The first two say that somebody always has a
move and that handshake data is not left unread, so the invariant has to say
*why* nobody waits for a thing that cannot come. `Lively(e, cpu)` does: only a
shared buffer changes sides, and one that output has does hold output (`Sides`);
of the record under way some bytes are still to come, and there is room for them
(`Incoming`); the processor was given all the input and all the room there was
(`Given`); a handshake record that has begun is awaited where the processor is,
or was read whole (`InTurn`); payload that waits is the application's, or will be
flushed (`Own`); the processor leaves no input of its own unread (`AtOnce`);
after a close_notify nothing comes any more (`Ended`). `EngineLively` proves
`Spec => [](Inv /\ More /\ Lively(e, cpu))`, one lemma per action.

`EngineImplements` proves `RSpec => ImplementsEngine`, for abstract buffers that
hold the largest record and at most as many pieces of one as a header has bytes
(`Fits`). A call of the engine and all the steps the handshake processor makes in
it are one abstract step, which is taken when the processor is off again; until
then the abstract engine stutters, and the invariant has to remember what the
call did. `Tracks(held, e, cpu)` does: some state `b` is what the call alone makes
of the abstract engine (`Base`), and from `b` the registers can be reached by what
the processor may still do (`Reached`): gather nothing, flush what the application
gathered, or seal one record of its own. `Proceeds` says that of every step of the
processor, and that it ends the connection only when it was given input or after a
close_notify. `Tuned(e, cpu)` supplies what the abstract engine cannot see: the
room for a record is that of the scheme and fragment length of now (`Fresh`), and
the processor's place tells whether encryption is on and application data flows
(`Keyed`). There is one lemma per call, which says what abstract step answers it.

**Handshake.** `HandshakeProofs` proves `TypeOK`, `Agreement`,
`Authenticated` and `CompatibleSucceeds` for all configurations of both sides, rooms of the cache,
suites and numbers of connections, with and without damage
(`HandshakeAssumption`). None of them can be seen from one side: an engine that
goes over to application data compares two values of its peer's Finished. So
the invariant (`Inv`) follows what each message on either wire says of the one who
wrote it (`Wires`): a hello carries its number, a Finished opened by keys
carries the master secret and what its writer read damaged *then*, and keys in
force on one side are those the other has put in force or is about to. Keys
that open a Finished are equal only if version, suite, randoms and secret are;
that the two hashes are equal then gives that no message of the connection was
read damaged, because at most one is (`DamagedOnce`). The remaining parts are about time:
what the cache holds about past connections agrees with what the client stored,
also after the server was restarted or forgot (`Cached`), and between connections nothing is
left (`Down`). There is one lemma per action and part.

`CompatibleSucceeds` says that something does *not* happen, so it needs to know
that whatever is under way is what its reader goes on with. Without induction
over the queue that is said of the whole queue at once (`Path`): there is a run of the
reader's automaton (`ClientRoad`, `ServerRoad`) over the messages under way, from where
the reader waits to where the writer, having sent what it has, expects it (`Ways`).
A message read takes off the first step of the run, a flight written joins a run
to its end (`PathJoined`). What each message has to contain for the step to be taken,
the right keys included, is `ForClient` and `ForServer`. All this holds while the ends
have something in common (`Meets`) and nothing is damaged (`Smooth`); that a
session that is kept has a suite its version allows (`Lawful`) holds always.

**Session cache.** `SessionCacheProofs` proves `TypeOK`, `ListHasAll`,
`TreeFindsAll` and `RSpec => ImplementsCache` for caches of any size, any IDs and
any order of calls (`SessionCacheAssumption`). The invariant (`Orders(c, l)`,
for some `l`) gives the links two readings that the store does not have. `Chain`:
the entries in use are `l[1]` to `l[n]`, and `prev` and `next` are `l` backwards and
forwards. `Tree`: there is a function `T`, where `T[x]` is all that is in the tree
under `x`, and `x` has as its left child the top of what in `T[x]` has a smaller
ID. `T` takes the place of induction over the tree: what is above and below
a node can be said in one step. Two proofs follow loops: a search goes down to a smaller
`T[x]` in every step (`UnderShrinks`), so it ends within as many steps as
there are entries, and what it looks for is always below (`Searched`);
and the replacement `find_replacement_node` walks to is the neighbour of `x` in the
order of IDs (`Beside`), for either side. Then every procedure is a change of `T` and `l`:
`remove_node` renames `x` into its replacement (`Renamed`) and keeps the list,
a new leaf joins the sets of the nodes above it (`Grown`), and eviction, insertion
and use shorten the order, put an entry in front, or bring one to the front
(`Shortened`, `Headed`, `Fronted`). What they do to the order is what `Save`,
`Load` and `Forget` do to the sequence; as IDs are different (`Keyed`), the place
`AbstractCache` chooses for an ID is the one the tree finds.

**Settings.** `AuthSettingsProofs` proves `TypeOK`, `OneMode` and
`OnlyAdmittedServers` for every set of identities, every set of servers and both
values of `IssuerHashed` (`AuthConstants`). `OnlyAdmittedServers` speaks of
the past, so the invariant is strengthened by `CarriesOut(s, asked)`: the
settings, read in the order the validator tests them, carry out the check
asked for or a stricter one. `OneMode` follows from it.

**Only model-checked**: all liveness, that is `FullDuplexReturns` and
`HandshakeEnds` (out of the prover's reach, like anything about ENABLED);
idle TLS reconnections of `TCPClient` (`tcp_tls`); and the violations.

## What is not modelled

* **Cryptography** (`bssl/`: block ciphers, hashes, big integers, elliptic
  curves, PRF, and their headers): about four fifths of the lines of the
  implementation. Sequential arithmetic without protocol state, whose
  correctness is a numeric identity over inputs no finite instance reaches. The models take encryption,
  MAC, signatures and the PRF as ideal.
* **X.509 and PEM** (`x509_minimal`, `skey_decoder`, `pemdec`, …), the MFLN
  probe's parser, `X509List`, keys, `CertStore`: scans of one input that leave
  a verdict. `AuthSettings` states which servers the validators pass,
  `Handshake` takes the verdict on a chain.
* **`br_sslio`**: not used; `SSLClient.h` has a pump of its own.
* **`Memory.h`, `UniquePtr.h`, `vector/`**: wrappers without a protocol.
* Of the modelled parts: static-buffer and `SSLCLIENT_INSECURE_ONLY` builds,
  `operator=`, millisecond arithmetic of the timeouts, setters of cipher lists
  and versions (their effect is the client's configuration in `Handshake`),
  handshake extensions except the fragment length, static ECDH client
  certificates, `TLS_FALLBACK_SCSV` (the client never sends it), and
  renegotiations that are accepted (the buffers of one are in `EngineIO`, under `Renegotiates`).

## Plan

What a continuation would take up, in this order:

1. The idle TLS reconnection proved (`tcp_tls` for every set of hosts), by an
   invariant that relates `asked` to the stored target.
2. `connect()` over an open connection ("over"), the name an upgrade makes its
   handshake for, old input after a plain reconnection.
