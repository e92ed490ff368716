# Formal model of the confidential trading environment

TLA+ modules for the Python programs under `src/src/`: the boot of the
confidential VM, the key release service (KRS) it asks for its key, and the two
ends of the signed order stream. TLC checks small instances; TLAPS proves the
safety theorems for every value of the constants.

## The system

```
 build host            confidential VM                        executor
 sealed package  --->  bootstrap: lockdown, attest, key,
                       decrypt, arm, monitor
                            |   ^
              report, keys  |   | wrapped, signed CEK
                            v   |
                       KRS: replay cache, verify report, release
                       strategy: build, sign, enqueue, emit  ---> verify, place
```

| Component | State it keeps | Operations | Shares or calls |
|---|---|---|---|
| `SnpVerifier` (`snp_verify.py`) | policy only | `verify`, `verify_signature_chain` | `snpguest` subprocesses; called by KRS and boot |
| KRS server (`krs_server.py`) | replay cache | `do_POST`, `_deny`, `fresh` | one thread per connection, one cache under a lock |
| KRS listener (`serve`) | backlog, one handshake | accept loop | starts a thread per connection |
| KRS client (`krs_client.py`) | pins and keys | `release` | a TLS connection to the KRS; called by boot in production |
| `CloudProtection` (`cloud_protection.py`) | master key, output directory | `bootstrap`, `main` | everything below |
| `TEEAttestation` | TEE type, measurement, report | `detect`, `fetch...`, `verify...` | `/dev/sev-guest`; shared with the monitor thread |
| `NitrokeyRoT`, `derive_master_key` | credential | detect, load, derive | `fido2-assert`, 30 s touch |
| `decrypt_package` | files in the output directory | one pass over the blobs | master key; Rust or Python AES-GCM |
| `ContinuousAttestationMonitor` | expected measurement, thread | `start`, `_loop` | calls the zeroizer |
| `SecureZeroizer`, `ProtectedMemory` | armed flag, locked pages | `arm`, `terminate`, `zeroise_all` | signals |
| `ProtectedSigningKey` | private key | `sign`, `zeroize` | a lock of its own |
| `IntentBuilder` | pending queue, last emission | `build`, `enqueue`, `emit_batch` | a lock, partly held |
| `IntentVerifier` | seen ids | `verify`, `clear_seen` | a lock for the seen set |
| `hybrid.py`, `pqc.py`, `rust_unwrap.py`, `key_unwrap` | none | framing, wrap, sign, unwrap | cryptography |

What is hard, and what makes each part correct:

* **KRS**: handler threads interleave on the cache; minutes pass between the
  nonce check and the release; the cache is cleared at its cap and lost at a
  restart. Correct: the key goes only to keys a verified report is bound to,
  a report is spent once per life of the cache, every request is answered.
* **Key release**: the handshake runs in the accept loop without a timeout; the
  client gives up after 30 s while the server works on; replies are lost, guests
  vanish, the KRS restarts. Correct: a call gets the key released for its own
  keys and nonce or fails, costs at most one release, and always ends; the
  server gets done with every connection whose guest does not vanish.
* **Builder**: `emit_batch` reads the clock and `_last_emit` outside its lock;
  `zeroize` runs against `sign`; the wall clock can be stepped back. Correct:
  the stream is complete, in order and signed; batches keep the window.
* **Verifier**: workers race on duplicates; the transport damages intents;
  sessions are cleared and processes restarted. Correct: only issued, timely
  orders, each once per session.
* **Boot**: any step may raise; the process may be killed while it writes and
  be restarted over its own remains; the monitor and signals act at any time.
  Correct: no key outlives a failure, plaintext sits at the path it was sealed
  for, success means the whole package, a changed measurement ends the process.
* **Pure functions**: boundaries. Ties and both ends of the size bands, Python's
  silent slices in `unframe`, lengths that cross a C boundary, buffers across
  pages, number types through JSON, a packed version number.

`PROJECT.json` lists every component and every hazard with its line.

## Modules

| Module | Models | Notes |
|---|---|---|
| `SnpVerify` | `SnpVerifier` | pure: `Verify` is the decision, `Entitles` an independent statement of the policy |
| `KrsServer` | `krs_server.py` | extends `SnpVerify`; `MCKrsServer` instantiates it |
| `KeyRelease` | `KrsClient.release`, the listener, the network | extends `KrsServer`; `MCKeyRelease` instantiates it |
| `IntentBuilder` | builder and signing key | checked directly |
| `IntentVerifier` | executor side | `MCIntentVerifier` instantiates it |
| `OnceLedger` | what both replay checks promise | abstract; implemented by `KrsServer` and `IntentVerifier` |
| `Bootstrap` | boot, decryption, zeroizer, monitor | `MCBootstrap` instantiates it |
| `SizeBanding` | `coarse_band` | pure |
| `IntentCodec` | the JSON and the signed text of an `OrderIntent` | pure |
| `HybridFraming` | `frame`, `unframe`, `hybrid_verify` | pure |
| `SealedBlob` | `aes_gcm_open`, `rust_unwrap.py`, `lib.rs` | pure |
| `LockedMemory` | `ProtectedMemory`'s addresses | pure |
| `TcbFloor` | the TCB comparison of `SnpVerifier.verify` | pure |
| `Algorithms` | | the six pure modules, one input at a time; `MCAlgorithms` gives the inputs |
| `KrsServerProofs`, `KeyReleaseProofs`, `IntentBuilderProofs`, `IntentVerifierProofs`, `BootstrapProofs`, `AlgorithmsProofs`, `FramingProofs`, `LedgerLemmas` | | theorems about the module each is named for; `FramingProofs` about `HybridFraming`; lemmas of both refinements |

Operators whose comment begins with "Mutated" or "Mutant" are faulty variants of the
definition that follows them. No specification uses them; they are what each
property has been shown to catch.

### KrsServer

A handler thread walks `do_POST` in four steps, with any other thread in
between: `Receive` (path, body, lengths), `CheckReplay` (the cache, atomically
under its lock), `VerifyReport` (the verifier; dev mode skips it), `Release`
(wrap, sign, respond). Every exception is `Deny`, the same 403. `Restart`
discards all threads and the cache. A request is any combination of keys, nonce
and report. Hashes, signatures and AES-GCM are ideal: `report_data` is the tuple
that was hashed. Because the lengths of `client_x_pub` and of the nonce are
checked, the concatenation that is hashed determines that tuple.

History variables: `gen` counts how often the cache lost its content (by
`clear()` or restart), `hgen` remembers the generation of a handler's own check,
`grants` lists the 200 responses.

### KeyRelease

The composition of the client with `KrsServer`. One call of `release` makes one
connection and sends one request, so a call, its connection and the connection's
handler thread share an index. `Connect` joins the kernel's backlog; `Accept`
and `HandshakeDone` are the accept loop, which does the handshake of one
connection at a time because `serve` wraps the listening socket; `SendRequest`
compares the certificate's fingerprint and sends; `ServeRequest` and `Serve` are
the steps of `KrsServer` with the reply put on the thread's own connection;
`ReadReply` is the rest of `release` with all its checks. The faults are
`Timeout`, `Reset`, `Vanish`, `RestartKrs` and `Misdeliver`, which hands a call a
reply that was made for another one; `quiet` marks behaviours without them. A
guest may call again with the keys and the report it has, so that two calls
differ in nothing but the nonce `release` draws: then the nonce check alone
keeps a call from taking the key of the other's grant. `reply` names a release by its place in `grants`; that a grant opens only
with the keys it was wrapped to and verifies only under the KRS's two signing
keys is the ideal cryptography of `hybrid.py` and `pqc.py`. Only clients with a
valid mTLS certificate are modelled.

The module lets any nonce be bound into the report (`ReportOf`) and another be
drawn by `release` (`DrawnNonce`), as the code does. A production KRS therefore
refuses every one of these calls (`key_release_binding`), and the exchange is
checked against the development KRS, as the repository's self test does.

### OnceLedger

The abstract promise of the two replay checks: an item is spent at most once per
epoch, an epoch being one life of the memory of what was spent. For the KRS the
items are the reports that entitle somebody and an epoch is a cache generation;
for the verifier they are the issued orders and a session. `ImplementsLedger`
in both modules is the ledger's specification under that mapping: threads,
caches, forged or damaged input and restarts are gone from it.

### IntentBuilder

Producers run build, sign, enqueue; signing is two steps under the key's lock
(look, use), so that a `zeroize` in between would show. A zeroized key raises
and the intent is gone. Emitters run `emit_batch` in three steps, as the code
does: read the clock, compare with `_last_emit` without the lock, take the queue
with it. `Tick` and `StepBack` are the wall clock. The history variable `crowded`
records that two calls of `emit_batch` overlapped: up to then the window holds
(`WindowUnlessConcurrent`), after it need not.

### IntentVerifier

`Begin` is the delivery of any member of `Wire` and checks 1 and 2 of `verify`,
`CheckReplay` is check 3, which remembers the id, `CheckSignature` check 4 and
the caller's order. `Tick` moves the wall clock on or sets it to any other
time, also an earlier one. `Wire` is arbitrary in the module; its assumption says that
a signature of our key exists only over an issued order. `ClearSeen` leaves
calls in progress alone; `Restart` does not.

### Bootstrap

One action per gate of `bootstrap`, in source order; `Gate(s, raises, next)`
is a step that raises or goes on, `Fail` both except clauses. A step raises for
the reasons `Env` tells apart (liboqs missing, no `findmnt`, no enrolled
Nitrokey, ...) and, on a machine with faults, for any other: a full disk leaves
a truncated file, `arm` or the monitor's thread fails with `_armed` already set.
`Interrupt` is SIGINT before `arm`: Python's `KeyboardInterrupt` passes both
except clauses, the key stays, and a caller may survive it. SIGTERM and SIGUSR1
before `arm` are `Kill`. `Env` is the command line and the machine, `pkg` what lies at each path of the sealed
directory. `hosted` tells a caller that stays alive after `bootstrap()` from
the command line's `main`, which returns. Writing a file is two steps (truncate,
fill), so `Kill` can fall between them; `Restart` keeps the output directory.
`Poll` is the monitor's loop with the exception classes told apart:
`snp_verify.AttestationError` is not `cloud_protection.AttestationError`.

### The pure modules

`Algorithms` puts one input at a time before one function (`probe`) and states
what must come out.

* `SizeBanding` counts in quarters of a lot. An ascending list of bands keeps
  the order of sizes; the default bands are within a third of the size.
* `IntentCodec` keeps Python's two number types, which print differently, and
  texts as the pieces between their pipes. `RoundTripVerifies` is about
  numbers of the declared types; that intents with integer prices, which the
  usage of `IntentBuilder` shows, do not verify at the other end is what
  `integer_prices` finds. `SignatureFixesOrder` needs
  texts without pipes on the signing side; nothing in the code refuses a symbol
  with one, and for such a symbol two intents may print alike.
* `HybridFraming` has the header's length and the byte's base as parameters
  (4 and 256 in the code). The one freedom left in an accepted blob is the last
  length, because a Python slice stops silently at the end.
* `SealedBlob` has the lengths as parameters (16, 12, 16, 32); a blob is its
  length and whether it is intact. The master key is always 32 bytes: a
  `ProtectedMemory(32)`, and `KrsConfig` insists on a CEK of 32.
* `LockedMemory`: `write` checks its upper end, `read` checks nothing; both are
  inside the buffer for the offsets and lengths a caller can mean.
* `TcbFloor`: the packed comparison is right where no component is weighed
  against another (`FloorMonotone`). Where one is, a newer microcode outweighs an
  older boot loader, which `tcb_floor` finds against the comment on the check.

## Runs

| Run | Shows | States |
|---|---|---|
| `krs_production` | entitlement and single use over clears and a restart, the ledger implemented, every request answered | 151 000 |
| `key_release` | client, listener and server under faults: own key or failure, one release per call, every call ends, the server is freed; success exactly with right pins when quiet | 32 000 |
| `builder` | stream intact, signatures safe, the window kept while calls do not overlap | 914 000 |
| `verifier` | once per session, issued and timely, bounded replay window, the ledger implemented | 1 298 000 |
| `boot` | the boot's safety under faults, the monitor's liveness, and that a quiet development boot succeeds exactly when it should | 143 000 |
| `algorithms` | the pure functions against what they must compute | 9 300 |

Runs expected to find a violation, each of a sentence of the repository:

| Run | The code | The sentence |
|---|---|---|
| `key_release_binding` | sends a nonce the report is not bound to | cloud_protection.py:656 |
| `verifier_burnt_id` | remembers the id before the signature is checked | SIDE_CHANNEL_HARDENING.md:192 |
| `boot_production` | reads `tee_type` before it is set: every production boot fails | cloud_protection.py:293 |
| `monitor_device` | a failing ioctl is only logged | cloud_protection.py:517 |
| `integer_prices` | signs integer prices as integers, verifies them as floats | signed_order_intent.py:316 and 381 |
| `tcb_floor` | compares the packed TCB, so a newer component hides an older one | snp_verify.py:197, KRS_POLICY.md:347 |

In two more places the code is weaker than its documents, and a passing run
states exactly what is left. `_ReplayCache` clears itself at its cap
(krs_server.py:57), so that a nonce works again without any restart, although
KRS_POLICY.md:174 says "If a nonce is seen → the request is a replay → reject."
(and line 168 describes eviction into a Bloom filter); `NonceOncePerGeneration` is
what holds. And `emit_batch` compares the clock with `_last_emit` before it takes
its lock (signed_order_intent.py:385), so that two emitting threads can put two
batches into one window, although its docstring (line 376) says "if the emit
window has elapsed"; `WindowUnlessConcurrent` is what holds.

`_last_emit` starts at 0.0, so a new builder's first unforced `emit_batch` does
not wait for the window, although SIDE_CHANNEL_HARDENING.md:141 says it "yields
[] until window expires"; the window properties are about later batches.

A guest that connects and then dies without closing its socket is the one case
`ServerFreed` excepts: in its handshake it holds up the accept loop for good
(every other call then ends by its own timeout), after it one handler thread.

Two more things the boot model shows that contradict no sentence outright. A
boot that fails on a damaged blob leaves the files it had already decrypted in
the output directory (`decrypt_package` writes them one by one and nothing
removes them); the next successful boot overwrites them, which is what
`SuccessIsComplete` says. And the monitor is a daemon thread: under `main`,
which returns after a successful boot, it ends with the process; only a caller
that stays alive is monitored.

### Bounds

* KRS: two handlers are enough for every pairwise race; `Cap` 1 with two nonces
  makes `clear()` happen with both handlers at work; seven reports let each
  check of the verifier decide one; three requests and a restart.
* Key release: two calls of one guest with the same keys and report, a backlog of one and a cache of one entry, so that a
  call waits behind the other's handshake, the backlog is full and the cache is
  cleared between them; one restart; each kind of wrong pin.
* Builder: two producers and two emitters; a window of 2 in a clock that runs
  from 2 to 4 and may step back once, so inside, at the edge and after all
  occur; two intents, so that a second batch meets the first.
* Verifier: two workers, two issued orders and four altered copies, four calls;
  `MaxAge` and `Skew` 1 in a clock to 4 that may be set to any time, so early,
  timely and expired occur, also one after the other for the same intent.
* Boot: two files (one done while the other fails); seventeen machines, eleven
  development and six production ones: healthy, with one thing wrong at a time,
  hosted or not, with and without faults; one restart.
* Pure functions: every size to 40 and the neighbourhood of every default band
  and midpoint; all byte strings up to two bytes longer than a hybrid signature
  with two-byte headers; blobs of every length around the guards; buffers at
  every offset of two pages; all pairs of three-byte TCBs.

Deadlock is not checked of the programs: each may come to rest (no more
requests or intents within the bounds, a process that has ended).

### Fairness

* `KrsServer`: weak fairness of each handler's `Step`. A thread is scheduled,
  and `snpguest` is killed after 60 s. Requests need not arrive.
* `KeyRelease`: weak fairness of the accept loop, of running threads (as above),
  of a client that can go on, and of `Timeout`, which is the 30 s of the client's
  socket: it can always fire where the client waits, but has to only if the wait
  does not end. Resets, vanishing guests and restarts need not happen. In quiet
  behaviours `Timeout` is off: they are those in which every wait ends in time.
* `Bootstrap`: weak fairness of the main thread and of the monitor's poll. What
  the main thread waits for ends by itself or by a timeout (`fido2-assert` 30 s,
  `snpguest` 60 s, the KRS socket 30 s).
* Builder and verifier: none; only safety is claimed.

## Theorems

All are proved by TLAPS from the named assumptions of the modules (TLC evaluates
them on every run), with no bound on the constants. Every safety property that a
passing run checks is stated by one.

* **KrsServerProofs.** `TypeCorrect`; `NonceUse`, along the invariant
  `SingleUse`: single use is not inductive as it stands, because it says nothing
  of handlers between check and release. `NonceHeld` says that such a handler
  owns its nonce for the generation it checked in, against the cache and every
  other handler, `NonceSpent` the same of what was granted. `Entitlement` rests
  on `WrapEntitled` (a handler about to wrap holds a verdict about its own
  request) and on the lemma `VerifyResult` about the verifier. `ReportUse`
  combines the two. `CacheBound` is the cap. `Refinement`: in production the
  service implements `OnceLedger`; a release is a `Spend` because `SingleUse`
  makes the report unspent in the handler's generation and `WrapEntitled` makes
  it one of the items, a clear or a restart is `NewEpoch`, all else stutters.
  The theorems are about `Safety`, the specification without its fairness, so
  that they can be used in the composition.
* **KeyReleaseProofs.** `ServiceTheoremsHold`: with guests, faults and the
  listener around the service all of the above still holds of it, because the
  composition only takes the service's own steps (the lemma
  `ServerUndisturbed`). `KRTypeCorrect`. `OneGrant`
  needs to know where a connection can be while its thread works: `QueueInv` (a
  connection waits in the backlog once), `ConnInv` (a thread works on its own
  connection's request while that is being served, and closes it with its
  answer) and `GrantInv` (every grant was made for some call's own request, on a
  connection that is closed since, so no second one can follow). `CekOwn`
  adds `PinInv` (a client that sent its request has seen the right
  fingerprint) and `GrantMadeFor`. `CekEntitled` puts both together, end to end:
  against a production KRS a guest holds the CEK only if its own report entitles
  the keys it sent with the nonce it drew. No property of a run states that
  one: with the nonces the code draws no production call gets that far
  (`key_release_binding`). It was checked before it was proved on an instance
  whose reports are bound to the drawn nonce.
* **IntentBuilderProofs.** `TypeCorrect`, `StreamIntact`, `SigningSafe` (along
  `KeyInv`: who signs holds the lock), `LastEmit` (`_last_emit` is the time of
  the last batch), and `WindowKept`: while calls do not overlap the unlocked
  check is still true when the queue is taken (`WindowInv`). With at most one
  emitter they cannot, so `OneEmitterKeepsWindow`; with two the window is lost,
  as two overlapping calls show.
* **IntentVerifierProofs.** `TypeCorrect`, `PlacedOnce` (along `OncePerSession`,
  ids owned by workers past the check), `PlacedAuthentic` (along `CallsTimely`),
  `ReplayWindow` from the two issued timestamps being one, and `Refinement`: the
  verifier implements `OnceLedger`.
* **BootstrapProofs.** `TypeCorrect`; `KeyWiped` along `KeyInv`, which adds that
  there is a result only once `bootstrap` has returned; `PathBound` along `WritingOwn` (what is being
  written was opened at its own path); `SuccessComplete` along `CompleteInv`,
  whose `LoopInv` says that the loop over the blobs has left every path it is
  done with whole and in this version. `SuccessAttested`, along `PastGates`: a
  boot that returned 0 had read the expected measurement and an enrolled
  Nitrokey, and was not a production boot, which cannot return 0
  (`boot_production`).
* **AlgorithmsProofs.** About the pure functions, for every input of the types
  `InputAssumption` names. `LockExact` and `AccessesStay` for any page size;
  `AbiTrue` and `SameReaders` for any lengths of the fields of a blob;
  `BandsMonotone` for any ascending list of bands and `BandsClose` for the
  default one; `RoundTripHolds`: the signed text puts each printed number at a
  place of its own (`JoinedPieces`), and the prints of numbers of the declared
  types are read back as they were (`ReadBack`, `ReceivedAsSigned`); `SignatureFixes`: a signed text of eight pieces leaves
  one piece to each of the eight fields of whatever verifies under it;
  `FloorHolds` for any number of bytes and any base, from `PackedOrder`: the last
  byte where two TCBs differ decides.
* **FramingProofs.** `FrameUndone` and `AcceptedGenuine`, for any length of
  header, any base and any signatures. They rest on `PackUnpack` (a header is
  the only one for its number), `UnpackPack` (for lengths below `Limit`),
  `FrameIs` (where each part lies in the blob) and `TurnIs` (what one turn of
  the loop in `unframe` does).
* **LedgerLemmas.** How a log that is the image of a history grows; used by both
  refinements.

Recursion over data is proved about by least counterexample: the set of indices
for which a fact fails has a least element unless it is empty (`LeastNatural`,
and from it `Downward`, `UpTo`, `DownTo`, which take that set as a parameter).
The same argument shows first that each recursive function exists
(`ParseIs`, `PackIs`, `UnpackIs`, `UnframeIs`, `FlattenIs`).

The assumptions, and why the code meets them:

* `BootAssumption`: environments and packages have their types; `None` (Python's
  `None`) is no file, no measurement and no result; a damaged or absent blob is
  no file.
* `InputAssumption`: bands ascend, as the code's list does and as a caller's must
  for "nearest" to mean anything; a part's length fits its header (`struct.pack`
  raises otherwise); a text has at least one piece (the empty text is one piece,
  the empty one); an int has no fraction; a file is shorter than `size_t`; an
  access starts in its buffer.
* The others give the constants their types; the verifier's says besides that a
  signature of our key exists only over an issued order (ideal signatures).

Only model-checked: `EveryRequestAnswered`, `EveryCallEnds`, `ServerFreed`,
`QuietCallsSucceed`, `DriftTerminates` and `BootMatchesHealth`: liveness under
fairness is out of the prover's reach.

## Not modelled

The argument parsers and key files, the ctypes loading of liboqs and of the Rust
library, the text protocol of the FIDO2 tools, what the lockdown probes read,
`--check-only`, the self test: I/O, or drivers that change no state. The
`ReplayCache` of `cloud_protection.py` holds the one random nonce of its process.
`_fetch_sev_snp_ext_report`, `pqc.combine`, `ProtectedMemory.randomise` and the
monitor's `stop` have no caller. The contract registry, operator token, audit
log, rate limits, timestamps and revocation of the policy documents: there is no
code. Ideal cryptography is assumed throughout; random nonces and ids do not
repeat.

## Plan

Done: every component with state of its own and the pure functions, the
composition of the key release, the two refinements of `OnceLedger`, and a
theorem for every safety property that a run checks. Next:

1. An abstract specification of the builder's stream (a queue that is handed
   out in order, each intent signed) shown to be implemented by `IntentBuilder`,
   as `OnceLedger` is by the two replay checks.
2. The safety that the liveness properties rest on, as theorems: what a
   connection, a call and a monitored process may never go back to.
3. Shorter proofs: the existence lemmas have one argument in common.
