# dig-tls in TLA+

`dig-tls` gives every DIG peer its transport identity: it creates and keeps one
TLS leaf key pair per peer on disk, rotates it, and builds the rustls
configurations that verify the other peer. This directory models it: TLA+
modules translated from the Rust sources, TLC configurations that check them on
small instances, and theorems TLAPS proves for every value of the constants.
Paths and line numbers are those of the repository (`src/node_cert.rs` is
`src/src/node_cert.rs` in `PROJECT.json`).

## 1. The system

| Component | State | Operations | Modelled in |
|---|---|---|---|
| Identity persistence and rotation, `node_cert.rs` | four files and their `.tmp` siblings in one directory; the `NodeCert` values callers hold | `load_or_generate`, `rotate`, `load_previous`, `retire_previous`, over `atomic_write` | `NodeCertStore`, `CertDirReaders`, `IdentityStore` |
| Verifiers, `verify.rs` | two cells per configuration, `captured_peer_id` and `captured_bls` | `verify_server_cert`, `verify_client_cert`, `CapturedPeerId::get`, `CapturedBlsPub::get` | `PeerVerifier`, `MutualTls` |
| Configurations, `config.rs` | none after construction (the `expected` pin, the policy, the cells) | four builders: CA or SPKI-pinned, server or client | `TlsConfigs` |
| BLS binding, `binding.rs` | none | `attach_binding`, `parse_binding_extension_value`, `verify_binding_from_leaf_cert`, `evaluate` | `CertBinding` |
| BLS primitives, `bls.rs` | none | `sign_message`, `verify_signature`, `g1_subgroup_check` | `CertBinding`, by what they promise |
| peer_id, `identity.rs` | none | digest of an SPKI, hex codec | `CertBinding`, `PeerIdHex` |
| DigNetwork CA, `ca.rs`, and the leaves it signs | a constant, decoded once | `generate_dig_ca`, `from_pem`, `embedded`, `generate_signed_by`, the chain check | `DigCa` |
| Errors, facade, CI, example | none | | not modelled |

How they interact. A consumer calls `load_or_generate` at start and builds one
or more configurations from the `NodeCert` it returns. rustls calls the
verifier of a configuration during each handshake, from the thread of that
handshake; the verifier writes the configuration's cells and the application
reads them when the handshake is over. Each peer of a connection has a
verifier of its own and learns what the other one's decided only through rustls
and the transport. Rotation replaces the persisted identity in four file
writes; until `retire_previous` the old identity stays in the `.prev` slot so
that both can be presented. Other processes may load from the directory
meanwhile.

What is hard, and what must hold in spite of it:

* persistence: an identity is a certificate and a key in two files, so a slot
  changes in two renames, and rotation in four. A call may be cut short between
  any two file operations by an error, the death of the process or a power
  loss. The identity handed to the caller must stay loadable, an identity in
  its overlap must not be discarded, a restart must not mint a new one, a
  retired key must be gone. Seen from outside, a call must take effect once or
  not at all.
* racing loads: a load looks at the two files of a slot by four system calls,
  and nothing locks the directory. It must not combine two identities, and must
  not take a slot for empty that is not.
* verification: handshakes of one configuration run at once, all on the same
  two cells, each cell under its own lock; handshakes fail after they wrote a
  cell; sessions resume without any call of the verifier. Only admissible peers
  may be established, and a BLS key offered as a sealing target must belong to
  the peer.
* two ends: each judges the other by its own mode, pin, policy and clock. In
  TLS 1.3 the client is established before the server has judged it. The
  transport may be lost, with or without an end being told, and the crate has no
  timeout. No connection may come up one-sided, a refusal or a reported loss may
  not leave an end waiting for good, and peers that satisfy each other must get
  to talk.

`PROJECT.json` lists the hazards at their lines.

## 2. Modules

```
IdentityStore <= NodeCertStore <- CertDirReaders

CertBinding <- TlsConfigs <- PeerVerifier
     ^              ^
     +--- DigCa  <--+--- MutualTls                PeerIdHex
```

(`<=` is implemented by, `<-` is extended by.)

### NodeCertStore

One caller over one directory. `disk` and `tmp` are what the four file names
and their staging siblings hold, as the running system sees them; `stable` is
what each name would hold after a power loss; `dirty` are names whose bytes
were never flushed (the code never lets one exist: an unflushed file would
be exposed by a dropped `sync_all`); `dir` is the directory itself. `phase` and
`file` are the program counter of the running call. `minted`, `live`,
`overlap` and `retired` are history variables for the properties.

| Action | Code |
|---|---|
| `LoadExisting`, `LoadRejected`, `Generate` | the branches of `load_or_generate` |
| `Rotate`, `RotateRefused` | `rotate` up to its first write, and its early returns |
| `StageOpen`, `StageFill`, `StageSync`, `Rename`, `SyncDirMore`, `SyncDirReturn` | `atomic_write`, one action per file operation; `NextFile` is the order of the writes |
| `RemoveTarget`, `RenameAgain` | the Windows fallback of `atomic_rename` |
| `RetirePrevious`, `RetireKey`, `RetireCert` | `retire_previous` |
| `IoError` | `?` on any file operation |
| `Crash`, `PowerLoss`, `WriteBack` | the environment |

A certificate and the key it certifies are the same member of `Ids`, so
`from_parts` succeeds exactly when both files of a slot hold the same identity.
A power loss is modelled after POSIX: a rename is atomic, but the new entry may
be lost until the directory was synced, each name independently of the others.
`WriteBack` lets the kernel write any part back at any time. `Generate`
includes `create_dir_all`; the failure of that call itself leaves the state as
it was apart from an identity nobody saw.

`MayRetire` is the caller's side of `retire_previous`. A `"converged"` caller
retires when the identity it presents is the one in the current slot, which is
what the function's documentation asks for. An `"advised"` caller also follows
the error text of a refused `rotate`. Neither is code of the crate, so the
operator is marked external.

### IdentityStore, and how the directory implements it

What a caller is promised: one `current` identity and, in an overlap, one
`previous` identity; `Create`, `Replace` and `Retire` are one step each, and a
call that has generated an identity (`Stage`) may still fail (`Abandon`).
`NodeCertStore` ends with the refinement mapping:

* `current` is the pair of `node.crt` and `node.key`, or the `.prev` pair while
  the former is torn between its two renames;
* `previous` is the `.prev` pair, unless it is what stands for `current`;
* `staged` is the identity of the running call until its pair is in place;
* `fresh` is what was never minted.

So all of `rotate`, some twenty file operations, is `Replace` at the rename of
`node.key` and stuttering before and after; `load_or_generate` is `Create` at
the same rename; `retire_previous` is `Retire` at the unlink of the previous
key. A rotation cut short before that rename changes nothing in the abstract
store, although it may have overwritten part of both slots.

A second mapping, `DurableStore`, reads `stable` in the same way: what a power
loss would leave. A rotation becomes durable at one write-back of `node.key`,
or never. Deletions are the exception, since `retire_previous` has no
`fsync_dir`: a retirement becomes durable when the kernel, or the first write of
the next `rotate`, writes the names back. The abstract store allows for that in
`Abandon`, whose end of a call may complete an earlier retirement.

### CertDirReaders

`NodeCertStore` with any number of processes that load from the directory. A
load is `Begin`, then `StatCert`, `StatKey` (the two `exists()`), `ReadCert`,
`ReadKey` (the two `fs::read_to_string`, then `from_parts`), and any step of the
owner or its environment may come in between. `during` records what a load in a
single instant would have returned at each instant of the call, and `knew` the
live identity when it began; the properties compare the result with those. The
module shows when a reader of the current slot cannot come to generate an
identity; it does not follow a reader that does.

### CertBinding

The pure part of verification over symbolic keys: a signature is the pair of
its key and its message, a digest a tuple, so both are injective. The
extension is absent, version 1 (with a key and a signature) or anything else.
`verify_signature` says nothing about the group of a point:
`g1_subgroup_check` is the only gate for that, as `bls.rs` documents.
`BoundKeys` is the reference the verifiers are compared with: the keys whose
`attach_binding` yields this very leaf.

### TlsConfigs and DigCa

`TlsConfigs` gives each of the four builders of `config.rs` as the verifier it
installs: whether the CA chain is required, the pin, the policy.
`DigCa` is the CA, the leaves it signs (`generate_signed_by`: validity
backdated by an hour, ten years long, both key usages) and the chain check of
`verify.rs`. Times are minutes; path validation by webpki is external, in the
four things it is asked for: issuer name, issuer key, validity and usage.
`embedded_ca_cert_der` is the constant anchor, whose own validity nothing reads.

### PeerVerifier

One configuration of any of the four builders (chosen in `Init`, with every
pin and policy) and the connections `Conns` that share it. The steps of
`pin_and_bind` are separate actions, since other handshakes run between them:
`VerifyChain`, `CapturePeerId`, `CheckPin`, `CheckBinding`, `CaptureBls`, then
rustls' `VerifySignature`. `GetPeerId` and `GetBls` are the application's two
reads. `Resume` is a resumed session: rustls 0.23 keeps a session cache unless
told otherwise, the builders do not tell it otherwise, and a resumed handshake
calls no certificate verifier. `schedule` says whether the application waits
with the next connection until it has read the cells (`"alone"`) or not
(`"overlapping"`).

### MutualTls

One connection between two peers that both run the crate: two configurations,
the leaf each presents (and whether it holds its key), two clocks, the protocol
version, all chosen in `Init`. Here the verifier is one step (`Judge`): the
cells belong to one connection, and interleavings of several are
`PeerVerifier`'s subject. The applications are external: each waits for the
other's message before it takes the connection for one that worked. (The
harness of `tests/mtls_handshake.rs` does not: it reports what `accept()` and
`connect()` returned and ignores its reads.)

| Action | Code |
|---|---|
| `VerifyServerCert`, `VerifyClientCert` | `verify_server_cert`, `verify_client_cert` and the signature check rustls makes next; a refusal sends an alert |
| `ClientHello`, `ServerFlight`, `ServerFinished` | rustls, external: in TLS 1.3 the client is established after its own verification, in TLS 1.2 after the server's Finished |
| `ClientRequest`, `ServerReply`, `ClientDone` | the two applications, external: a request and its answer |
| `Fail` | an end that waits reads an alert, the end of the stream, or the report that the transport is lost |
| `LoseLink` | the transport is lost with any last part of what is under way; both ends are told, or one, or none |

`Admits` states what the documentation asks of a peer in terms of how its leaf
was made, without the verifiers' operators; `Knows` adds that the cells name
this peer. `CanAct(e)` says in terms of the state when end `e` has a step to
take (it is `ENABLED` of its actions, spelled out), and `CutOff(e)` that the
transport is lost and `e` is never told of it. TCP reports a loss to an end that
receives a reset or whose data is not acknowledged, and need not report it to one
that only reads; the crate sets neither a timeout nor a keepalive, so an end that
is cut off may wait for good. That is left to the caller, and the two properties
that say who does not wait except it by name.

### PeerIdHex

`to_hex` and `from_hex` of `identity.rs`, byte by byte. Pure, and proved rather
than run.

### Proof modules

`CertBindingProofs`, `NodeCertStoreProofs`, `NodeCertRefinementProofs`,
`NodeCertDurabilityProofs`, `CertDirReadersProofs`, `PeerVerifierProofs`, `MutualTlsProofs` hold the
theorems of section 4; the `MC` modules hold the instances of section 3.

## 3. Runs

| Run | Instance | Shows |
|---|---|---|
| `unix_crash` | 4 identities, deaths and I/O errors, one racing reader | `OverlapSurvives`, `NoSilentRemint`, and of the reader `LoadIsAtomic`, `AbsentIsTrue` |
| `unix_power` | 4 identities, power losses | `NoTornFile`, `IdentityNotLost`, `OverlapSurvives`, `ChangeKeepsPrevious` where durability matters; `DurablyImplementsIdentityStore` |
| `windows` | 4 identities, deaths and I/O errors, remove-then-rename | `ImplementsIdentityStore`, `IdentityNotLost`, `RetiredKeyErased`, `ChangeKeepsPrevious` |
| `verifier` | 2 connections, 8 leaves, all configurations, both schedules, resumption | `DecisionFollowsPolicy`, `CapturedBlsIsBound`, `ForeignNeverCaptured`, `ReadAloneIsExact` |
| `mutual` | 2 ends, 6 credentials, 2 clocks, both protocol versions, a transport lost with or without report, fairness | `ServerEndIsMutual`, `ReplyMeansMutual`, `NobodyStuck`, `CompatibleNeverFail`, `BothSettle`, `CompatiblePeersTalk` |

Seven runs end in a counterexample; each is an entry of `findings`:

* `torn_pair`: an interruption between the last two renames of `rotate` leaves
  the new certificate beside the old key. No call loads or repairs that slot:
  `load_or_generate` fails, `rotate` refuses. (The old identity is still in
  `.prev`, which is why the refinement holds all the same.)
* `advised_retire`: in that state the live identity is only in `.prev`, and
  the error of `rotate` advises `retire_previous`, which deletes it.
* `retired_returns`: deletions are not made durable; a power loss brings the
  retired pair back.
* `windows_remint`: interrupted between `remove_file` and `rename`, the next
  `load_or_generate` mints another identity.
* `shared_cells`: a handshake that runs between another connection's handshake
  and its reads of the two cells, even one that will be refused, overwrites them,
  and that connection reads one peer's `peer_id` beside another's BLS key.
* `resumed_session`: a resumed session calls no verifier, and `captured_peer_id`
  read after it is that of an earlier peer.
* `unknown_version`: `Opportunistic` refuses a binding of an unknown version,
  which SPEC 4 wants treated as no binding.

Bounds. Four identities allow three rotations, failed ones included: a
completed rotation, a second one after a retire, and one more that fails, which
is the longest history the invariants tell apart. Everything else in
`NodeCertStore` is finite by itself. On Windows the plain rename may succeed as
well as be refused, so `windows` includes every behaviour of unix under the same
faults. One reader is enough: readers write nothing, so no two of them
influence each other. Two connections in `PeerVerifier` are enough to interleave
at every step; a cell holds one value, so what a third connection leaves in it a
second one can leave as well. The eight leaves are one of each kind the verifier
distinguishes, with two SPKIs and two BLS keys so that a pin and a binding can
each be wrong. The six credentials of `mutual` are one of each kind two ends
can tell apart (this crate's own, a legacy one, one of another CA, one bound by a
point that is no key, one that is no certificate, one whose key the peer does not
hold). The legacy leaf is minted a minute after the others, so that two clocks
meet all four edges: -60 is the first minute of the others' validity and the one
before the legacy leaf's, `LEAF_LIFETIME + 1` the last minute of the legacy
leaf's and the one after the others'. Policy `Off` is
left to `verifier`. Symmetry permutes identities, or connections, which the
modules treat alike. Deadlock is checked for the store, which can always be
called; a verifier, or a connection, stops when it is done.

Fairness. Only `mutual` assumes any: weak fairness of `Client` and of `Server`,
the own steps of each end. Both applications drive their connection (with
tokio-rustls by awaiting it), the verifiers are plain code that returns, and
while the transport lasts TCP delivers the close of the other end. Nothing is
assumed of `LoseLink`, nor that a loss is ever reported: whom it is reported to
is chosen freely when it happens, and `Fail` is only owed to an end that is told.
Since the crate sets no timeout, none is modelled. `NodeCertStore` and `PeerVerifier`
get no fairness: calls are made when a user makes them, and every property of
theirs is a safety property.

Mutations. For each property of a passing run `PROJECT.json` names a faulty
variant of one operator (a dropped fsync, another order of the writes, a missing
guard, a cell not overwritten, a leaf not backdated or without one of its usages,
a refusal that never returns) under which TLC finds the property violated. The variants stand above
the definitions they vary.

## 4. Proofs

Every invariant and action property of the passing runs is also a theorem;
what remains to TLC is liveness.

`NodeCertStoreProofs`, for every set `Ids`:

* `TypeCorrect` and `NeverTorn` (`TypeOK`, `NoTornFile`)
  hold under every combination of faults. The inductive invariant `TypeInv`
  adds to the types where the running `atomic_write` is: what it staged, that
  it was flushed before the rename, that no name is ever dirty.
* `NeverLost` and `ChangeAnnounced` (`IdentityNotLost`,
  `ChangeKeepsPrevious`) hold under `Tolerated`. The
  properties are not inductive: that the live identity is in one of the slots
  says nothing about which slot the running call is overwriting. `LiveInv`
  says that the current pair is whole, and durable, until `.prev` is; that
  `.prev` is whole, and durable, while the current pair is written; and that a
  retire only runs while the current pair is the caller's.
* `OverlapKept` (`OverlapSurvives`) needs much less, `DirDurable`: it holds under
  every combination of process deaths, failing operations and power losses,
  and whenever the caller may retire. `OverlapInv` says that while the current
  pair is written, and in an overlap, `.prev` is whole and durable, and that no
  call but a retirement touches it then.
* `NeverReminted` (`NoSilentRemint`) holds on unix under `Separate`: by
  `KeptInv` both files of the current slot exist, and will after a power loss,
  from the first identity on. So a caller that lost its identity by the advice of
  `rotate` (`advised_retire`) is at least refused, and not given another. On
  Windows it fails (`windows_remint`).

`NodeCertRefinementProofs`, under `Powered`, on both platforms:

* `Implements` (`Spec => ImplementsIdentityStore`): initial states map to
  initial states (`StoreInit`) and every step to a step of `IdentityStore` or a
  stutter (`StoreStep`, one case per action). `StagedInv`, on top of the
  invariant above, says where the identity of the running call may already be,
  so that no file operation but the deciding one changes what the directory
  stands for.
* `Erased` (`RetiredKeyErased`): `ErasedInv` follows the copies of a key
  through names and staging names, including those a failed call left behind.

`NodeCertDurabilityProofs`, under `Unpowered`:

* `DurablyImplements` (`Spec => DurablyImplementsIdentityStore`). `DurableInv`
  says how far the names on the disk may be behind those of the running system:
  in the current slot by the one name being written, in `.prev` by deletions,
  and by none of these while a load after a power loss would fall back on `.prev`.
  The steps that move the abstract store are those in which names reach the
  disk: the kernel's write-backs, `fsync_dir`, and what was still on its way at a
  power loss (lemma `WrittenBack`).

`CertDirReadersProofs`, for every set of readers:

* `ReadersTypeCorrect` (`ReadersTypeOK`) under every set of faults,
  `ReadersAtomic` (`LoadIsAtomic`) under `SteadyPower`, `ReadersAbsent`
  (`AbsentIsTrue`) under `SteadyPower` on unix. `LoadIsAtomic` hinges
  on the order of the writes and of the reads: a key comes into place only
  beside its certificate (lemma `KeyArrives`), and a load reads the key last.
  So if the key it reads fits the certificate it read, the pair was whole at an
  instant of the call; `SeenInv` is that argument as an invariant.

`CertBindingProofs`:

* `BindingSound`: a leaf's binding verifies exactly when a proper BLS key
  attached it to this very SPKI. It is a fact of the symbolic operators of
  `CertBinding`, so it says that `binding.rs` checks enough, not that BLS is
  unforgeable. Its assumption, `BindingAssumption`, is that a bad point is no
  proper key.
* `AcceptedBinding`: what `evaluate` lets pass is what the policy table of
  SPEC 4 admits, and the key it yields is bound.
* `AdmissibleAccepted` is the converse: `evaluate` refuses no leaf that parses and
  that the table admits.

`PeerVerifierProofs`, for every set of connections, leaves, SPKIs and BLS keys,
every configuration, both schedules, and with or without resumption:

* `VerifierTypeCorrect`: no bad point reaches the cell. The
  inductive invariant adds `LeafInv`, that a connection has a leaf exactly when
  it has started.
* `DecisionCorrect` (`DecisionFollowsPolicy`). The property speaks only
  of the ends of a handshake. `DecisionInv` says what each point in between has
  established of the leaf (its chain, that it parses, its pin, its binding),
  and that every resumable session is one of an admissible leaf, which is what
  makes resumption safe although it calls no verifier.
* `BlsCellCorrect` and `PeerCellCorrect` (`CapturedBlsIsBound`,
  `ForeignNeverCaptured`) follow from the order of the steps in `DecisionInv`
  and from `CellsChange`: a cell is written by one action only and a leaf, once
  presented, stays.
* `ReadAloneCorrect` (`ReadAloneIsExact`): `AloneInv` says that at most one
  connection is between its handshake and its reads, what each cell holds at
  each of its points, and that under `Off` the BLS cell is never written.

`MutualTlsProofs`, for every set of credentials, keys, clocks, policies and
versions:

* `TrustIsKnowledge`: what the two verify functions accept is a peer the
  documentation admits (`Admits`), and the cells name it.
* `ServerIsMutual` and `ReplyIsMutual` (`ServerEndIsMutual`,
  `ReplyMeansMutual`). `TrustInv` says which messages and points carry trust: a
  client's certificate is under way only if that client accepted the server, and an
  answer only if the server accepted the client.
* `MutualTypeCorrect` (`TypeOK`): no bad point reaches a cell, and no more than two
  messages are under way to an end. `FlowInv` says what may be under way at each
  pair of points.
* `AdmittedIsApproved` and `CompatiblePeersNeverFail` (`CompatibleNeverFail`):
  under `Dated` and `Issued` a verifier refuses nobody the documentation admits,
  and two peers that admit each other neither refuse nor give up while the
  transport lasts. That they do not give up, `Fail` being guarded by what the
  other end did, needs `FlowInv` and `TrustInv`; `CompatInv` adds that no alert is
  under way.
* `NeverStuck` (`NobodyStuck`) and `EveryStepProgresses`: an end that waits and is
  not cut off has something to do, or its peer has while the transport lasts,
  and there are at most eleven steps. `TurnInv`
  says what is first in each queue and, while the transport lasts, whose turn
  it is.

`PeerIdHex`: `HexRoundTrip` (`from_hex` undoes `to_hex`) and `HexCanonical`
(`from_hex` accepts 64 hexadecimal characters of either case and nothing else,
and `to_hex` gives back their lower case).

Assumptions.

* `Tolerated`: the caller is `"converged"`, and `Separate`: a power loss is not
  combined with process deaths and I/O errors, nor with a directory that was
  itself never synced. Both exclusions are needed. A process that dies between the last
  rename of `rotate` and its `fsync_dir`, is restarted and loads the new
  identity from the page cache, loses that identity in a power loss before the
  kernel's write-back. And `create_dir_all` does not sync the parent of the
  directory it makes, so a first identity may vanish with its directory.
* `Powered`: `Tolerated`, and no power losses. A power loss may undo the
  deletion of a retired pair (`retired_returns`), which no step of the abstract
  store does.
* `Unpowered`: `Tolerated`, and power losses, hence unix. With process deaths
  added, the identity loaded after the restart may be converged and its
  predecessor retired before the key of the new one is on the disk; if the
  deletions reach the disk first, no identity is durable at all.
* `DirDurable`: if power may be lost, the directory was durable from the start.
  `SteadyPower`: it is not lost. Neither says anything of the caller.
* `Dated`: each leaf carries the validity `generate_signed_by` gives it by its
  minter's clock. It is a hypothesis of the theorems that speak of clocks,
  since a peer may present any leaf: with leaves dated otherwise the
  verifier checks what the leaf says, and that is all it can.
* `Issued`: what the key of the DigNetwork CA signed came from
  `generate_signed_by`, with its issuer name and both usages. It is a
  hypothesis of the two theorems that say who is not refused; a leaf of
  other software with that key may be refused for its usages.
* Named `ASSUME`s give the constants their types. `StoreAssumption` also excludes
  Windows with power losses, since nothing in the code tells what `MoveFileExW`
  leaves behind.

Model-checked only: `BothSettle` and `CompatiblePeersTalk`. Liveness under
fairness is out of TLAPS's reach here. What the two rest on is proved: until both
are done there is something to do, for every end that is not cut off
(`NeverStuck`), every step
uses up one of eleven (`EveryStepProgresses`), and compatible peers have no other
way to be done than to have talked (`CompatiblePeersNeverFail`). What is left to
TLC is that `CanAct` is when the steps are enabled, and the temporal conclusion.

## 5. Not modelled

* Two writers in one directory. They share the `.tmp` names and nothing locks
  the directory; each consumer of the crate has one daemon per directory, and
  that is what the specification has. Racing loads are covered, and
  `AbsentIsTrue` shows that on unix such a load does not become a second writer
  once there is an identity. Two first runs in one empty directory are not
  followed.
* Process deaths or I/O errors combined with power losses, and a power loss
  soon after the directory was created: see `Tolerated`.
* Presenting two identities during an overlap: the crate offers
  `load_previous`, the choice of the certificate is made by its consumers.
* Path building through intermediates (the crate asks webpki for one anchor and
  passes on what the peer sent), X.509, DER and PEM, the rustls state machine
  beyond the points where it calls this crate, curve arithmetic. These are
  libraries; what the crate relies on is in the definitions marked external.
* Deadlines. Nothing in the crate ends a handshake or a read whose transport was
  lost without a report; consumers have to. `MutualTls` has the state (`CutOff`)
  and no step out of it.
* The `OnceLock` around the decoded CA: its value is a constant, and any
  initialisation order yields the same one.
* File modes and ACLs, zeroizing of key memory: no state that any other step
  reads.
* `error.rs` and `lib.rs` (types and re-exports), CI, release and the CA example.
