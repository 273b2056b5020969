# Glacialcast verification project

TLA+ models of [Glacialcast](../src/README.md), an end-to-end encrypted screen
casting system: a publisher (`gcpub`) captures and encrypts a desktop, a relay
stores and forwards ciphertext it cannot read, and viewers (`gcview`) replay and
follow streams they were granted keys for. The models are translated from the
Rust sources under `crates/`; TLC checks them on small instances and TLAPS
proves the results listed below for every value of the constants.

## 1. Inventory

| Component | State | Operations | Interacts with |
|---|---|---|---|
| Native store (`relay/native_store.rs`) | tables `streams`, `groups`, `objects`, `envelopes` in SQLite | `put_descriptor`, `store_object`, `store_envelope`, `enforce_retention_at`, `finalize_stream`; reads `subscription_anchor`, `retained_bounds`, `list_objects`, `get_envelope`, `high_water` | called by every relay task, one transaction at a time under a mutex |
| Relay service (`relay/native_service.rs`) | `online_streams`, live broadcast channels, per connection task: `touched_streams`, `last_sequence`, receiver | publisher sessions (resume, descriptor, object, envelope, clean-up), subscriptions (anchor, replay, live tail, re-anchor), catalog, inbox | store calls on worker threads, tokio broadcast channel, sockets |
| Relay runtime (`relay/native_runtime.rs`) | configuration, timers | retention each second, CRL reload each second, shutdown | store, access policy |
| Access policy (`relay/native_access.rs`) | CA key, revocation list | `admit`, `ensure_active`, `replace_revocations` | every session, at admission and at each message |
| Pairing queue (`relay/pairing_store.rs`) | requests with offer, confirmation and decision rows | `enqueue_request`, `store_offer`, `store_confirmation`, `store_decision`, inboxes, purge | sessions of both roles |
| Publisher administration (`publisher/native_admin.rs`) | `publisher-state.bin`: requests, approvals, outboxes | live approvals, approve, reject, revoke, flush, history keys | relay, publish loop through files and locks |
| Publish loop (`publisher/native_publish.rs`) | sequence, group, approved viewers, key history | resume, rotate group, publish, save key history | capture, encoder, relay |
| Capture and encoder (`publisher/lib.rs`, `encoder.rs`, `egl_readback.rs`) | frames, damage, cursor bitmaps | portal and PipeWire capture, H.264 encoding | foreign libraries |
| Viewer core (`viewer/lib.rs`) | key cache, pending ciphertext, trust pins, retry state | subscribe, drain, reconnect, pair | relay, UI |
| Protocol (`protocol/*.rs`) | trust files, private state files | wire formats, identities, credentials, pairing messages, trust pins | all |

What is hard here: every relay connection is a task that yields at each store
call and socket operation, so two sessions, a subscription and the retention
timer interleave between any two steps; a subscription combines paged reads with
a lossy broadcast tail; connections fail at any await and the relay may stop
between a commit and its broadcast; retention removes what a replay is about to
read. The publisher's loop, its approval worker and `gcpub` commands share two
files, and the loop uses a list of viewers it read before it waited for a frame.
Pairing is a conversation of three parties that only meet in queues which expire.
A capture is two threads, one of which runs a foreign event loop that can only be
stopped through a pointer it publishes itself. `PROJECT.json` lists each hazard at
its line with the properties that would catch it.

What makes each component correct:

* store: retained history is one gapless run of whole, decodable, single-key
  groups; commits are immutable; eviction is oldest-first and exact; quotas hold;
* service: one session per stream, exact resume positions, no object or key lost
  between replay and tail, honest error replies, progress;
* access: a withdrawn credential ends the sessions it opened and gets no others;
* pairing and administration: both humans compare one transcript, a request is
  decided once, no approval outruns its grant, and a revoked viewer gets no later
  key;
* capture: no thread outlives its capture, a shutdown ends all of them,
  publication resumes after failures and the cursor shown is the compositor's;
* viewer: passes over no object and catches up with bounded memory.

## 2. Modules

`NativeStore.tla` — the store. One action per writing operation. A transaction
that fails rolls back, so errors are stuttering steps and an action's guard is
the conjunction of the checks the code makes before it commits. The four tables
are functions from streams to sets of row records; `active` is the pair of
columns `(active_epoch, active_group)`. Eviction is the closed form of the code's
loop: the complete groups all of whose predecessors, and which themselves, exceed
a limit when their turn comes. Reads that decide where a replay starts are
operators. A byte-identical retry and an envelope for a missing or already served
group change nothing and are stuttering steps.

`RelayService.tla` — extends `NativeStore` with the tasks around it. A session
goes `new`, `serving`, then `validated`/`claimed` during a resume, `stored`
between a commit and its broadcast, `closing` and `closed`; `Fail` takes it to
`closing` from every await that can fail. A subscription goes `subscribed`
(receiver created), `anchored`, `keying`, `replay`, `sending`, `live`, and ends
as `closed`, `gap` or `unavailable`. tokio's broadcast channel is modelled from
its use: a bounded queue per receiver that overwrites its oldest item and marks
the receiver as lagged. `Restart` drops everything but the tables.

`KeyDelivery.tla` — the publish loop of one stream with the administration
sessions beside it and the part of the relay they see. The loop goes `down`,
`read` (top of the loop), `capture`, `epoch` (epoch object sent), `media`,
`cursor`; each await is a step of its own, and so are the reading of the approval
file, the saving of the key history and the wait for an acknowledgement. What was
written to the connection is `keysOut` and `objectOut`: the relay takes it in
order, and after `Drop` any prefix of it. An administration session, a round of the
approval worker or a command, owns the approval file's lock from `Synchronize`
(`open`) on: it loads the policy (`loaded`), flushes the pairing outboxes
(`refresh`), refreshes and approves (`decided`), flushes them again (`flush`) and
only then delivers retained keys (`send`) until `EndSession`. `RoundRefused`,
`OutboxRefused` and `QuotaRefuses` are the errors that recur as long as their cause
lasts, and are not bounded; `SessionFails` and `DeliveryFails` are the transient
ones. The loop reads the file only while the lock is free. Of the pairing outboxes,
which `Pairing` has in full, `pairing` says whether something is queued and whether
the relay has purged its request. Envelopes of a group the relay does
not retain are dropped silently, as `store_envelope` does; a quota error on the
publish loop's own connection ends it, which is `Drop`. A frame's content is
one unit of `content_bytes`, a cursor batch another. `seen`, `denied` and
`openAt` are history variables that only the properties read.

`LiveFeed.tla` — the abstract promise to a viewer: from its anchor on, it is sent
durable objects one by one with none skipped or repeated until its feed closes.
`RelayService` implements it (`ImplementsLiveFeed`); replay, re-anchoring,
sessions and retention are stuttering steps of it.

`Pairing.tla` — the pairing ceremony of one stream: the relay's queue
(`pairing_store.rs` and the messages of `native_service.rs` that reach it), the
publisher's administration sessions (`native_admin.rs`) and the viewer's side of
it (`viewer/lib.rs`). A relay row is a record of request, offer, confirmation and
decision; each call is one transaction that first purges what expired (`Kept` is
what is left). A publisher session holds the lock on `publisher-state.bin` and
goes `flush first`, `refresh`, `flush new`, `command`, `flush decided`; `mem` is
its copy, `disk` the file, and the two differ between a change and its save.
`Interrupt` ends it between any two calls, and each call may be carried out with
its answer lost (`answered`). A config or policy that does not load ends a round
before anything is read, which changes nothing. A viewer's refresh acts on the
inbox message by message, the offers first, and may stop after any of them, or
between the two files a decision is written to; it is one step whose outcome is
one of these prefixes (`Prefixes`), because nobody else touches the viewer's files. An offer is its nonce; a confirmation or a manual
decision is the nonce of the offer whose transcript it signs. The viewer policy
may be another in every round, as the configuration is read again. `gcview
--verify-stream` is a process of its own (`polling`) that keeps its request in
memory and excludes the window's process from the viewer's files.

`Access.tla` — the relay's access policy for one credential: the list in force,
the file the reload task reads, the clock, `Admit`, `EnsureActive`,
`ReplaceRevocations` and the validity rules of `credential.rs`, the bound on a
lifetime included. Replacing the file is the operator's doing (`ReplaceFile`). It has
no next-state relation of its own.

`ViewerSession.tla` — composes `Access` with one viewer and the relay task that
serves it. The viewer's side is the selection, reconnection at
`last_decrypted + 1`, the bounded key cache in insertion order, the bounded queue
of ciphertext waiting for the key of its first object, `LiveSequenceGuard`, the
periodic refresh and the read timeout. The queue's bound in bytes is a choice: one
object is always within it, a second may be beyond. A message that does not open or
decode ends the connection like a lost one (`Disconnect`). The relay's side is admission, the check
before a control message, the anchor, the paged replay, which does not look at
the policy, and the live loop, which does between items. The stream's sequence,
eviction, also of the last group once the publisher's session has ended
(`Finalize`), and granted keys are its environment. A connection is `off`, welcomed
(`control`, `command`), replaying (`read`, `replay`) or in the live loop (`check`,
`wait`).
`joined`, `played` and `late` are history variables that only the properties read.

`CapturePipeline.tla` — one published target: the publisher thread with its retry
loop (`pub.pc` is the await it is at), the capture it owns, the PipeWire thread
and its callbacks (`pw`), the read-back of GPU buffers with the paths it gave up
on, the frame and cursor slots between the threads, the encoder and the cursor
state of an epoch. `env` is the desktop: how capture is opened, the source's
size, mapped memory or DMA-BUF, and what the driver can do. A stream that is opened
may not report its size (1x1 is assumed then), and a grant opened earlier keeps the
size it had. A cursor update has the bitmap as decoded, `None` when the compositor
left it out or `pipewire_cursor_bitmap` refused it. The cursor is
reported outside the source, so that clamping and scaling decide whether the
batch is valid. Sizes are computed as
the code does, with the floating-point scale replaced by the exact ratio. A
frame's serial number is one bit, taken or not, and `pw_main_loop_quit` is taken
to work also before the loop runs (an assumption on foreign code: the call is
queued for the loop).

`MCNativeStore.tla`, `MCRelayService.tla`, `MCKeyDelivery.tla`, `MCPairing.tla`,
`MCViewerSession.tla`, `MCCapturePipeline.tla` — definitions the TLC
configurations use (object shapes, start requests, revocation lists, desktops,
symmetry sets).

`NativeStoreProofs.tla`, `RelayServiceProofs.tla` (sessions),
`RelayFeedProofs.tla` (subscriptions and the two refinements),
`KeyDeliveryProofs.tla`, `PairingProofs.tla`, `ViewerSessionProofs.tla`,
`CapturePipelineProofs.tla` — the theorems. `SumTheorems.tla` — the lemmas about
sums over finite sets that two of them use.

Definitions named "Mutant:" in their comment are plausible bugs of the operator
below them. They are not used by any specification; substituting one for its
original makes the property listed with it in `PROJECT.json` fail.

## 3. Runs

| Run | Instance | Shows |
|---|---|---|
| `StoreHistory` | 1 stream, 2 epochs x 2 groups, 2 keys, 2 timestamps, 2 clock values, 5 sequences, byte and age retention | gapless, decodable, immutable, single-key history; exact oldest-first eviction; anchors that replay |
| `StoreAnchorFallback` | as `StoreHistory` | violation: the documented fallback to the oldest group does not happen |
| `RelaySessions` | 2 sessions, 2 publishers, 2 streams, item sizes 1 and 2, quotas below the sum of what fits, no viewers | bytes really stored within quotas, rows stay with their owner; exclusive claims, exact resume position, finalization only of one's own group |
| `RelayTail` | 2 sessions, 1 viewer, live and sequence starts, channel capacity 1, pages of 1, 2 key groups, 2 sequences, retention of 2 bytes | no lost object or key, honest gap errors, refinement of `LiveFeed`; catching up and release of streams |
| `RelayUnavailable` | the same with every kind of start, pages of 2, 3 sequences | violation: HistoryUnavailable for a subscription that misses nothing |
| `KeyHistory` | 2 viewers, 2 connections of 2 frames, groups of 2 frames, 3 content bytes of key history, 1 fault | no later key for a revoked viewer, no refused object, complete deliveries |
| `KeyOutbox` | 2 viewers, 2 connections of 1 frame, 1 content byte and age 1 of key history, two clock readings, 1 fault | keys of published media are saved or pruned oldest first; deliveries that end |
| `KeyRotation` | 2 viewers, 3 frames, no faults | violation: a viewer approved during a group's first frame may never get its key |
| `KeyRevocation` | 1 viewer | violation: approval and revocation between two readings do not rotate the key |
| `PairingCeremony` | 2 requests of 2 viewers behind one address, one with a trusted credential, all policies, lifetime 2, retention 1, 4 clock values, 2 offers per request | one transcript, one decision, no approval without its grant on disk, delivery while the relay keeps the requests |
| `ViewerPlayback` | groups of 2, 3 sequences, 1 cached key, 2 waiting objects, live and oldest starts, 3 clock values, four revocation lists (valid until time 1, revoking, forged, valid for too long), credential expiring at time 2, 1 fault | nothing passed over while the relay has the next object, catching up, the end of a withdrawn credential's sessions |
| `CapturePipeline` | three desktops (portal with mapped memory; Mutter with DMA-BUF; the same without GBM and with an odd size), 2 cursor images, 2 environment failures | no leaked thread, shutdown, recovery, the right cursor image |

Bounds. `MaxSequence` stands for the largest SQLite INTEGER, so the run that
reaches it also reaches the end of the sequence space. Five sequences allow a
complete group of two objects to be evicted while another complete and an active
group remain; in the service a page of 1 with 2 sequences of two groups gives two full
pages and an empty one, with the first group evicted before or between them; the
safety properties are proved for every page and capacity, so the run is sized for
its liveness. A channel of capacity 1 overflows on the second
item a replaying viewer has not taken. Retention limits are low enough that
every group can be evicted at every point of a replay. Sessions and viewers are
used once, which bounds reconnects by the number of sessions.

In `KeyOutbox` the clock reads 0 or 2 with an age limit of 1, so keys of the
first connection can age away and keys of the same reading cannot; 1 content
byte is less than two frames, so the byte limit prunes too, as 3 bytes do in
`KeyHistory`, whose frames come in groups of two. One fault is one lost connection, crash or failed delivery, at
any point. Rounds refused for the policy, a purged record or a quota are unlimited.
The clock of this model does not go back.

In `PairingCeremony` a request can expire before, between and after each message,
and be purged while records for it are queued; two offers are what a crash before
the save would need for two transcripts. Sessions may be cut off any number of
times. In `ViewerPlayback` one cached key and two waiting objects are less than
the two groups of the stream, so each refresh evicts and the queue overflows. In
it the clock reaches the expiry of the first list and of the credential. In `CapturePipeline`
`MaxFaults` bounds what the desktop does wrong, two being enough for a failure
while the capture recovers from another; the scheduling of the threads and a
shutdown at any step are not bounded.

Fairness. `RelayTail`: weak fairness of a session's own next step after
a message was accepted, and of a subscription's next step. tokio polls ready
tasks and store calls return; a peer that stops reading or sending for good is
`Disconnect` or `Fail`, which are always possible and never required. No fairness
is assumed of publishers, viewers, retention or restarts. `KeyOutbox`:
weak fairness of the administration's next step, because
`run_live_approvals` starts a round every second and each of its network calls has a
timeout. Sessions and deliveries that fail on the network are bounded by `MaxFaults`;
a relay that is never reachable again keeps a grant queued for ever, as it should.
`OutboxDrains` names in its hypothesis the three lasting errors after which a grant
also stays queued. The publish loop needs no fairness.

`PairingCeremony`: weak fairness of the start of a session (`run_live_approvals`
starts one each second, and the config loads in some of them) and of its steps that need nobody else; strong fairness
of an answered delivery, so that the network does not lose every answer.
`ViewerPlayback`: the reload task, the connection's two tasks and the read timeout
run; strong fairness of playing an object, because the refresh that may push its
key out of a full cache runs every five seconds and does not fall between key and
object every time. No fairness of the publisher, of grants or of eviction.
`CapturePipeline`: both threads run, the compositor goes on delivering buffers of
a running stream, and the poll for the start of the PipeWire thread, every
millisecond, does not miss it for ever. Nothing makes a user answer the portal's
dialog or asks for a shutdown.

Deadlock checking is on everywhere but in `KeyDelivery`, which really stops when
its frames are used up and nothing is left to deliver. `CapturePipeline` has an
explicit step for a publisher thread that has ended.

`TypeOK` of `Pairing`, `ViewerSession` and `CapturePipeline` documents their
variables; the runs check properties that imply more.

## 4. Findings

1. `subscription_anchor` (`native_store.rs:981`) anchors a start that is older
   than everything retained at the next live sequence. Its doc comment promises
   the oldest complete retained group (`native_store.rs:901-904`).
2. After `Lagged`, `subscription` takes "no progress" as "history lost"
   (`native_service.rs:839`). A receiver fills during the replay with objects the
   replay itself sends; when they overflow the channel and nothing newer was
   committed, a fully caught-up viewer is disconnected with HistoryUnavailable.

3. `publish_history_groups` skips a group without counted content because the
   live path delivers it "moments later" (`native_admin.rs:698-703`). The live
   path only does so if the next frame continues the group. If it rotates, the
   viewer approved in between gets that group's key from neither path.
4. The loop detects a revocation by comparing two readings of the approval file
   (`native_publish.rs:306`). A viewer approved, served from history and revoked
   between them is not noticed: publication continues under a key it holds until
   the next regular rotation, while `README.md:48-50` promises a rotation before
   anything more is published.
### Observations

Behaviour met while modelling that no document contradicts outright. The
properties name each as an exception or allow for it.

* Every round flushes the pairing outboxes first and ends if the relay refuses a
  record (`native_admin.rs:273`, `278`, `622-652`). One whose request was purged, such
  as an approval given after the request's lifetime, is refused in every round and
  never taken out: what is queued behind it waits for ever, and no grant gets its
  retained keys any more. It is the exception of `DeliveredWhileKept` and one of the
  three `OutboxDrains` names. The comment at `native_admin.rs:701-702` tells how one
  refusal in the history outbox "used to wedge every grant behind it".
* A trusted revocation list that has expired fails `load_policy`, and with it every
  round (`native_admin.rs:546`), also under a policy that does not use it.
* `approve-all` stops at the first request it cannot approve; one
  confirmed request of a revoked viewer keeps those after it from being approved.
* A replay is not interrupted by a revocation: access is looked at before the
  subscription and between live items (`native_service.rs:786-807`).
* `last_decrypted` can fall when a group is replayed after a reconnect, and a
  viewer whose resume point was evicted joins at the next live sequence, in the
  middle of a group it may not be able to decode, past what is still retained
  (finding 1). `JumpsOnlyPastEviction` says that this is the only jump.
* The refresh inserts envelopes newest first into a cache that drops the oldest
  insertion, so a full cache keeps the oldest groups' keys.
* On an idle stream the viewer's read times out and it reconnects; the replay that
  follows is also how it gets a key whose envelope its lagging receiver lost.
* A cursor bitmap that `pipewire_cursor_bitmap` refuses leaves the previous image in
  the sample, and the events go on naming it (`publisher/lib.rs:983`, `1994-1998`).
  `CursorImageRight` is stated for images that were decoded.
* `pipewire_cursor_sample` forgets a cursor's bitmap when it is hidden
  (`publisher/lib.rs:1981`); a compositor that shows it again by id alone gets an
  event without the image.
* The portal's dialog is awaited without the shutdown channel, and
  `start_pipewire_thread` after its timeout joins a thread it has no pointer to
  (`publisher/lib.rs:3019-3020`): the exceptions of `ShutdownCompletes`.
* The GPU path scales to even sizes, the CPU path only rounds: a 6x5 source
  limited to 4x4 is 4x2 on one and 4x3 on the other, which the encoder refuses as
  a fatal error (`publisher/lib.rs:935`, `5239`, `encoder.rs:747`).

## 5. Proofs

`NativeStoreProofs` proves, for arbitrary constants satisfying the named
assumptions `DataAssumption` (ranges of wire types, and `None` being no value),
`LimitAssumption` (what `open_with_limits` enforces) and `StreamsAssumption`
(stream ids are UUIDs, so there are finitely many): type correctness,
`RetainedHistoryGapless`, `GroupsDecodable`, `ActiveGroupIsNewest`,
`KeysMatchGroups`, `OwnerBinding`, `HistoryImmutable`, `EvictsOldestFirst`,
`RetentionIsExact`, `StoredBytesWithinQuota`, and of the reads `AnchorsReplayable`
and `AdvertisedRangeSeekable` (a consequence of the invariant in one state, which
no run checks). The `Store...` and `Relay...` runs evaluate the
three assumptions.

None of the five structural properties is inductive alone: that eviction leaves
an interval needs that complete groups precede the active one; that an append
extends the newest group needs that the active group ends at the high-water mark;
that deleting a group deletes exactly its range needs that its objects fill it.
The inductive invariant is therefore `TypeOK` and, for each stream, the
conjunction of the value-level predicates `GroupsTile`, `ObjectsFill`,
`GroupStartsDecodable`, `ActiveIsNewest` and `KeysAgree`. These are predicates on
row sets, so each change of rows (open a group, extend it, complete it, charge
it) has a lemma of its own, and one lemma, `RetentionKeepsConsistent`, covers the
eviction that ends every transaction. Its core is `EvictedIsPrefix`: what the
loop deletes is a prefix of the complete groups. `RetentionIsExact` follows from the
same invariant, without arithmetic on sums: what the eviction leaves is what
the loop saw at the turn of the oldest group it left (`OldestLeft`), and with the
last group it took, what it saw at that one's turn (`NewestTaken`).

`StoredBytesWithinQuota` is about the rows of two tables, while
`check_group_growth` adds up counters that are kept per group. Its invariant adds
`StoreAccounted`: the counter of each group is the sum of the bytes of its objects
and envelopes, group ids are unique and all row sets are finite. With the
structural invariant (each row is of a retained group) the counters of a stream
add up to the bytes of its rows (`RetainedIsRows`), so the code's checks bound what
is really stored (`CountersAreRows`, `CommitKeepsQuota`). That a stream given an
owner holds nothing yet, and so brings no bytes into that publisher's quota,
comes from `OwnerBinding`.

`SumTheorems` is the theory of sums behind this. `MapThenSumSet` folds over a set
in an order that `CHOOSE` picks, through a recursive function of which the provers
know nothing. `Weight(f, S)` is the same number without recursion: how many pairs
`<<x, i>>` with `i \in 1..f[x]` there are, so that the theorems on cardinality give
its algebra (empty set, disjoint union, monotonicity, parts). `SumFoldExists`
shows that `Weight` solves the fold's equation, so the function the fold chooses
exists; `SumFoldIsWeight` shows that the solution is unique, by a counterexample of
least cardinality, which takes the place of induction over finite sets.

`RelayServiceProofs` proves for any number of sessions and streams that claims
are exclusive and online exactly while held (`OnlineIsHeld`), that ending a
session never closes a group another session writes (`FinalizesOwnGroup`) and
that a resume position stays exact (`CursorExact`). The invariant adds that a
position or a pending object belongs to a stream its session holds, and that a
pending object is the stream's newest.

`KeyDeliveryProofs` proves for any viewers, limits, frames, connections and
faults: type correctness; `RevokedNeverKeyed`; and `NeverRefused`. The first
needs `Positions` (which counters are set at which point of the loop). The second
adds `GroupsOpened` (the relay holds only groups the loop opened, so no envelope
can precede its group's opening) and `Denial` (approvals and deny list are
disjoint, outbox and running delivery serve only approved viewers, and the loop's
list was read together with the deny list its group remembers). The third adds
`InStep`, which ties the loop's sequence to the relay's mark at every point.

`DeliveredGrantsComplete` needs `GrantInv` beside these: `KeyLedger` (the loop's
copy of the key history is the file, a group's key is recorded once and has
content exactly from the end of the group's first frame), `LiveKeys` (from the
moment the current key is sealed, each viewer read at the start of the frame has
its envelope or has it in flight before the next object, and a viewer approved
since then in a first frame has that group as its exception), `Outbox` (a session
tries each queued grant once) and `Held`, the property itself extended to the
grant under delivery, for which a key may still be in the session's plan. It
needs nothing of pruning but that it only removes keys.

The steps of a session before its history outbox need no invariant of their own:
they change neither grants, keys nor envelopes.

`PublishedKeysDurable` is about what pruning removes. `Durable` adds to it that the
saved keys carry times in the order of their groups and none in the future
(`InOrder`), and that the current group's key is saved, or all saved keys are
newer, from `RecordKey` on. By `PruneTakesOldest`
each rule of `prune_key_history` then takes keys older than those it leaves: the age
rule because of the order, the byte rule because the bytes from a key on do not
grow towards newer keys, which is `BytesSubset` of `SumTheorems`. The clock of this
model does not go back.

`RelayFeedProofs` first shows that the service uses the store as `NativeStore`
allows (`ServiceImplementsStore`), which carries every store theorem over to the
service (`ServiceOwnerBinding` and `ServiceWithinQuota` state the two that the
`RelaySessions` run checks there), and then proves for any number of sessions, viewers and streams, every
channel capacity and page size: `TailGapless`, `KeysNotMissed`, `GapIsHonest`,
`ServiceTypeOK` and `ImplementsLiveFeed`. None of the first three is inductive,
because they speak of the live loop while what makes them true happens during the
replay. The invariant `FeedInv` holds in every phase. For one subscription on its
stream it says: which fields mean something in which phase (`Stands`); the page
in hand is all that is retained between the last object sent and the page's end
(`PageSound`); the receiver holds committed objects in order, older than the one
between its commit and its broadcast (`QueueSound`); once the task reads no
further page, each retained object past the last one sent is in the page, in the
receiver or in transit (`TailHeld`); and an envelope that is neither sent, queued
nor in transit is of a group of which nothing was sent, and which can only be
sent after its envelope was looked up (`KeysHeld`). These are predicates on
values, so that each kind of step (rows leave, an object or an envelope arrives,
a broadcast, each step of the task, an end) has one lemma. The refinement maps a
viewer's feed to its stream once the anchor is read, the next due sequence to
`last + 1`, and the end to the phases that end: a commit of any session is
`Commit`, the read of the anchor `Open`, a send from page or receiver `Deliver`,
an end or a restart `Close`, and every other step is invisible. `FeedInv` supplies
that what is sent is the next sequence and durable. `ServiceAssumption` says that
`None` is no stream, that capacity and page are positive and what a start request
is.

`PairingProofs` proves `ApprovalBacked`, `CeremonyAgrees`, `DecidedOnce` and the
types for every set of requests, policy and bound. The invariant `PairInv` adds
what is true between two saves: a session works on what is saved
(`WorksOnSaved`), refreshes only with empty outboxes (`FlushedFirst`), a queued
decision is of a request no longer pending whose approval is granted
(`QueueDecides`), and a request the publisher has not acted on has no offer
anywhere (`RowsMade`, `NewIsBlank`), which is why a second offer after a crash
cannot meet a first one.

`ViewerSessionProofs` proves `NoSilentSkip`, `JumpsOnlyPastEviction`,
`LateItemsBounded` and the types. `ViewInv` adds the shape of the queue (`QueueIsRun`:
what was received and not decrypted is the unbroken run up to the last object
received, and begins where playing has reached) and that a late item is followed by the check that ends the
subscription (`LateIsLast`).

`CapturePipelineProofs` proves `NoThreadOutlivesCapture`, `CursorImageRight` and
the types for every set of sources, desktops and failures. `ThreadInv` ties the
PipeWire thread to the capture that owns it: a thread without a capture is being
started or joined. `CursorImageRight` needs all of `CaptureInv`: the sample, the
compositor's state and the cache agree (`SampleInv`), and no batch is refused
after its bitmap was recorded as sent (`SizeInv`, `EpochInv`: the cursor is clamped
into the size the encoder was made for). `CaptureAssumption` says in addition that
`None` is told from images and cursor events.

Every invariant and every safety action property that a passing run checks is
stated by a theorem. Model-checked only is all liveness (`CatchesUp`,
`SessionsRelease`, `OutboxDrains`, `DeliveredWhileKept`, `PlaysOn`,
`WithdrawalEndsSessions`, `ShutdownCompletes`, `CaptureRecovers`), which is outside
the prover's reach. The properties of the violation runs do not hold.

## 6. Not modelled, and the plan

Cryptography, encodings and file formats are ideal: two items are equal exactly
when their bytes are and carry the identity that signed them. Opening and
migrating the store, logging, metrics, configuration and the viewer's windows are
left out. Of the capture, PipeWire, D-Bus, EGL, GBM and OpenH264 are foreign and
appear as steps that succeed or fail; pixels, colour conversion and bit rates are
data no property tells apart. The retained DMA-BUF video path is not modelled
because `should_capture_dmabuf` never selects it, nor is the test pattern source.
A peer that stops reading without closing its connection is modelled only as one
that disconnects in the end, and the length of network calls is not modelled.

`ViewerSession` abstracts the relay's store to a mark, an oldest group and the
groups keyed; that the store and the subscription behave like that is what the
`Store...` and `Relay...` runs and `LiveFeed` show.

Next: proofs that `ViewerSession`'s abstraction of the relay is what `RelayService`
offers (a refinement with the subscription's phases mapped to the connection's),
and theorems about the operators whose data is bounded in the runs, such as the
sizes `CapturePipeline` computes.
