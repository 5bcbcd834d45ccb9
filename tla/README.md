# TLA+ verification of CortexRail

The specifications in this directory model the payment protocols of CortexRail:
the Soroban contracts under `contract/contracts` and the Node.js services under
`backend/src` that drive them. TLC checks every model on small instances; TLAPS
proves most of the safety properties for every value of the constants.

## The system

CortexRail lets software agents sell API calls and data to each other and settles
the payments on Stellar. Contracts hold the money; the backend negotiates,
meters, batches, disputes and audits.

| Component | State | Operations | Hard behaviour | Correct when |
|---|---|---|---|---|
| Channel contract (`channels/src/lib.rs`, `state.rs`) | channels, pending closes, registered keys, one token pool | register key, open, close cooperatively or unilaterally, dispute, punish, force close | calls of two parties race; clock; re-keying | the pool covers every open channel; a stake is paid once, whole, to its parties; closes resolve |
| Channel negotiation (`backend/src/channels`, channel calls of `sdk/CortexAgentSDK.js`) | per party: current state, round in flight, revocation slots | propose, counterSign, ack, complete, finalize | messages lost, repeated, crossing | no fork of a version; a party always has a safe state; nobody stays behind |
| Watchtower, `protocol/ChannelMonitor.js` | one package per state hash, event cursor | register, poll, punish | look-up then punish later; overwritten packages | an offline party is protected; only stale closes are punished |
| Streams (`micropayments/src/lib.rs`) | payment streams, usage streams, settlement results by nonce | open, withdraw, cancel, pause, resume, batch_settle | retries; time boundaries | money conserved; a nonce pays once |
| Usage meters (`micropayments/src/attestation.rs`, `backend/src/attestation`) | meters, batches, seller keys | fund, record, claim, challenge, withdraw | windows; partial refunds; replayed nonces | charged money is claimed or refunded, never both |
| Batch settlement (`protocol/BatchSettler.js`, `SettlementLedger.js`, `SettlementReconciler.js`, `DeadLetterQueue.js`) | settlement rows, stream counters, dead letters | settle, confirm, fail, recover; retry and heal, which nothing reaches | crash between steps, lost replies, overlapping timers | a call is settled in one batch; a settlement is recorded once, and only if it was paid |
| Quotes, stream negotiation, metering | quotes, agreements, call counters | issue, verify, agree, count | expiry timers, in-memory state | an agreement lives until its own expiry |
| Marketplace contract (`marketplace/src/lib.rs`) | assets, proposals, auctions, escrows, bonds, licences, capacity | purchase, bid, reveal, settle, dispute, escalate, renew, reserve | windows, votes, refunds, several owners of one pool | each escrow is paid out once; the auction's winner is right |
| Auction engine (`protocol/AuctionEngine.js`) | observed auctions | tick | retried contract calls | an auction ends |
| Arbitration (`arbitration/DisputeGame.js`, approval workflow) | dispute rounds, approvals | commit, reveal, escalate, approve | deadlines and resets | a round ends once, by its answers |
| Agent registry contract | agents, stakes, disputes | stake, unstake, vote, resolve, slash | stake moves while votes count | slashes are covered by stake |
| Audit log and anchor (`backend/src/audit`, `audit_anchor`) | hash chain, anchors | append, anchor, verify | concurrent appends, lost replies | the chain is contiguous and every prefix provable |
| Event pipeline (`backend/src/pipeline`, `listeners`) | cursor, seen events, queue, dead letters | ingest, process, persist, replay | restart in the middle of a ledger, duplicates | every event takes effect once |
| Market and pricing (`backend/src/market`, `pricing`) | windows, queues, base fee | reserve, order, adjust | carry-over, ageing, clamps | limits hold |
| Routes, repositories, services, CLI, fraud scoring, simulation, front end | rows and requests | queries, validation | none of their own | not modelled |

The components meet in four ways. The SDK and the services call contracts, one
transaction being one atomic step; contracts emit events which the monitor, the
listeners and the pipeline poll; agents exchange messages over whatever transport
they share; and services share database tables.

## Modules

| Module | Models |
|---|---|
| `ChannelEscrow` | the abstract promise of a payment channel: two parties lock a stake, and it is settled once, whole, between those two |
| `Channels` | the contract: each entry point is one action, `Tick` is the ledger clock |
| `ChannelProtocol` | two negotiators, their revocation stores, their messages, the watchtower and the monitor, over `Channels` |
| `ChannelProofs` | theorems about `Channels` and `ChannelProtocol`, checked by TLAPS |
| `Streams` | the streaming half of the micropayments contract: time streams, usage streams, `batch_settle` |
| `UsageMeters` | its attestation half over `Streams`: meters, batches, claims, challenges |
| `StreamsProofs` | theorems about `Streams` |
| `MetersProofs` | theorems about `UsageMeters`, over those about `Streams` |
| `Settlement` | the batch settler of the backend, its tables, its crashes and its recovery, over `Streams` |
| `SettlementProofs` | theorems about `Settlement`, over those about `Streams` |
| `Marketplace` | the marketplace contract: assets, purchases in escrow, subscriptions, purchase disputes, proposals |
| `Auctions` | its sealed-bid auctions, over `Marketplace`, with which they share a balance |
| `MarketProofs` | theorems about both, and about `CapacityMarket` |
| `AgentRegistry` | the agent registry: reputation, stakes, disputes |
| `AgentRegistryProofs` | theorems about `AgentRegistry` |
| `AuditChain` | the audit log, its Merkle anchors and their contract, the erasure that rewrites entries |
| `AuditProofs` | theorems about `AuditChain`, and that every inclusion proof verifies |
| `CapacityMarket` | the arithmetic of base fees, capacity windows and the order of service, as operators |
| `SumLemmas` | what the proofs use of sums over finite sets, of any functions |
| `MCChannels`, `MCChannelProtocol`, `MCStreams`, `MCUsageMeters`, `MCSettlement`, `MCAuctions`, `MCAgentRegistry`, `MCAuditChain` | values of the constants for TLC |

### Channels

`status`, `channel` and `pending` are the contract's `Channel` and `PendingClose`
records, `pubkey` the registered keys, `nextId` the counter, `escrow` the
contract's own balance of each token and `wallet` everybody else's. A signature is
modelled by the key it verifies under and is compared with the key registered *at
the time of the call*, as the contract does, so a party that registers a new key
makes the states it signed before unusable. A revocation commitment is the secret
that opens it. The dual-signed states are a constant set: the contract has no
influence on what parties sign off chain. An `Err` or a trap of the contract is
an action that is not enabled, since it changes nothing.

Two points of the code the model keeps: `dispute` does not look at the deadline
(only `force_close` does), and `punish` accepts either party's commitment.

### ChannelProtocol

Each party has `current` (`currentState`), `flight` (`_pending`), `store` (the
RevocationStore: each slot is empty, committed or revealed) and `held`, the
states it could submit. `sent` is a set of messages that never shrinks: any of
them may be delivered at any time, many times, or never. A handler that throws
without changing anything is not enabled; `CounterSignThrows` is the one that
throws *after* it has changed the store. `MoveTo` is the end that `ack()` and
`complete()` share.

On chain, a party may close with any state it has held, correct the other's close
with `dispute`, punish with any secret in its store, and finalise. The watchtower
keeps `blobs`, one for each state. `Poll` is the monitor's look-up; the `punish`
call it makes is in `jobs` until it lands or is rejected, so that a dispute or a
close may come in between. `polling` says whether the close event is still at or
after the monitor's cursor.

Left out: the encryption of a package, HTTP, and signatures that do not verify.

### Streams

`terms` are the fields of a `PaymentStream` that are fixed when it is opened, and
`status`, `withdrawn` and `lastSettled` the others. `Withdraw` and `BatchSettle`
share `SettleAll`, as the two entry points share their loop body: each stream with
something claimable is paid, its clock restarted and, past its end or with nothing
left, it is completed. `Due` is the set of units such a step pays. `settlements` is
the nonce registry; a nonce on record changes nothing, so the action asks for one
that is not. `Claimable` is not bounded by `end_time`, and a paused stream has
nothing claimable, which is why `CancelStream` of a paused stream returns to the
sender what had accrued before the pause. `active` is a history variable: the
seconds each stream was Active.

### UsageMeters

`meter` and `batch` are the records of `attestation.rs`. A Merkle root is the set of
its leaves, so having a proof is membership. A leaf is committed to without its
signature: `Signed` are the signatures that sellers have made, a signature stands for the
key it verifies under, and `Passable` is what a buyer may show with a leaf, one that was
made for it or bytes that verify under no key. A batch has one field of history, the
`key` it was recorded under. The module extends `Streams` with all its actions: a stream
may be paused, cancelled or completed while its meter has batches outstanding, and the
money comes out of the same balance. A root may hold any leaves and be recorded with any
number of calls: the contract checks neither.

### Settlement

The variables are what survives a crash and what does not. `calls`, `recorded` and
`start` are columns of the streams table, `record` is the settlement ledger; `run`,
`found` and `quoted` live in the process, and `Crash` forgets them. A database
transaction is one step, and between two of them anything may happen. A run of the
timer is named by the nonce its record will have; the steps `Find`, `Take`, `Begin`,
`Submit`, `Confirm`, `Write`, `Fail` are those of `runSettlement`, and recovery replays
a PENDING record from `Submit` on, under its own nonce. A `batch_settle` transaction is
in `inflight` until it lands or expires, whether or not somebody still polls for it.

`Find` asks nothing of earlier runs: the code's interval starts a settlement while
another is under way. `Submit` asks that every stream of the batch is payable to the
server, since one that is not fails the simulation of the whole batch. A crash between
`Take` and `Begin` leaves the counters reset and no record, so nothing pays for those
calls; `EachCallInOneBatch` says only that no other batch claims them.

Four things the code has a place for do not happen in it, and so not in the model. The
reconciler throws before it heals anything: it logs through a `logger` that it does not
import. A FAILED settlement is never taken up again, because nothing calls
`getRetryableSettlements`; hence `retry_count` never reaches its limit, no record is
dead-lettered and the dead letter queue has nothing to retry. `forceSettleStream` calls
the contract with too few arguments. Left out are the mode without a contract, the
routes that write `streams.withdrawn` themselves, and a failure of the database while a
failure is being recorded.

### Marketplace and Auctions

One module for what the contract does with purchases, one for its auctions; `pool`
is the one balance both pay from. An action is an entry point that succeeds. `escrow`,
`dispute`, `proposal` and `auction` are the contract's records, and `license` the
licence it stores for a buyer and an asset, which a later one replaces. `Purchase` is
`purchase_license_for_version`, which both a buyer and the last approval of a proposal
go through, at the price of that moment. The votes of a resolution are an argument of
the call (`Ballots`): the contract checks that each voter is an arbitrator, and neither
that the list has each only once nor that it is a majority. A commitment is the amount
it opens to, so a bidder reveals that amount or nothing; until the reveals begin it may
be replaced. `Before` is the ranking by which `settle_auction` sorts, and the token of
an auction is that of its first reveal.

`Initialize` is a further call of `initialize`, which the contract does not refuse: the
counts of assets, licences and disputes start again at 0, and all records stay, as do the
counts of proposals and auctions. `Init` is the state after the first. The owner it sets
matters to no modelled operation. What the contract pays out it must have (`PaysOut`),
which its records no longer ensure once it was initialized again. `RenewLicense` pays the
price of the period; `RenewWithProration` any part of it, since what is left of the
current period is taken off.

Four history variables serve the properties: `resets`, how often it was initialized again;
`bought`, who bought what each proposal was for; `sealed`, the commitments when the reveals
began; and `kept`, what subscribers have paid, which enters the balance and which no entry
point pays out.

Left out: the bonded disputes, which keep numbers and move no token; the reservations of
capacity; versions and metadata of assets; the expiry and the cancellation of a
licence, which no modelled operation reads; upgrades and the migration of old records.

### AgentRegistry

`agent`, `stake` and `dispute` are the contract's records, and `scoredAt` the moment
from which a score decays. `Decayed` is what a read reports; `Settled` is
`settle_stored_reputation`, which every operation that touches a score goes through.
Votes weigh the stake and the best score of the moment, while the quorum and the share
to slash are those in force when the dispute is resolved. What was slashed stays with
the contract, and no entry point pays it out, so it is part of what backs the balance. Fields
that nothing in the contract reads are left out.

### AuditChain

`log` is the audit table, `anchors` the table of Merkle anchors, `chain` what the
anchor contract has. A step is what a process does between two awaits that others can
tell apart. A hash is the sequence of what was hashed, since none collide, and a Merkle
tree is built, and a proof made and checked, layer by layer as the code does it.

`ReadTail` takes the advisory lock when the append is a transaction of its own, and
none when it is part of an erasure's; the unique sequence number then decides, and the
loser takes its whole transaction with it (`Inserted`). `Look` to `Confirm` is one
anchoring, which the scheduled loop and the admin route may both be in. A transaction
is `flying` until it is applied or dropped, also after the one who sent it has recorded
a failure or crashed, so the chain may hold roots of which no row says so.

The module fixes what erasure leaves of the chain: links and anchors stay, and the
rewritten rows no longer hash to what they are recorded with, which is what `verify()`
reports. `anchor_root` compares only counts, so the ranges of two anchors may overlap.
Left out: the mode without a contract, in which anchors are only "submitted", and the
export service.

### CapacityMarket

`NextBaseFee` is the backend's estimate and `NextContractFee` what the contract stores;
`Advanced` and `Consumed` are the two operations of a capacity window, on a record of
its fields; `Precedes` is the comparison the queue sorts by and `Drained` what it hands
out. Tips and fees are integers, as they are in the code (`BigInt`, `i128`), and the
figures are those of the default configuration. There is no state beyond one record,
and nothing else runs between its steps, so there is no run for TLC: the theorems say
what the arithmetic does for every input.

## Runs

| Run | Shows | Instance |
|---|---|---|
| `channels` | `TypeOK`, `EscrowBacked`, `PendingCoversDeposits`, `PendingOnlyRises`, `PaidOnlyToParties`, `CloseResolves`, `ImplementsEscrow` | three parties, two channels on one token, deposits up to 1, versions 0 and 1, two keys that anybody registers at any time, states of the first channel signed with the one and of the second with the other, states that conserve the deposits and states that do not, window 1, clock to 1 |
| `channel_protocol` | `ProtocolTypeOK`, `OneStatePerVersion`, `LatestIsSafe`, `PunishedVersionIsPast`, `LaggardCatchesUp` | one channel with deposits 2 and 1, two possible splits, versions 1 and 2, window 1 |
| `punish_both_past` (violation) | `PunishedVersionIsPastForBoth` | as above |
| `streams` | `StreamsTypeOK`, `PoolBacked`, `PausedTimeIsFree`, `StreamEnds` | two time streams of 2 units with durations 1 and 2, one usage stream, one nonce, clock to 3 |
| `usage_meters` | `MetersTypeOK`, `PoolBackedWithMeters`, `ChargesAreStandingCalls`, `StandingIsFinal`, `BatchIsPaidOut` | one stream, an allowance of two calls, two batches of up to two calls, roots with fabricated and replayed calls, two keys, window 1, clock to 2 |
| `attested_voided` (violation) | `AttestedCallsStand` | as above |
| `settlement` | `SettlementTypeOK`, `EachCallInOneBatch`, `ConfirmedIsPaid`, `WrittenOnce`, `PendingIsResolved` | one stream of 2 units, two calls, two settlements that may overlap, one crash, clock to 2 |
| `recorded_ahead` (violation) | `RecordedIsEarned` | one stream of 4 units over 3 seconds, two settlements, no crash |
| `marketplace` | `DisputesFreezeEscrows`, `ApprovedBuysOnce` | a seller and a buyer, one asset sold and subscribed to at 2, two licences, two disputes, one proposal, initialized again once, no auction |
| `auctions` | `AuctionsTypeOK`, `MarketPoolBacked`, `ClearingIsFair`, `AuctionSettles` | the same two users, asset and licences, one auction with one place and bids of 1 and 2, no proposal, initialized once |
| `agent_registry` | `RegistryTypeOK`, `StakesBacked`, `DisputedStakeStays`, `ScoresOnlyFall`, `DisputeResolves` | two users who stake 2, one agent, two disputes, two configurations, clock to 3 |
| `audit_chain` | `AuditTypeOK`, `ChainVerifies`, `AnchorsProve` | one writer, an erasure, two anchorings at once, three entries, two anchors, one crash |

Two channels on one token are what it takes for one channel to spend the other's
money, and a third party for somebody to be an onlooker. Two versions are what a
dispute needs. Two keys let a party re-key before, during and after a close, and back
again, so that states stop verifying and start to again; the states of the two channels
are signed with different keys, so each re-keying ends the use of some and begins that of
others. A clock that goes to 1 lets a close, a dispute and its deadline follow each other
on each channel; the same properties hold with one key and a clock to 2. In the protocol the first round revokes nothing and the second
revokes the first, which is where a party can be left behind; the same invariants
also hold with three versions, where the run takes a few minutes longer. Two splits
make two different states of one version possible.

Two streams are what a batch needs to settle several, and what it takes to spend
another's deposit; three seconds allow a pause between two settlements and a
withdrawal past the end. For the meter, two calls in a batch make an overlap of two
challenges possible, and a second batch a replay from an earlier one; a refund is
needed to pay for the second, so the columns are moved back and forth.

For the settler, two nonces are what two overlapping runs, or a run and its successor,
need, and one crash puts recovery at every point of them; the invariants also hold with
two streams of one call each (some 750,000 states). The marketplace is checked
twice, since proposals and auctions together are out of reach: what they share is the
balance, which the proofs cover for both at once. Everybody may
bid, the seller too, so two users give an auction a winner and a loser; two licences make an escrow of a
purchase stand beside one of a proposal, and the policies need one signer or both. The
clock stops giving new things a beginning at 0 and runs on until what was begun is
over. In the registry the second dispute is the one that races the first, and three
ledgers pass a whole period of decay and a part of the next. In the audit log three
entries are what an odd layer of a tree needs and what lets two anchors overlap; the
two anchorings are symmetric.

Deadlock checking is off in all runs: a closed channel, or a clock at its bound,
is the end.

### What the violations show

*punish_both_past.* The proposer reveals its secret for version 1 in `ack()`. If
that message is lost, the counterparty's current state is still version 1, which
it has not revoked. When it closes with that state, the proposer may call `punish`
with the secret *it* revealed itself, and is paid the whole channel. The contract
describes the punished close as one "both parties already moved past" and the
negotiator describes the old state as "fully closable" for the party that has not
revealed. `PunishedVersionIsPast` says what does hold: the punisher itself has
moved past the version.

*attested_voided.* `leaf_hash` covers all of a leaf but its signature, so a batch's root
does not fix what a signature must be, and `challenge_usage_batch` asks whether the bytes
that the buyer passes in verify. A buyer that shows a properly signed call with other
bytes voids it and what follows. Nor does a batch keep the key it was recorded under: a
challenge looks the seller's key up when it is made, so that after a re-keying not even
the signature that the seller made verifies. The code says that such a challenge "panics rather than voiding
anything", of a leaf that the seller signed that "the batch stands", and of a re-keying
that it "invalidates only their own future batches".
`StandingIsFinal` says what does hold: voids start at a committed call, only grow, come in
the window and before the claim, and leave all else of a batch as it was recorded.
`ChargesAreStandingCalls` says that the money follows them.

*recorded_ahead.* A settlement computes what it expects to be paid from the whole time
since the stream was opened, bounded only by what the row still has of the deposit.
After a first settlement of two seconds, a second one a second later expects three more.
The chain pays one, and the database records five in all, or as much of it as the
deposit allows, where the code's own comment says that it updates the "off-chain
withdrawn amounts to match on-chain". `SettlementTypeOK` says what does hold: the row
never exceeds the deposit, because `recordWithdrawal` refuses.

## Divergences without a run

Found while modelling, and not among the findings because what holds instead is
checked, or because no module reaches them:

- `initialize` of the marketplace checks only the signature of the address it is given,
  which becomes the owner, and may be called again by anybody. It starts the numbers of
  assets, licences and disputes again and leaves the records where they are. List an
  asset, buy it, initialize, buy it again: the second purchase gets number 1 and
  overwrites the escrow of the first, whose money stays in the contract with no record of
  whose it is, where `purchase_license` says that "Funds are held in escrow". The
  deployment counts on a refusal: `init.sh`, says the contracts' README, "detects
  \"already initialized\" errors". After it an old dispute that is still open may settle a
  new escrow, since `resolve_purchase_dispute` does not look at the escrow's status. The
  model has `Initialize` for this. `MarketPoolBacked`, `DisputesFreezeEscrows` and their
  theorems say what holds as long as the contract has been initialized only once
  (`resets = 0`; without that premise TLC finds the sequences above), `AuctionSettles` that
  an auction settles unless it was initialized again. `ApprovedBuysOnce` holds in any case:
  proposals keep their count.
- The watchtower has one package for each state hash. When both parties have moved on from
  a state, both are handed it and both may register it: `b` registers, then `a`, whose
  package replaces that of `b` and names `a`. If `a` then closes with the state while `b`
  is offline, the monitor's `punish` is refused, where the contract's header says that
  this path lets a watchtower "act for an offline party". `RegisterWatchtower` replaces
  packages as the code does.
- `ErasureService` says that the verifier still passes after an erasure; `verify()`
  computes the hash of the content again and fails on a rewritten row. `ChainVerifies`
  states what holds.
- An erasure rewrites the rows it has read. A row about the subject that is committed
  before the erasure's own entry stays.
- The comment on `anchor_root` speaks of distinct ranges; only the counts are compared.
- The comment on `commit_bid` says a bidder commits at most once; a second commitment
  replaces the first. `ClearingIsFair` shows it does no harm once reveals begin.
- The comment on `resolve_purchase_dispute` speaks of a majority of the committee; any
  list of votes of arbitrators will do, one of them repeated if need be.
- Whoever calls `settle_reputation` restarts the period of decay, so that a score that
  is settled often enough never decays.
- `ingestEvent` queues an event also when it has found it to be a duplicate, and
  the cursor is written with each event of a ledger, so a crash in the middle of one
  drops the rest.
- Outside its simulated mode the auction engine does not move its own view of an auction
  on after `begin_reveal`, and so never calls `settle_auction`.

## Fairness

`Channels!FairSpec` assumes that ledgers keep closing and that `force_close`, once
it stays possible, is called by somebody; the contract opens it to anyone for
this reason. Nothing is assumed of parties, disputes or punishments.

`ProtocolFairSpec` assumes weak fairness of message delivery at each party: as
long as some message that was sent would be accepted by its receiver, one is
delivered. The code leaves the transport to the caller ("over whatever transport
they share"), so this is an assumption about that transport, that it retries, and
only `LaggardCatchesUp` depends on it. The safety properties hold for a transport
that loses anything.

`StreamsFairSpec` and `MetersFairSpec` assume that ledgers keep closing, that a
recipient withdraws while something is claimable, and that a seller claims once it
may. Both act in their own interest and no other party can prevent them; the
senders and buyers are free to do nothing.

`SettlementFairSpec` assumes that the backend is started again after a crash and that
each call it awaits returns or throws, so that a run goes on. Nothing is assumed of the
network: `Fail` is among the steps a run may take, and the run says nothing about a
transaction that is still in flight.

`AuctionsFairSpec` and `AgentRegistry!FairSpec` assume that ledgers keep closing and
that somebody calls what anybody may call once it stays possible: `begin_reveal`,
`settle_auction` and `resolve_dispute` ask for no authorisation. `AuditChain` states
no liveness: a row whose sender crashed stays pending for ever, and the code has
nothing that takes it up.

## Proofs

Of `Channels`, `ChannelProofs` proves, for every number of parties, tokens, channels, keys,
signed states and bounds, from `ChannelAssumptions` alone:

- `ChannelsTypeCorrect`: `Spec => []TypeOK`
- `PendingAlwaysCovers`: `Spec => []PendingCoversDeposits`
- `PoolAlwaysBacked`: `Spec => []EscrowBacked`
- `PendingAlwaysRises`: `Spec => PendingOnlyRises`
- `OnlyPartiesArePaid`: `Spec => PaidOnlyToParties`
- `ContractImplementsEscrow`: `Spec => ImplementsEscrow`

That the pool never goes negative is not a consequence of any single guard: the
contract pays without looking at its balance. The inductive invariant therefore
joins the types of the records, the fact that a pending close splits exactly the
deposits of its channel, and `EscrowBacked`, which says that the pool is the number
of units owed to live channels. Counting units, rather than summing over the
channels, lets a step be a matter of disjoint sets: opening a channel adds as many
units as it takes in, finishing one removes as many as it pays. The proof of the
refinement maps `Fund` to opening, `Settle` to each of the four ways to close and
every other call to a stutter.

`StreamsProofs` proves, from `StreamAssumptions` alone:

- `PausedTimeAlwaysFree`: `StreamsSpec => []PausedTimeIsFree`
- `PoolAlwaysBacksStreams`: `StreamsSpec => []PoolBacked`
- `StreamsTypeCorrect`: `StreamsSpec => []StreamsTypeOK`

`PausedTimeIsFree` says nothing of money that has been earned and not yet paid, so it
is not inductive. `AccrualInv` adds that an Active stream has paid and accrued
together at most its rate times its Active seconds; a second adds one rate to both
sides, settling moves what has accrued to what is paid, and resuming starts again
from nothing accrued. It also says that a stream has not paid more than its deposit.
`PoolInv` builds on it: `Books` are the records, and `Surplus` is what the contract has
of a token beyond what its streams hold. That every operation of a stream leaves the
surplus as it is (`SurplusKept`) counts units as above, a batch releasing exactly the set
`Due`, which lies within what its streams hold because a claimable amount is never more
than what remains. `PoolBacked` is that the surplus is 0, for streams alone; with meters
it is what the meters hold, and the same lemmas serve.

`MetersProofs` proves, for every number of streams, batches, leaves and keys, any prices
and allowances, and streams of both kinds that go on beside the meters, from
`StreamAssumptions` and `MeterAssumptions` (the types of the constants, and that "no key",
"no meter" and "no batch" are none):

- `PoolAlwaysBacksMeters`: `MetersSpec => []PoolBackedWithMeters`
- `ChargesAlwaysStandingCalls`: `MetersSpec => []ChargesAreStandingCalls`
- `MetersTypeCorrect`: `MetersSpec => []MetersTypeOK`
- `StandingAlwaysFinal`: `MetersSpec => StandingIsFinal`
- `MeteredPauseIsFree`: `MetersSpec => []PausedTimeIsFree`; billing by the call does not touch
  what a stream pays by the second.

`MetersInv` says of each meter that its columns together never exceed what was funded and
that each is a price times a number of calls; of each batch that it begins where the one
before ends, that it was charged for its calls and refunded for those that are void; and
that the surplus of each token is what the meters hold. A charge, a claim and a refund
move calls between columns, `Standing` being the set of those that stand, so that a
challenge that overlaps an earlier one takes from it only the calls that were still
there (`VoidKeepsMeters`). That a meter has a batch charged for exactly as many calls as
stand is what makes a claim after a challenge payable out of its column.

Of `ChannelProtocol`, `ChannelProofs` proves, for every number of versions, every set of splits and any
loss, repetition and reordering of messages, from `ChannelAssumptions` and `ProtocolAssumptions` (it has
two parties and a deposit above 0, and "no state" is no state):

- `ProtocolTypeCorrect`: `ProtocolSpec => []ProtocolTypeOK`
- `OneStateAlways`: `ProtocolSpec => []OneStatePerVersion`
- `LatestAlwaysSafe`: `ProtocolSpec => []LatestIsSafe`
- `NobodyPunishesTheLatest`: each punishment, by a party or by a late call of the monitor,
  hits a close at a version that its beneficiary has moved past.
- `PunishingAlwaysLate`: `ProtocolSpec => PunishedVersionIsPast`, where every proposed split
  leaves both sides something. The property knows a punishment by what it pays, and a
  state that gives one side everything pays as much; `NobodyPunishesTheLatest` needs no
  such hypothesis.
- `NegotiatedChannelIsBacked`: where the states negotiated are among those that `Channels`
  may be shown, every step is a step of `Channels` or none, and `EscrowBacked` and
  `PendingCoversDeposits` hold of the channel in use.

Neither of the two invariants is inductive. `ProtocolInv` rests on three facts. A party
signs one state of a version at most, because its own slot of the version fills as it
signs, and slots never empty. A state that anybody holds was signed by both, which is why
no proposal that is replaced half-way leaves a fork. And a secret is on record as revealed
only when both its owner and whoever holds the record have moved past its version; for a
message in flight this says that what it reveals is older than what it is about, and that
of a completion the receiver has already moved. The packages of the watchtower and the
calls under way name a party that has left the state. Since versions and the set of
messages only grow, what is said of a message or a package stays true (`MessageStays`,
`PackagesStay`), and a step is a matter of what it adds.

`SettlementProofs` proves, for every number of streams, runs, calls and crashes, from
`StreamAssumptions` and `SettlementAssumptions` (the nonces are finitely many):

- `SettlementImplementsStreams`: the backend reaches the contract only by operations of
  `Streams`, so that the theorems above hold of the two together.
- `SettlementTypeCorrect`, `EachCallAlwaysInOneBatch`, `ConfirmedAlwaysPaid`,
  `AlwaysWrittenOnce`: the four invariants of the run.

`RunOK` ties together the four places that know of a settlement: how far its run has come,
its record, the nonce on chain, and what was written to the streams. `AmountsOK` adds what
was quoted, `TakenOK` and `CountOK` where each metered call is.

`AgentRegistryProofs` proves, for every number of users, agents and disputes and every
configuration whose shares are at most the whole, from `RegistryAssumptions`:

- `RegistryTypeCorrect`, `StakesAlwaysBacked`: the invariants of the run.
- `DisputedStakeAlwaysStays`: `Spec => DisputedStakeStays`
- `ScoresAlwaysFall`: `Spec => ScoresOnlyFall`

Decay is a recursive function of the number of periods, rounded down in each; that there
is such a function, and that it never rises with the periods, is proved by induction, and
it is why settling a score, or waiting, never raises it. `RegistryInv` adds to the properties that a respondent has one open dispute at
most and that what was slashed is the sum of what its verdicts took.

`AuditProofs` proves, for every number of processes that append, anchor, erase and crash,
of entries and of anchors, from `AuditAssumptions` (no subject is taken for one of the
log's own kinds of entry):

- `ChainAlwaysVerifies`: `Spec => []ChainVerifies`
- `AuditTypeCorrect`: `Spec => []AuditTypeOK`
- `AnchorsAlwaysProve`: `Spec => []AnchorsProve`
- `RecordAlwaysStays`: `Spec => RecordStays`, an action property that no run checks: a committed
  entry keeps its hash, a row of an anchor its outcome, the chain what is on it.

`LogInv` says that the rows have the numbers from 1 to the last, each once, that a row
carries the hash of the one before, and of each process what it may still write: an
erasure that has read the tail rewrites nothing after it, and nothing that is about an
erasure, so the entry that accounts for a rewritten row is never rewritten itself. An
insert after a stale tail is refused by its number, which is why the argument does not
need the lock. `AnchorInv` says that an anchor starts where the confirmed ones reach, has
the root of its range, and names once confirmed the place on chain that has its row; no
two processes speak for one row (`Speaks`). The two meet in `LogKept`: whatever is
appended or rewritten, what has a hash keeps it, so a root stays that of its range after
an erasure. `RecordStays` is that, and that an outcome is written by the one process that
speaks for a pending row.

That what `MerkleProof` makes is accepted by `VerifyMerkleProof`, for any leaf of a tree
of any size, is `MerkleProofVerifies`. Both are folds, over as many rounds as there are
layers. The fold is related to a function of the round, which exists by induction
(`ClimbsExists`, `FoldsClimb`); the height of the tree is enough for its layers to shrink to
one node (`LayersShrink`, `HeightIs`); and in each round hashing a node with its sibling, on
the side that its number says and with itself where there is none, makes the node above
it (`SiblingsMake`). Each induction is by a least counterexample.

`MarketProofs` proves of `Auctions`, which contains `Marketplace`, from its assumptions and
those of `Marketplace` (the users are finitely many):

- `MarketTypeCorrect`, `EscrowsAlwaysFrozen`, `ApprovedAlwaysBuysOnce`,
  `MarketAlwaysBacked`, `ClearingAlwaysFair`: the invariants of the two runs. Those of the
  escrows and of the balance say, as the invariants do, what holds while the contract has
  been initialized once (`resets = 0`); the other three hold however often it is.

`RecordsInv` joins six invariants of a few variables each, so that a step has to be looked
at only where it changes one of them. `AuctionsInv` is about bids: `Before` is a strict
total order of the reveals, so that there is one reveal of each rank, and the first of
them take the places. The money in `MoneyInv` is a sum over escrows, plus a sum over the
bids of the open auctions, plus what subscribers have paid; settling an auction pays out
what was taken in because the winners' payments, their refunds and the refunds of the
losers add up to the bids.

`SumLemmas` has what these proofs need of sums: `SumFunctionOnSet` is a fold, so by
definition it is whatever a recursion yields. That there is such a function, what it
yields, and that two functions which differ at one point have sums that differ by that
difference (`SumAtPoint`) is proved by induction. The library's induction theorems have an
operator for the claim, which the provers cannot instantiate; `LeastNat` and `LeastSet`
take its place: a set of counterexamples that is not empty has a least one.

Of `CapacityMarket`, `MarketProofs` proves, of every fee between the floor and the ceiling, every
utilisation, every window and every two calls:

- `BaseFeeStepIsBounded`: the next fee is between the floor and the ceiling, and at most an
  eighth away. The floor of 100 is what makes the cap on a change at least 1.
- `ContractFeeAgrees`: the estimate is what the contract computes, up to the ceiling.
- `FeeRisesEasierThanItFalls`: above the target a fee always rises; a little below it, it
  stays. The controller's header says that the fee "converges under bursty load"; use
  that keeps close to the target on both sides only raises it.
- `CapacityIsNeverExceeded`: what a window admits and carries stays within its capacity.
- `AgedCallPrecedes`: a call that has waited five windows goes before any newcomer whose tip
  is not larger by the boost. It is no promise among calls that have all waited so long,
  beyond the bonus for each window.

Every safety invariant and every action property of a passing run has its theorem. Only
model-checked are the liveness properties `CloseResolves`, `LaggardCatchesUp`, `StreamEnds`,
`BatchIsPaidOut`, `PendingIsResolved`, `AuctionSettles` and `DisputeResolves`, which rest on
fairness and so on `ENABLED`, beyond the prover; and the disagreements with the documentation,
which are runs that end in a violation.

## Plan

Of what the modules model, the safety properties are proved and liveness is checked. What
would extend the project: the bonded disputes and reservations of the marketplace, the
event pipeline once its empty files are written, and the quotes and negotiations of the
backend.

## Not modelled

The event pipeline (its poller, finality gate, reorganisation and replay are empty
files, and what drives the rest is left open); the price oracle, the surge
detector and the fee history (sums and medians of samples, with no state to protect); quotes and stream negotiation (entries in
the memory of one process that expire by a timer); the approval workflow and dispute
game of the backend (they mirror what the contracts decide); fraud scoring, the simulator,
routes, repositories as such, middleware, the command line and the front end: they hold
no protocol state, or none beyond what the modules above model. The signature checker
contract verifies one signature and keeps nothing.
