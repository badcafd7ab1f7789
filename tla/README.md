# DeFacts in TLA+

A verification development for the DeFacts marketplace: TLA+ modules that model
the escrow contract, the purchase protocol around it, the transactions on both chains
and the peers' identities, TLC configurations that check them on small instances, and
TLAPS proofs of their main properties for every instance. Source references are to the files of the repository.

## 1. Inventory

A buyer asks for an inference, suppliers bid, the buyer accepts one bid and gets a
*receipt* (inputs, outputs, a determinism hash) with *attestations* signed by a
verifier; it then pays through an escrow contract that releases the money against
those attestations. Tier 1 pays for a verified receipt, Tier 2 for one whose
attestation also names the buyer's key.

| component | state it keeps | operations |
|---|---|---|
| Escrow contract (`src/Escrow.sol`) | `trades`, its ether, the reentrancy guard | `openTrade`, `settleTier1`, `settleTier2`, `isSettled` |
| Verifier registry (`src/VerifierRegistry.sol`) | `_verifiers` by proof format | `register` (owner), `getVerifier` |
| User runtime (`agents/user/src/runtime.mjs`) | one `queryMarket` call in progress, `_bufferedEnvelopes` | `queryMarket`, `_waitForDeliver`, the bid window's handler |
| Chain client (`agents/user/src/chain.mjs`) | none but the wallet's pending transactions | `openTrade`, `settleTier1/2`, the dispatch variants, `_waitForReceipt` |
| Cache supplier (`agents/cache/src`) | receipt cache, `inflight` | `_handleQuery`, `_handleAccept` |
| Fresh supplier (`agents/fresh/src`) | `inflight`, with the receipt it generated | `_handleQuery` (calls the prover), `_handleAccept` |
| AXL client (`packages/axl-client/src/client.mjs`) | none; the AXL node has the receive queue | `send`, `recv`, `recvLoop`, `a2a` |
| Peer registry (`peer-registry.mjs`, `peerid.mjs`) | `byAgentId`, `byRoutingId` | `refresh`, `registerFromBid`, `resolveAgentId` |
| Verifier stub (`services/verifier-stub`) | its key | `/attest` |
| Prover stub, PD19 adapter (`services/prover-stub`, `services/pd19-adapter`) | fixtures; a subprocess per request | `/prove`, `/verify` |
| Receipt verifier (`script/defacts-verify.mjs`) | none | checks a saved receipt |
| ENS updater (`services/ens-updater/src/index.mjs`) | text records on Sepolia, one wallet | `recordTrade`, `setText`, `setSubnameText`, `createSubname` |
| ENS command line (`services/ens-updater/src/cli.mjs`) | none | `set`, `create`, `setup`, `read`, `dump`, by hand |
| Threshold stub (`services/threshold-stub`) | none | `/wrap` |

How they interact. The runtimes exchange `defacts.query`, `bid`, `accept` and
`deliver` envelopes through AXL nodes: `/send` is fire and forget, `/recv` takes
the oldest message off the node's queue, and every process attached to a node polls
the same queue. A supplier calls the verifier (and the fresh one the prover) over
HTTP between messages. The buyer calls the contract through an RPC node; the
contract calls the registry and, to pay, the seller, which may be a contract and
may call back. When all is settled, the buyer writes a receipt file and starts an
ENS update it does not wait for.

What is hard:

- *Callbacks.* `t.seller.call{value: ...}` gives control to foreign code in the
  middle of a settle, after the flag is set.
- *Rotation.* The registry is read when a trade settles, so the verifier that
  counts is not the one of the time of opening or of signing.
- *Money that must add up.* Many trades, two independent tiers each, in any order,
  by any caller, with ether that may also arrive by force.
- *Two loops on one queue.* The bid window's `recvLoop` and `_waitForDeliver` poll
  the same queue. `stop()` does not interrupt a tick whose `/recv` is under way.
- *Retries.* A call that timed out may be repeated while its messages are still
  travelling; queue, buffer and peer registry are shared by the calls.
- *Failures that had an effect.* A `/send` that failed may have been delivered, a
  failed `/recv` has lost its message, a transaction whose wait failed may be mined.
- *One wallet, many transactions.* A nonce is counted, signed and broadcast in separate
  steps; a broadcast may be repeated; a block may come after the caller gave up.
- *Background updates.* `recordTrade` is not awaited, so updates overlap, and each stops
  wherever a request fails.
- *Identities.* `/recv` reports a sender by a cut and padded form of its key; the buyer
  files what it sees, for ever, and answers to what it finds there.
- *Shared nodes and restarts.* Several agents may poll one queue; a supplier's
  `inflight` map is lost when it restarts, and never expires when it does not.

What makes each component correct is stated in section 4; everything hard to test is
listed with its line under `hazards` in `PROJECT.json`.

## 2. Modules

| module | what it is |
|---|---|
| `Escrow` | The contract and the registry. One action per transaction, but for the seller's call: `SettleTier1/2` pushes a frame with the state to roll back to on `stack`, any action of a contract may follow, and `SettleReturns` or `SettleReverts` pops it. |
| `EscrowLedger` | The abstract specification: what an observer sees between transactions. |
| `EscrowProofs` | Proofs about `Escrow`. |
| `MCEscrow`, `MCEscrowTier2` | Instances for TLC. |
| `Marketplace` | `queryMarket`, the two suppliers' handlers and the AXL nodes between them. |
| `BidChoice` | The pure choice among bids: consensus hash, budget, price. |
| `PeerIds` | Keys, routing ids, their matching and stripping (`peerid.mjs`). |
| `PeerRegistry` | The buyer's address book (`peer-registry.mjs`); extends `PeerIds`. |
| `BidWindow` | The bid windows of successive calls; composes `BidChoice` and `PeerRegistry`. |
| `Receipts` | What one receipt goes through: prover, verifier, trade, settle, saved file, `defacts-verify`. |
| `Wallet` | One account's transactions at an RPC node: the environment of the next two. |
| `ChainClient` | `chain.mjs` as `queryMarket` drives it; extends `Wallet`. |
| `PurchaseLog` | The abstract specification of `ChainClient`: effects on the chain and what the caller knows of them. |
| `EnsUpdater` | `recordTrade` and what it calls; extends `Wallet`. |
| `Settlements` | The end of `queryMarket` over both chains; composes `PurchaseLog` (Galileo) and `EnsUpdater` (Sepolia). |
| `MarketplaceProofs`, `BidWindowProofs`, `ReceiptsProofs`, `ChainClientProofs`, `SettlementsProofs` | Proofs about the module of that name. |
| `BidChoiceProofs` | Lemmas about the choice, which the proofs of `Marketplace` and `BidWindow` share. |
| `MCMarketplace`, `MCBidWindow`, `MCReceipts`, `MCChainClient`, `MCSettlements` | Instances for TLC. |

**Slips.** Some definitions are preceded by an operator named after a mistake
(`FlagIgnored` before `Unsettled`). It is not part of the specification: it is what
the definition would be if the code had that bug, and replacing the one by the
other makes TLC report the property it is paired with under `mutants` in
`PROJECT.json`. So every checked property is known to be able to fail.

### Escrow

`trades`, `verifiers` and `entered` are the contracts' storage. `balance` is the
ether of every account, `donated` the part of the escrow's that did not come through
`openTrade`; `signed` is what verifiers have published. An amount is a number up to
`MaxUint`, and `ExactValue` is checked addition. A receipt is one value for the four
hashes of a trade, a digest is the tuple that EIP-712 hashes, and recovery gives the
signer exactly on the digest that was signed, an address that is nobody's on another
one. That stands for collision resistance and unforgeability, and is the one
cryptographic assumption made. A call that reverts at a check changes nothing and is no step;
a revert after the payment is `SettleReverts`, which restores the saved state.
Inside a seller's call the actions that remain enabled are those a contract
can make (`Callers`), so it may open trades, force ether in, try to settle (and be
stopped by the guard alone) or, if it owns the registry, rotate a verifier.

### Marketplace

`pc` is the place `queryMarket` has reached; the variables `query`, `prompt`, `tier2`,
`unsent`, `bids`, `winner`, `got` are its locals, `buffer` and `peers` the runtime's
fields, which outlive a call. A call's number stands for its random `query_id` and
`tradeId`. `tick[q]` is the recvLoop of the bid window of call `q`: off, waiting for
the answer of a `/recv`, or holding the message it is about to handle. A tick of a
closed window still handles what it fetched, as in `client.mjs:104-121`, and nobody
waits for it. `queue` has the receive queue of each AXL node. `inflight` is each
supplier's map: the cache agent keeps the query and looks its receipt up again when the
accept comes, the fresh agent keeps the receipt its prover made for that query
(`Note`, `ReceiptOf`). `Offers` says which receipts an agent may come by for a prompt: at
most one from a cache, any of several, a different one each time, from a prover.
`bidding` is a bid already sent whose query is not yet in the map, `serving` an accept
being handled: `HandleAccept` picks the receipt, `Attest` is one answer of the verifier and
`Deliver` the send at the end, and in between everybody else may act. `chain` is what became of each
call's trade. It keeps of the contract that a settle succeeds once the trade is
open and only if the tier was attested; the contract itself is module `Escrow`.

A call throws before it has asked anybody if the topology cannot be read or lists nobody
(`StartQuery`). After the last settle the call writes its receipt file (`WriteReceipt`), which may fail:
then `queryMarket` throws although everything is paid. `SkipQuery` is a query envelope
that a supplier does not bid on: not in the cache, or a request for it failed.

A request that goes wrong has one of three outcomes: no effect and an error, an effect
and an error, no effect and no error. Each, like a restart or a failing verifier or
prover, costs one of `MaxFaults`.

Abstractions: the two suppliers' handlers differ in where the receipt comes from (the
cache at accept time, the prover at query time) and are one set of actions, in which
`Caches` tells them apart; the receipt is its `det_hash`; the arguments of a call are one
of `Wants`; that a sender is found in the topology is assumed here and
looked at in `BidWindow`; a transaction is one step here and many in `ChainClient`; only
the gossip transport is modelled, not `deliveryTransport: 'a2a'`, which no agent of the
repository answers; the ENS update is in `Settlements`.

### BidWindow, PeerRegistry, PeerIds

An id is a sequence of `Width` digits of which `F` is the padding. `Common` is where two
ids part; `peerIdMatches` wants `MinPrefix` digits in common and after them padding, or
one digit and padding. `RoutingIds` are the forms AXL gives a key, by the comment at the
head of `peerid.mjs`. `byRoutingId` and `byAgentId` are the registry's maps. The order in
which a `Map` lists its entries is left open: where the code takes the first match, the
model takes any, so what is shown does not rest on insertion order. `Open` is the
beginning of a call (refresh, then an empty window), `Arrive` the handler of one bid.
Each earlier window may have one more tick out (`late`): it files a bid of its own call at
any moment of a later window and collects it where nobody looks (`ArriveLate`).
`from`, `seen`, `strangers` and `strays` are history. Assumed (`KeysDiffer`): the nodes of a network
differ within the minimum prefix, as the comment of `peerid.mjs` has it. Not assumed: that
an agent stays on its node, that its node is in the topology when it bids, or that it
always appears under the same id. Of AXL it is assumed that it delivers to the nodes whose
key begins like the address (`Reaches`).

### Wallet, ChainClient, PurchaseLog

`pool` and `mined` are the account's transactions at the node, in order of nonce; nothing
in `Wallet` is code of the repository. `Counts` leaves open whether the node counts pending
transactions. A request fails at most `MaxFaults` times: its broadcast may have arrived
or not, and the transport may repeat the same bytes or give up. A failure at the
estimate of gas needs no fault, since a call that would revert fails there. A nonce that is
taken is refused (*already known*, *nonce too low*). Replacing a transaction by paying
more is left out, since neither client sets a fee, and so is a second process on the same
account. `Sign`, `Broadcast`, `ReceiptFound` and `PollTimesOut` are the steps of a
`writeContract` and of `_waitForReceipt`; `Ready` is the order `queryMarket` gives its
calls. A transaction may be mined or dropped at any moment, also after the caller gave
up. Purchases come one after the other. A node that has served a receipt is assumed to
count that transaction from then on.

`PurchaseLog` is what remains for a reader who sees the chain and the caller: a move
happens after those before it are confirmed, is confirmed after it happened, or the
caller gives up, after which at most the move under way may still happen.

### EnsUpdater, Settlements

An update is the sequence `Writes` of its records, the parent's and then those of the
winner's subname if it has one. Each write of a subname looks at the owner first
(`ReadOwner`) and may create the name (`CreateUnlessOwned`, which looks again: the comment
at `index.mjs:174-176` says that the transaction is sent anyway, the code skips it). A
record's value is the number of the update it comes from, and `Shows` is what `getText`
would answer. The owner of a subname and its resolver are one: the wallet owns a name with
the public resolver or nobody owns it. A timeout of the only wait (60 s) ends the update,
and its transaction may be mined later (`PollTimesOut`, `MineWrite`).

viem's `waitForTransactionReceipt` answers with the receipt of whatever was mined at the
transaction's nonce, should another have replaced it there, and `setText` and
`createSubname` look at its status only. So `ReceiptFound` and `ReceiptReverted` go by the
nonce (`Answered`). Two updates have the same nonce only if they overlap and the node
forgets what one of them had sent: then the write of the one counts as that of the other,
`ok` is reported for a record that was never written, and a record may land without the
one before it. TLC finds both (a trace of 20 and one of 29 states) when `Undisturbed` is
left out of the properties; with it, they hold of every history in which the one or the
other does not happen. `ChainClient` needs no such case: its calls come one after the
other, so nothing takes a nonce while a call waits for it.

In `Settlements` the trades of Galileo are `PurchaseLog`, which `ChainClient` is shown to
implement: `Return` begins the update and returns in one step, as the code does not
wait. `ReceiptNotSaved` is the receipt file that cannot be written, after Tier 2 only.
Updates overlap: nothing holds the second back while the first waits for a block. That
overlapping updates may collide on a nonce, and that the names may then show an
earlier trade after a later one, is what the code does; the properties say what holds all
the same. `mishaps` is history and marks where they say less: `overlapped`, that an update
began while another ran, and `forgotten`, that the node dropped one of their transactions
(`EvictWrite`).

### Receipts

One purchase, looked at for its data. `query` holds the three arguments that decide the
receipt: the input, the length and the proof format. `CacheBids` takes the stored
20-token receipt, `FreshBids` calls the prover of the format (`StubProve`,
`Pd19Prove`); `Deliver` is the accept handler, which has the verifier ask the prover
again (`VerifyAnswers`) and sign (`Attest`). `OpenTrade`, `Settle` and `Save` are the
buyer's, `Rotate` the registry owner's, `Check` one run of `defacts-verify` with some
key and some escrow address. A hash is the value it hashes, `Continue` stands for the
model's greedy continuation of an input, and `Cap` for the 20 tokens both provers use
as a limit or a default. Tokens are few; that the cap lies between the lengths that may
be asked for is what matters.

## 3. Runs

| run | instance | shows |
|---|---|---|
| `escrow_money` | 2 trades, amounts to 2, a buyer and a seller with code, a verifier that can be removed, 2 attestations | the escrow always holds what it owes, callbacks and rollbacks included, and implements `EscrowLedger` |
| `escrow_authority` | 1 trade, 2 formats, verifiers, receipts, keys and domains; the registry's owner is also the seller, with code | only a current attestation of that receipt and tier settles |
| `tier2_buyer` | 1 trade, 2 buyers, 1 attestation | a Tier 2 attestation for one key settles another buyer's trade (a finding) |
| `market_faults` | 2 calls, the one for a cached prompt with Tier 2 and the other not, 2 suppliers on their own nodes, 2 receipts of which the prover may give either, 1 fault | the safety properties of a purchase |
| `market_live` | 3 calls, the same prompts and receipts, no fault | every call ends in a settled trade unless late ticks took its deliver or its bids |
| `market_shared` | 1 call, both suppliers on one node listed twice, 2 faults | every call returns or throws |
| `shared_node` | as above, no fault | an accept is dropped by the wrong agent (a finding) |
| `receipt_path` | 1 purchase, 2 prompts (one PD19 does not know), lengths 0 to 3 with the cap at 2, both formats, 2 verifiers, 2 keys | signer, buyer, contract and CLI agree on what was signed; honest receipts are attested but for one case |
| `pd19_length` | as `receipt_path`, the PD19 format | an honest receipt of another length is refused (a finding) |
| `bid_window` | 2 nodes, 2 agents of which one moves, ids of 5 digits of which 2 tell nodes apart, up to 3 bids in 2 calls, one of them perhaps by the first window's last tick, 2 hashes, 3 prices, budget 2, each window in every order its bids might have come | how consensus and price decide, and that the accept goes where the bid came from |
| `chain_client` | 2 purchases, the first with Tier 2, 2 faults, 3 polls | what a call reports is what happened, at most once, and it ends; `PurchaseLog` is implemented |
| `settlements` | 2 trades, the first with Tier 2, 1 subname not yet created, 1 record of the parent and 2 of the subname, 2 faults | records land in order, name settled trades only, and never hold a purchase up |

Why the bounds suffice. Two trades are what it takes for one to be paid from the
other's deposit, and amounts up to 2 for a sum to overflow and wrap. One level of
frames is all the guard allows; the mutant that drops the guard goes deeper. Two
receipts, keys and domains are what a mistaken check can confuse. Two calls are a
call and its retry; one fault is enough for every failure path of one call, followed
by a call that meets what the failed one left. Two receipts are what a mix-up of queries
can confuse: with one of them for each query of the fresh agent, a supplier whose map is
not kept by query (`AnyEntries`) delivers the wrong one. Three calls are two windows whose
last ticks can take something from a third: a deliver, or both bids. Lengths to one above the cap give 0, which
means the default, fewer, exactly and more tokens than it. Three bids give both a majority
and, when two have come, a tie that the order decides, in two windows so that the second
meets what the first filed.
Five digits leave room for a prefix of two, one digit between it and the padding, and
padding; one key has digits that look like padding. Two faults are a lost answer and a
failure to recover from it, or one in each of two purchases; three records are a first, a
middle and a last one, on both sides of the creation of the subname. Two updates are one
that gave up and one that starts over it. A third meets what two have left pending; with a
subname it takes seven million states, too many for a run to be repeated, and is left to
the theorems, which have no bounds.

`CHECK_DEADLOCK FALSE` is set where the system may stop: after `MaxQueries` calls or the
last purchase or update, when the last bid has come, and when a receipt was refused or a
settle rejected.

**Fairness.** The escrow's properties are safety. `FairSpec` of `Marketplace` assumes
weak fairness of each step of the buyer and of its ticks, and of each supplier's loop:
JavaScript's event loop runs every timer and promise that is due, and each HTTP request
ends because `_fetch` aborts it (`client.mjs:150-161`) and the receipt polls time out
(`chain.mjs:214`). Nobody has to start a call, and a fault never has to happen. A
timeout may come at any moment. In `market_live` only, `Patient` says that the window
and the delivery timeout outlast what is under way. Nothing is said of the `/recv` of a
closed window, which nobody waits for: it may take the deliver and put it into the
buffer after `_waitForDeliver` has looked there, or take a bid of the next call. That is
what the code does, with no fault at all, and a call that lost its deliver or all its
bids to such ticks throws. `PurchaseSucceeds` says so (`Missed`), and that nothing else
keeps a call from a settled trade. `QueryConcludes` needs none of this.

`FairSpec` of `ChainClient` assumes that a step of a call under way is taken: requests
are aborted after viem's timeout and retries, and `waitForTransactionReceipt` after
`txTimeoutMs`. No block is ever promised, and no purchase need begin. `FairEns` says the
same of an update; it is an assumption inside `UpdatesEnd`, so that `EnsNeverBlocks` is
checked under a specification that is fair to `queryMarket`'s return only and promises
nothing of Sepolia.

## 4. Properties

*Escrow.* `NoDust`: vault = units still owed + gifts, also during a seller's call.
`CallbackConfined`: while the seller runs, older trades do not change but for the tier
being paid. `ReentrancySound`: at most one settlement is in progress and the state it
would go back to is itself sound. `SettledOnlyOnAttestation`.
`ImplementsLedger`: terms never change, each tier is paid at most once, one transaction
pays one tier, on an attestation that was current when it started.

*Marketplace.* `DeliveryHonoursBid`: what the buyer pays for was delivered in this call
by the winner with the hash it bid, whatever receipts the prover gave for other queries.
`BothOrNothing`: no deliver anywhere lacks a tier
that was asked for. `ReturnMeansSettled`: a normal return means the tiers asked for are
settled, no others. `AcceptReachesAddressee` and `AcceptFindsContext`: accepts are read
by the agent they name, which still knows the query. `QueryConcludes`,
`PurchaseSucceeds`: liveness; the second names the two ways in which late ticks keep a
purchase from success.

*Receipts.* `AttestedSettles`: a settle of an attested receipt fails only if the
registry has moved on since. `OnlyTheBuyerVerifies`: `defacts-verify` says VALID for the
buyer's key on the right deployment, and for nothing else. `ValidMeansWasInCharge`: the
signer it found valid was the registered verifier when Tier 2 settled, although it
compares with the file and not with the registry. `OnlyPd19LengthRefused`: what
an honest supplier made, the verifier signs, but for PD19 receipts of another length
than the default (finding 3). `SuppliersAgree`: a cached and a generated receipt have the
same hash, unless fewer tokens were asked for than the cache holds: it serves its 20
whatever the length, and the buyer's consensus then sets one honest supplier aside.

*BidWindow.* `MajorityWins`: a hash that more than half of the bids commit to is the one
accepted. `OrderMattersOnlyInTies` and `AgreeingBidNeverHurts`: unless hashes tie, no
permutation of the bids changes the hash or the price; a further bid for the agreed hash never raises the
price or empties the choice. `AddressLeadsHome`: an agent's address reaches the node of
its latest bid and no other. `KnownSendersResolve`: it is a full key, unless its node
once bid before a topology had listed it; then the cut form is filed and may be found
first ever after. `AcceptGoesToBidder`: the accept reaches a node that bid as the winner in
this very window, or one that an earlier window's last tick filed for it meanwhile, but
none that an earlier call had filed. Without the second case TLC refutes it: an agent that
moved has its old address back.

*ChainClient.* `ReturnMeansMined`: a call that returns has had its effect. `AtMostOnce`:
however often a broadcast or poll is repeated, a call takes effect at most once.
`RefusedOnlyAfterTrouble`: the calls never collide among themselves: that is what
awaiting each settle buys (`runtime.mjs:267-273`), and the mutant that dispatches them
back to back breaks it. `ImplementsLog`. `PurchasesEnd`: a purchase returns or throws
although no block ever comes.

*EnsUpdater and Settlements.* `PrefixRecorded`: whoever sees a record of an update finds
those before it as well. `OkMeansRecorded`: an update that reports ok has written all its
records itself. Both except histories in which updates overlap and the node forgets a
transaction besides (`Undisturbed`, section 2). `FailsOnlyAfterTrouble`: an update that has
the wallet for itself fails only if a request did; in particular a subname exists when it
is written. `RecordsNeverGoBack`: without overlap a record never returns to an earlier
trade, also when a transaction given up is mined late, as long as the node forgets none.
`RecordsOnlySettled`: the names on one chain show only what has been settled on the other.
`UpdatesEnd`, `EnsNeverBlocks`.

## 5. Proofs

`EscrowProofs` proves, for every value of the constants that satisfies the three
assumptions of `Escrow` (distinct kinds of addresses; numbers are numbers; finitely many
trade ids):

| theorem | statement |
|---|---|
| `TypeCorrect` | `Spec => []TypeOK` |
| `ExactBacking` | `Spec => []NoDust` |
| `CallbacksConfined` | `Spec => []CallbackConfined` |
| `OneCanBeUndone` | `Spec => []ReentrancySound` |
| `SettlementAuthorised` | `Spec => SettledOnlyOnAttestation` |
| `Refinement` | `Spec => ImplementsLedger` |

The inductive invariant `IInv` is `TypeOK /\ NoDust /\ CallbackConfined /\
ReentrancySound`. `NoDust` alone is not inductive: `SettleReverts` brings back a saved
state, of which one must know that it is backed too (`SavedSound`), and the guard must
be known to hold for the frame on the stack to be the only one (`GuardHeld`).
`CallbackConfined` relates the saved trades to the current ones, from which the
refinement gets that a whole transaction, with everything its callee does, pays one
tier and changes no terms. TLC checks all parts of `IInv` in `escrow_money`.

Sums of deposits are cardinalities: `Ledger!Owed` names every unit of ether still owed,
so `FiniteSetTheorems` gives what opening (`OwedAfterOpen`) and settling
(`OwedAfterSettle`) do to it, with no induction over trades. `NextInv` has one lemma
per action. For the refinement, `IdleTransaction`, `ReturnTransaction` and
`MidTransaction` show the three kinds of step: between transactions, the end of a
settlement, and inside one, where nothing visible changes.

`MarketplaceProofs`, for any agents, nodes, topology, calls and faults:

| theorem | statement |
|---|---|
| `TypeCorrect` | `Spec => []TypeOK` |
| `WinnerDelivers` | `Spec => []DeliveryHonoursBid`, if the topology lists each node once |
| `DeliversAreComplete` | `Spec => []BothOrNothing` |
| `ReturnsSettled` | `Spec => []ReturnMeansSettled` |
| `OneAgentPerNode` | `Spec => AcceptReachesAddressee`, if no two agents share a node |
| `AcceptsFindContext` | `Spec => AcceptFindsContext` |

None of these is inductive, since a message may sit anywhere for any time: in a queue, in a
tick of an earlier call's loop, in the buffer. `IInv` therefore says what each kind of
message under way may be. A bid has its agent's node (`Bids`); an accept or deliver of
the current call names its winner and exists only once the accept may be out
(`ForTheWinner`); a deliver has every attestation that was asked for (`Deliveries`). These
sets of messages only grow (`Grown`, one lemma for a step within a call and one for the
next call), so that a step need be looked at only where it adds a message. `Window` relates
the bids, the address book and the winner, and `Trades` each call's trade to the phase of
the call.

That the deliver has the hash that was bid, although no code compares the two and the
prover's receipts differ from query to query, is a layer of its own (`Receipted`). Of each
call a supplier's node has one query at most, and none once the supplier has bid on it
(`OneQueryPerCall`, `QueriesFirst`); so all that there is of one agent and call, its bid,
its note in `inflight`, the accept it is handling and its deliver, has one receipt
(`OneReceipt`). The hypothesis is needed: of a node listed twice, the agent is asked twice,
makes two receipts and keeps the second while the buyer may have chosen the first bid. TLC
finds that in 22 steps if `Links` is two in `market_faults`.

`AcceptFindsContext` needs more (`Known`): at most one accept of a call is in any queue,
and as long as nothing failed the agent of every accept, and before the accept goes out of
every bid, has the query in `inflight` or `bidding`. The steps that matter are `Deliver` and
`Attest`, which remove a query: that is sound because there was one accept only, and it is
the one being handled. `OneAgentPerNode`
has a hypothesis about the deployment that the repository does not make; without it the
property is false (finding 2).

`BidWindowProofs`, for ids of any width, any number of nodes, agents and bids:

| theorem | statement |
|---|---|
| `AddressesLeadHome` | `Spec => []AddressLeadsHome` |
| `SendersResolve` | `Spec => []KnownSendersResolve` |
| `MajorityDecides` | `Spec => []MajorityWins` |
| `AcceptReachesBidder` | `Spec => []AcceptGoesToBidder` |
| `AgreeingBidHelps` | `Spec => AgreeingBidNeverHurts` |
| `OrderMatters` | `Spec => []OrderMattersOnlyInTies` |

The first two are not inductive: what an id resolves to depends on all that was ever
filed. The invariant says of every entry of `byRoutingId` that it leads to one node, by its
full key unless that node is a stranger (`AddressesOwned`), and that every node a topology
has listed is filed under its key (`SeenFiled`). The lemmas about ids (`MatchesAgree`,
`RoutingIdsMatch`, `OneNode`) say that ids which match share the minimum prefix, which by
`KeysDiffer` names one node. The others rest on `BidChoiceProofs`: what the choice returns
(`ModalIsMostFrequent`, `CheapestIsCheap`, by the least element of a set of numbers) and on
cardinalities of sets of places in the sequence of bids (`MajorityIsModal`, `ModalStays`).
For `OrderMatters` the permutation is itself the bijection between the places of a hash in
one order and in the other (`ReorderedCounts`), so that hashes count the same and, without
ties, the same one wins.

`ChainClientProofs`, for any number of purchases, attempts and faults:

| theorem | statement |
|---|---|
| `ClientTypeCorrect` | `Spec => []TypeOK` |
| `ReturnIsEffect` | `Spec => []ReturnMeansMined` |
| `EffectAtMostOnce` | `Spec => []AtMostOnce` |
| `NoCollisionInCalm` | `Spec => []RefusedOnlyAfterTrouble` |
| `ClientImplementsLog` | `Spec => ImplementsLog` |

The invariant adds to the properties that calls are serial (`Serial`), that every
transaction, pending or mined, has the nonce its call signed with (`NoncesKept`), and that
as long as nothing went wrong a call that signed has the pool for itself (`CalmAlone`).
`AtMostOnce` is then that a nonce has one place in `mined`.

`ReceiptsProofs`, for any prompts, lengths, keys, verifiers and rotations:

| theorem | statement |
|---|---|
| `BuyerAloneVerifies` | `Spec => []OnlyTheBuyerVerifies` |
| `ValidWasInCharge` | `Spec => []ValidMeansWasInCharge` |
| `HonestRefusals` | `Spec => []OnlyPd19LengthRefused` |
| `HashesAgree` | `Spec => []SuppliersAgree` |
| `AttestationsSettle` | `Spec => AttestedSettles` |

The invariant says where each artefact comes from: a bid from the query (`HonestBids`),
attestations, trade and file from the receipt delivered (`SameReceipt`). The two lemmas
that matter are `ContractAgrees` and `CliAgrees`: the digest that was signed is the one
the contract rebuilds, and the one the CLI rebuilds for this key and address only.

`SettlementsProofs`, for any number of trades, records, subnames and faults:

| theorem | statement |
|---|---|
| `SettlementsTypeCorrect` | `Spec => []TypeOK` |
| `RecordsInOrder` | `Spec => []PrefixRecorded` |
| `OkIsRecorded` | `Spec => []OkMeansRecorded` |
| `ShownIsSettled` | `Spec => []RecordsOnlySettled` |
| `FailuresHaveACause` | `Spec => []FailsOnlyAfterTrouble` |
| `NoRecordGoesBack` | `Spec => RecordsNeverGoBack` |

`PrefixRecorded` is inductive only with what each update knows: all writes before the one
it is at have happened (`DoneSoFar`), and no transaction, pending or mined, is ahead of
its update (`JobsBegun`). Since an update goes on with the receipt of its nonce, whosever
that is, `DoneSoFar` rests on `PlaceInv`: unless updates have overlapped, one runs at most
(`Alone`), and at the nonce of an update that waits there is its own transaction or none,
and if the node forgets nothing, its own (`OwnPlace`). Of an update that is alone a
forgotten transaction's nonce is free, but nobody is there to take it; of one that is not,
the nonce stays taken.

The last two theorems are about histories in which little went wrong, and have an
invariant of their own, `OrderInv`. Purchases come in turn (`InTurn`), so an update that
overlaps none is the latest begun (`LatestRuns`), and its transactions enter the pool
behind all others: the pool has no holes (`Ahead`, `NoGap`), and what is pending and mined
is in the order of the updates (`Among`, `Behind`). The last entry of `mined` that wrote a
record is then of the latest update to have written it (`ShowsGrow`). If nothing failed
either, an update has the pool to itself (`CalmAlone`) and whatever it is about to write is
ours (`OursWhenReady`), so neither a nonce is refused nor a write reverted.

The attempt to prove `RecordsNeverGoBack` refuted what it said at first, that updates which
do not overlap suffice. The run is too small to see it: an update gives up with its
transaction pending, the next one broadcasts behind it and gives up as well, the node
forgets the first transaction, and a third update takes the nonce that became free, so that
its record is mined before that of the second. The property now excepts histories in which
the node forgets a transaction (`forgotten`). TLC found `OrderInv` to hold with three
updates before it was proved.

Each of these rests on the named assumptions of the modules it is about and on nothing
else; TLC evaluates them in the runs.

Every safety invariant, action property and refinement that a run checks has its theorem.
Only model-checked is liveness under fairness (`QueryConcludes`, `PurchaseSucceeds`,
`PurchasesEnd`, `UpdatesEnd`, `EnsNeverBlocks`), which is beyond the prover, as ENABLED is;
and the bounds of those runs are all that is known of it. Of `Marketplace` what is proved
is about the model's one-step transactions: that the chain client's many steps amount to
one is `ClientImplementsLog`, and the two are not composed.

## 6. Findings

Each is a run that TLC refutes, and an entry under `findings`.

1. `tier2_buyer`: Tier 2 is bound to a key named in the settle call, and not to the
   trade's buyer.
2. `shared_node`: the documented sharing of one AXL node by several agents loses
   accepts.
3. `pd19_length`: the verifier does not tell the PD19 adapter the length, so it refuses
   honest receipts of other lengths than 20 tokens.

Smaller observations, without a run:

- A supplier that loses on a node of its own is never told, so the clean-up of `inflight`
  in `_handleAccept` does not run and the map grows.
- `defacts-verify` compares the signer with an address in the file it checks. That it was
  the registered one is so because the contract checked it before the file was written
  (`ValidMeansWasInCharge`).
- The comment *activity counter* at `index.mjs:243` has no counter below it, and
  `createSubname` skips what its comment says it sends anyway.
- Updates that do not overlap may still leave a name at an earlier trade, if the node forgets
  a transaction whose update has given up (`SettlementsProofs`, section 5).
- `stop()` does not stop a `/recv` under way, so a tick of an earlier call may still take a
  message: a deliver it takes is dropped (`Missed` in `PurchaseSucceeds`), a bid it takes
  is registered in the address book but collected by nobody (`BidWindow.ArriveLate`).
- The ENS updater takes the receipt at its transaction's nonce for its own. Should another
  update's transaction have replaced it there, an update returns ok with a record it never
  wrote. That takes overlapping updates and a transaction the node forgot
  (`RecordsInOrder` and `OkIsRecorded` are stated of runs that are `Undisturbed` by it).
- `end-of-day-3-driver.mjs` takes `last_trade_id`, the first of a subname's five records,
  as the sign that the whole update has landed. `PrefixRecorded` says what may be
  concluded from it: the parent's records are there; the four after it need not be.

## 7. Not modelled, and the plan

Not modelled: `docs/dsec-verify.c` (a numeric reference program nothing calls), the
storage experiment, the threshold stub (an experiment beside the protocol that no agent
calls; it keeps a log it never reads), deployment and walkthrough scripts, the ENS command
line (straight lines of the updater's own operations, one process run by hand per
command), `HelloWorld.sol`, the encoding of envelopes, and the `a2a` transport, for which
the repository has a client and no server. There is no refund in the contract, so a tier
never settled stays deposited: nothing to check, but `OpenTrade` without a settle is in
every run.

Planned, in this order:

1. An abstract specification of a purchase, as the buyer and the chain see it: asked, one
   bid chosen, opened, settled tier by tier or given up; `Marketplace` shown to implement
   it, by a run and by a theorem from `IInv`.
2. The same for the records: `EnsUpdater` as a register for each name that moves forward,
   implemented as long as there is no mishap.
3. A composition of `Marketplace` with `Escrow` for `chain`.
