# Sub Rosa: a TLA+ verification of the sealed-round protocol

Sub Rosa runs sealed rounds on Stellar.  Participants escrow tokens and commit
to a sealed envelope; the envelope is timelock-encrypted to a Drand round R;
once R's beacon exists anybody may open the round, reveal every bid, clear the
round and settle it.  No party holds a key, and no party is needed for the
round to end.

This directory models the contract that keeps the money and decides the
outcome, the keeper that drives rounds to their end, and the programs people
use it through: the SDK, its receipts, the web application's pilot pages and
auction room, and the bidder agent.  TLC checks them on small instances; TLAPS
proves the safety of v1, v2 and v3 rounds, of their composition, of their
receipts and of the keeper for every value of the constants.

All paths below are relative to the repository root.

## 1. The system

| Component | State | Operations | Talks to |
|---|---|---|---|
| Round contract, v2/v3 (`contracts/round/src/lib.rs`) | a round record, a submission per bidder, a partner policy, a v3 reveal state | create (plain, partner, v3), commit, open, reveal, clear, settle, void | tokens, Drand, seals |
| Round contract, v1 (same file) | a round record, a bid per bidder | the same seven, one token, no lot | tokens, Drand, seals |
| Storage (`storage.rs`) | round counter; TTL of every entry | next id, TTL extension of seals | the host |
| Drand verifier (`drand.rs`) | none | `time_of_round`, `verify_round` | the host's pairing |
| Payload codec (`payload.rs`) | none | decode an envelope to an optional amount | reveal_v2 |
| Tokens (SAC, external) | balances, trustlines | transfer | the contract |
| Keeper (`services/keeper`) | a settlement guard in memory, a queue file | open, reveal, close, void; watch loop; queue command; status server | SDK, Drand |
| SDK (`packages/sdk`) | network validation, transactions under way | check, build, sign, submit, confirm; export and verify receipts | RPC, wallets |
| Pollar adapter (`packages/pollar-adapter`) | none | sign with a Pollar wallet | SDK, Pollar |
| Pilot pages (`apps/web/src/pages/*PilotPage.tsx`) | address, round id, round shown, selection, saved workspace | create, seal and submit, open and reveal, select, hand over | contract bindings, ACTA, Trustless Work |
| Auction room (`hooks/useRoundSession.ts`, `DemoPage.tsx`) | one session: wallet, round, auditor key, round shown | create, join, commit, open and reveal, refresh | contract bindings, Freighter |
| Bidder agent and appraisal API (`services/agent`, `services/appraisal-api`) | none between runs | pay for an appraisal, bid within a mandate | SDK, x402 |
| Timelock (`packages/tlock`) | none | seal and open an envelope | Drand |
| Showcase, examples, scripts | view state | demonstration | SDK |

`PROJECT.json` lists each of them with what is modelled.

### What is hard

* **Order against the beacon.**  From the instant R is published every sealed
  bid is public.  A commit accepted then is made with the others in view.
* **Custody is pooled.**  The contract has one balance per token.  A refund
  paid twice in one round is paid with another round's escrow.
* **Every closing step is permissionless and retried** by any number of
  keepers: clear, settle and void arrive twice, late, and after one another.
* **Nothing needs to happen.**  Drand may stall, nobody may open, nobody may
  reveal, the v3 operator may refuse to open; escrow must still come back.
* **One payee can make a whole settlement trap** (no trustline, frozen asset).
* **Two clocks.**  Deadlines are in seconds, storage TTL is in ledgers.
* **Off chain**: stale reads between a keeper's query and its call, an
  unconfirmed settlement that lands later, two processes on one queue file and
  a crash in the middle of its write, a receipt exported with several reads
  while the round moves.
* **Pages**: handlers work on the values their button was pressed with, while
  refreshes, the address bar, reloads and wallet changes go on: what is shown,
  what is named and what is sealed may be three different rounds.
* **Money off chain**: an escrow deployment or an appraisal whose answer is
  lost and whose request is repeated.

Section "hazards" of `PROJECT.json` has each of these at its line, with the
properties that would catch it going wrong.

### What makes each component correct

* **Contract**: each bidder is indexed once; money is conserved account by
  account; the winner is the best valid bid, the earliest among equals, at a
  price within its escrow; no seal changes once its beacon exists; a v3
  operator can delay opening but not prevent it; every round ends.
* **Storage**: a seal is readable for as long as it may be needed; an id names
  one round of one family.
* **Keeper**: repeating a pass is harmless; one failing bidder does not stop
  the others; a settlement in doubt is not forgotten and not doubled.
  An open round in the discovery window is kept whatever happens to the file.
  What the status API recommends is what the contract accepts.
* **SDK**: a call reported as failed has no effect later; a call reported as
  done did what this call asked; what the contract accepts the client does not
  turn away; the receipt of a settled or voided round verifies.
* **Pilot pages**: a proposal is sealed for the round it is sent to; a reveal
  pass leaves nobody behind; one escrow for one engagement; only a verified
  wallet submits.
* **Auction room**: a bid is sealed for the round it is made in.
* **Agent**: it spends and bids within its mandate, and is charged for
  appraisals and nothing else.

## 2. Modules

| Module | What it is |
|---|---|
| `SaturatingU64` | `saturating_add`, `_sub`, `_mul` on u64, with a scaled-down maximum |
| `StellarLedger` | clock, beacon, token balances and refusals, round counter |
| `RoundTypes` | statuses, clearing rules and the commitment function shared by v1 and v2 |
| `Clearing` | the clearing rule, as a definition |
| `ClearingLoop` | the loop of `clear` and `clear_v2`, one bidder per step |
| `SealTtl` | lifetime of one sealed ciphertext |
| `SealedRound` | the abstract round every version promises to be |
| `RoundV2` | v2, partner and v3 rounds |
| `RoundV1` | v1 rounds |
| `RoundContract` | both families over one counter, clock, beacon and pool of tokens |
| `RoundErrors` | which error code a rejected v2 call returns |
| `Keeper` | passes of the keeper process over v2 and v3 rounds, and its settlement guard |
| `KeeperStore` | the watch loop, its queue file and the queue command, with crashes |
| `KeeperStatus` | what the dry run and the status API recommend |
| `RoundRequests` | what the SDK checks of a creation request; the round templates |
| `Receipts`, `ReceiptsV1` | the receipt of a round, and its offline verification |
| `ReceiptExport` | both exports, read by read, while the contract is called |
| `Deployment` | two rounds of any families, or an export beside them |
| `SdkCalls` | a state-changing call: validation, signature (local or Pollar), submission, confirmation, retries |
| `BidderAgent` | the agent under its mandate, and the appraisal server it pays |
| `PilotRounds`, `PilotTab` | the rounds as pages see them; a tab: address, refreshes, handlers, the reveal pass |
| `BasicPilot`, `EscrowPilot`, `OfferHubPilot`, `SignalPilot`, `ActaPilot`, `OpenX402Pilot` | the six pilot pages |
| `Pilots` | the pages over the same rounds, one at a time |
| `AuctionRoom` | the auction room and its handlers |
| `MC*` | instances for TLC |
| `RoundTypes_proofs` | lemmas on schedules, the bidder index and sums of tokens |
| `RoundV1_proofs`, `RoundV2_proofs`, `RoundContract_proofs` | theorems about each family and about both in one contract |
| `Receipts_proofs`, `Keeper_proofs` | theorems about receipts and exports; about the keeper and the status advice |
| `Parts_proofs`, `Pilots_proofs` | theorems about the loop of `clear`, seals, the SDK's calls, the agent and the auction room; about the pilot pages |

`RoundContract` EXTENDS `RoundV1` and `RoundV2`, which both EXTEND
`RoundTypes`, which brings `StellarLedger` and `Clearing`.  `RoundV1` and
`RoundV2` instantiate `SealedRound` under a refinement mapping.  `Keeper`
EXTENDS `RoundErrors`, which EXTENDS `RoundV2`: the keeper runs against the
contract itself, not against a summary of it, and so do `KeeperStatus`,
`Receipts`, `ReceiptsV1`, `ReceiptExport` and `RoundRequests`.  The pages and
the auction room have many handlers and little interest in money; they run
against `PilotRounds` and the first actions of `AuctionRoom`, where a round is
its status, its bids and what is revealed of them.

### How they correspond to the code

**One action per entry point, one step per transaction.**  A Soroban
invocation is atomic: it commits all its writes and transfers or none.  A call
that returns an error or traps is rolled back and is a stuttering step, so an
action's guard is the conjunction of every check on the way, in the contract
and in the token calls it makes.  Which error code a rejection carries matters to
the keeper only, and is what `RoundErrors` adds for the calls it makes.

| Action | Entry point |
|---|---|
| `CreateRoundV2`, `CreatePartnerRoundV2`, `CreateRoundV3` | the entry points of the same names, over `create_round_v2_impl` |
| `CommitV2`, `OpenRevealV2`, `RevealV2`, `ClearV2`, `SettleV2`, `VoidV2` | `commit_v2` ... `void_v2` |
| `CreateRound`, `Commit`, `OpenReveal`, `Reveal`, `Clear`, `Settle`, `Void` | `create_round` ... `void` |
| `CloseLedger` | the ledger timestamp advances |
| `PublishBeacon` | Drand produces R's signature, at its scheduled time or later |

`clear_v2` has three endings (`FinalizeReceiptOnly`, `VoidForNoValidBid`,
`SelectWinner`), and `refund_all_v2` is part of the actions that call it.
`clear`'s and `clear_v2`'s loop is one step of the round models, through
`WinningBids` of `Clearing`; `ClearingLoop` runs the loop bidder by bidder and
proves it picks exactly that.

**Data.**  An envelope is what the contract gets out of one: whether it
decodes and which amount it carries, if any.  A commitment is an injective
image of it (`Sha256`): collisions are excluded.  `verify_round` accepts a
signature exactly when Drand has produced that round.  A token is a function
from accounts to balances; the contract's balance is what the accounts paid
in; `Refuses` lists the accounts a token cannot credit.  Ciphertexts and
auditor blobs decide nothing on chain and appear only in `SealTtl`, as an
entry that is there or not.

**Arithmetic.**  Times are in `0 .. U64Max` and saturate as the code does.
The one unchecked addition (v1 `void`) is modelled by its trap.  `SealTtl`
keeps the truncating cast to u32 where the code has it, before the cap.

**SealTtl** follows one seal of one round.  The host's `extend_ttl`
raises an entry's life when what remains is below a threshold, never
shortens it, and a Temporary entry past its life is gone.  `CloseLedger(secs)`
advances the sequence by one and the clock by `secs`; the conversion assumes
five seconds a ledger.  Persistent and instance entries are not followed: the
network restores those from its archive.

**Keeper.**  A pass is `watchRound`: void if stale, open, reveal everybody,
clear, settle.  TypeScript runs to the next `await`, so a step ends where the
code awaits a read, a call or the beacon, and between two steps of a pass
anything may happen on chain.  `pass[p].at` names where pass p is:

| Stage | Next step | Code in `keeper.ts` |
|---|---|---|
| `stale`, `void` | `CheckStale`, `SubmitVoid` | `voidIfStale` |
| `keep`, `open`, `sweep` | `Keep`, `SubmitOpen`, `Sweep` | `keepRoundV2`, up to the reveal loop |
| `look`, `reveal` | `Look`, `SubmitReveal` | one bidder of the reveal loop |
| `close`, `clear` | `Close`, `SubmitClear` | `closeRoundV2`, clearing |
| `settle`, `settling` | `AfterClear`, `SettleReply` | `closeRoundV2` and `submitSettlement` |
| `finish` | `Finish` | the last read of `watchRound`; `updateRound` in `watch-loop.ts` |

Two consecutive reads with no call between them are one step, since only the
later one decides.  `Submit` is a contract call: it takes effect, is rejected
with the code of the first failing check and skipped or thrown as the error
lists of `keeper.ts` say, or traps in a token transfer.  `Reserve` is
`canSettle` and `markSubmitted` in one step, as no `await` lies between them.
`Fault` is a failing RPC call, `SkipUnread` a bidder that cannot be read or
opened for now, `Restart` loses everything but the stored status.  The
keeper's clock may be off by any of `Skew` at each reading.  Other keepers,
bidders and operators are the calls of `RoundV2`; so is a transaction of a
pass that timed out and is included later.

**KeeperStore.**  The watch process and the queue command each hold a copy of
the store, read whole at their start and written whole, in place.  A write is
two steps, truncation and text, and a process may die between them; a file
that does not parse is moved aside.  What a pass does to a round is `Keeper`'s
subject: here it ends the round, leaves it, or throws.

**Receipts.**  `ReceiptOf` assembles the document from what was read, and
`VerifyReceiptV2` (`VerifyReceiptV1`) is the offline check of it, without encodings and
signatures.  In the round models the receipt is taken in one state; in
`ReceiptExport` each read is a step, the bidder list is paged, and reads that
are started together come back in any order.

**SdkCalls.**  One account commits one value after another; the value stands
for the call.  A step ends at each `await`: the network's validation, the
assembly on the account's sequence number, the signature, the submission, each
poll.  The network includes the transactions of an account in the order of
their sequence numbers, late, never, or after the caller gave up.
`verdict[i]` is what the caller can tell of transaction i: it is done, it
failed, or it is not known.  Only the pages try again by themselves, on
`txBadSeq`.

**Pages.**  A handler is a task that carries the values its page had when the
button was pressed, and goes on at each `await`.  A refresh carries its
generation where the page has one.  `tab` has what is shown and what is named
apart, as the pages do.  A reload keeps what the page saves and loses tasks and
reads.  Other tabs, wallets and keepers are `OthersAct`.

**AuctionRoom.**  `room` is the session of `useRoundSession.ts`; a handler in
`work` holds the closure's round, wallet and auditor key.  The buttons'
conditions are those of `PhaseGuide` in `DemoPage.tsx`.

**BidderAgent.**  One mandate and session key, several runs of the agent, each
of which may die anywhere; the server between verification, appraisal,
settlement and answer.

**SealedRound** says what a participant relies on whatever the version: a
stake moves only while the round collects, at most one party is ever charged,
once, after the opening and within its stake, and a round that ends releases
all stakes in that step and never moves again.

## 3. Runs

| Run | Question | Bounds |
|---|---|---|
| `round_v2` | one v2, partner or v3 round: all its properties, its receipt in every state, the client's request checks | operator and two bidders, two tokens, creation requests of which each rejected one breaks one check, four envelopes, escrows -1..2, time 0..7 |
| `round_v1` | one v1 round: all its properties, its receipt in every state | operator and two bidders (the operator may bid), room for two, four preimages, escrows -1..2, time 0..6 |
| `round_contract` | two rounds of any families at once; an export while the contract is called | operator and two bidders, one token that is lot and payment, pages of one bidder, time 0..5 |
| `keeper_passes` | two passes sharing a guard: what the keeper believes against what is on chain | operator, bidder, keeper; v2 round; the bidder refuses refunds; clock off by -1..1; two faults or restarts; time 0..6 |
| `keeper_alone` | one keeper on its own ends every round and reveals every good bid; the status advice in every state | operator, two bidders, keeper; a v2 and an owner-triggered v3 round; one ciphertext does not match; clock off by -1..1; one fault; time 0..7 |
| `parts` | six parts that touch no other, one at a time | see below |
| `pilots` | the six pages, one at a time | two rounds, the user's wallet and another, others acting on the first round, three gestures (buttons, links, typed ids), two escrows |
| `keeper_races` | whether a pass can fail on "already done": **violated** | as `keeper_passes`, one pass |
| `voided_receipt` | whether the receipt of every voided round verifies: **violated** | as `round_v2` |
| `store_two_contracts` | whether only completed rounds are filtered out: **violated** | two contracts, two ids, one crash, one command |
| `pilot_seals` | whether a proposal can be read early: **violated** | as `pilots`, the Offer-Hub page |
| `agent_spend` | whether the agent spends within its mandate: **violated** | as the agent in `parts` |

`parts` chooses a part in its initial state and lets only that one act:

| Part | Bounds |
|---|---|
| loop of `clear` | every ballot of up to five bids out of five kinds: ties, negative, absent and invalid amounts |
| seal | days of two ledgers, cap of eight, ledgers of 5, 6 or 8 seconds, three schedules |
| store | one contract, two ids in the window, one crash, one queue command |
| sdk calls | two calls, three transactions, two values, three wallets, three routes |
| agent | three runs, mandates of one or two units, a server asking one or two |
| auction room | two rounds, one guest, one peer that bids in one of them, five buttons pressed, two handlers at a time |

Why the bounds are enough for what they look for:

* Two bidders give ties, overwrites at the participant limit, a winner and a
  loser, and one payee that refuses while another does not.  Balances above
  and below the escrows give both funded and unfunded calls.
* One round exercises every status and every order of its entry points.  What
  a second one adds is the shared counter and the shared balance, which
  `round_contract` checks with the lot in the payment token, so that lots,
  prices, refunds and escrows of two rounds meet in one pool.
* The time axis has an instant before and after every comparison in the code:
  commit deadline 2, R due at 3, fallback 4, reveal deadline 5, grace to 6,
  and 7 after it.  A request may break each strictness (a deadline at R, a
  reveal deadline at R, a fallback leaving no window).
* Two passes are what it takes to contend for a guard entry, and two faults to
  lose a reservation in one pass and the other pass, or the process, after it.
  `keeper_passes` reduces by the symmetry of the passes, which no property
  tells apart.  Two bidders of whom the first may be the corrupt one are what
  it takes for one failing reveal to starve another.
* `U64Max` is 9 in the round models, so saturation happens within the instance.
* The seal's numbers reproduce the ratios that matter: a minimum extension
  above one day, a cap above the longest allowed round, ledgers no faster than
  assumed.
* An export of two bidders in pages of one has a commit, a reveal and a
  settlement between any two of its reads.
* Two calls and three transactions let a given-up transaction be overtaken,
  included before or after the next call is made, or collide with it.
* A page confuses two rounds with a link, a typed id and a button; that is
  three gestures.  In the auction room a refresh of an older round answers
  after a newer one was entered and while a bid is sealed: connect, join,
  refresh, create, commit.

Deadlock checking is off in all of them: time and gestures stop at their
bounds, and a round that has ended offers nothing more to do.

### Properties

Both families: `TypeOK`; `BidderIndexExactV2` (the index that clearing,
settlement and refunds walk is exactly the set of bidders, each once, and
within `max_participants`; for v1 the conjunct `IndexExactV1` of `TypeOKV1`,
with the limit of bidders);
`AccountsBalance` (each wallet is its initial balance less live escrows and
lots, plus and minus what settled outcomes moved, so nothing is refunded
twice, forgotten or taken from another round); `OutcomeJust` (winner and price
agree with the reveals and the escrow; a voided round had no valid bid);
`SealedBeforeBeacon` (no commitment or escrow changes once R exists);
`RoundsEnd` (every round ends); `ImplementsSealedRound` (refinement);
`ReceiptsVerify` (the receipt of a round in any state verifies, except of a
round opened and then voided, which is finding 2, and its outcome is computed as
the contract computed it).

v3: `OwnerCannotWithholdV3`.  v1: `RevealCannotBeSpoiledV1` (a stranger may
reveal first, but only what was committed).  Composition: `OneFamilyPerId`,
`PooledCustodyExact`.  Seals: `SealReadable`.  Loop: `LoopPicksWinner`.
That a cleared round can be paid out of the pool has no property of its own:
`PooledCustodyExact` says the pool holds what every round owes, and
`RoundsEnd` would fail at a settlement that lacks funds.

Exports: `ExportVerifiesV1` and `StableExportVerifiesV2` (an export verifies
although the contract is called between its reads; for v2 if the round itself
has not moved).  Client: `ClientTurnsNothingAway`.

Keeper: `OneSettlementAtATime` (passes sharing a guard never have two
settlements of a round under way, and a reservation ends with its attempt);
`NothingAbandoned` (what the guard calls terminal, or the watch loop filters
out by its stored status, has ended on chain); `LoopLeavesNobodyBehind` (a
reveal loop that completes in time leaves no revealable bid unrevealed);
`OneBidStopsNoPass` (no bid, however malformed, makes a pass throw);
`RoundsEndV2` with no fairness for anybody but the keeper;
`AdviceMatchesContract` (the status API and the dry run recommend what the
contract accepts, for any reading of the clock; who may open a round early is
left out for rounds the keeper's own account operates, since the status server
does not look at the operator); `WindowRoundsKept` (an open
round in the discovery window is kept until it has ended).

Programs: `VerdictsHold` (what a call reports of its transaction stays true)
and `LastWordStands` (a call that returned has the round hold what it
committed, whatever was signed or is still on its way); `RevealPassComplete`,
`SealedInTime`, `NoSecondEscrow` and `CredentialsMatchWallets` of the pages;
`RoomSealsInTime`; `ChargedForAppraisals`.

Each property of a passing run has a mutant in `PROJECT.json`: a plausible
mistake in the modelled code (a dropped check, `<=` for `<`, a forgotten
refund) under which TLC finds that property violated.

### Fairness

`RoundsEnd` assumes that time passes and that `clear`, `settle` and `void` of
a round are each called if they stay possible.  All three are permissionless
and `services/keeper` retries them on every tick of its watch loop, so one
running keeper, or any participant, provides it.  Nothing is assumed of Drand,
of whoever opens, of bidders revealing, or of the operator.  A payee that
refuses its tokens is the exception the property names, because one refused
transfer rolls the whole settlement back.  `RoundsEndV1` is also limited to
rounds whose deadline and grace lie within the explored time; a v2 reveal
deadline is bounded at creation, so v2 needs no such limit.

`keeper_alone` removes the assumption about callers: only time and the steps of
one pass (`Work`) are fair, because the watch loop runs for as long as the
process does and retries after every failure.  The number of faults is bounded,
as a keeper whose every call fails promises nothing.

The store's part of `parts` assumes that a watch process that died is started
again (the services run under a supervisor), that discovery is tried again
after it failed and succeeds again and again if it can, and that a tick that
can come comes; crashes and commands are bounded.  The other parts and the
pages have no liveness property: people press buttons or do not.

### Findings

1. *Already done, yet a failed pass* (`keeper_races`).  `keeper.ts` says every
   step treats "already done" errors as skips.  Its reveal step does not list
   `RevealNotOpen`, `AlreadySettled` and `RoundVoided`, so when somebody
   clears the round between the read of a bid and its reveal, the pass fails.
   The next tick recovers.
2. *A voided round without a receipt* (`voided_receipt`).  `docs/RECEIPTS.md`
   offers a verified download of every settled or voided round.  The verifier
   takes an opening time in a voided receipt for an error, but a v3 round that
   was opened and voided for want of a valid bid has one.
3. *A finished round of another contract* (`store_two_contracts`).  The queue
   file is keyed by round id alone and `addRound` keeps the old entry's
   `lastStatus`: pointed at a second contract, the keeper filters out a round
   whose number a finished round of the first had.
4. *Sealed for the round shown* (`pilot_seals`).  The Offer-Hub page seals a
   proposal for the round it still shows and commits it to the one the address
   names.  The proposal may be readable while its round is open, which
   `docs/PILOT_PLAYBOOK.md` excludes.
5. *A mandate that caps nothing spent* (`agent_spend`).  The agent checks the
   price its own mandate quotes, before the server has named one, and starts
   each run with no spend so far.  It pays whatever the server asks.

Other observations, made while modelling, without a run of their own:

* `storage.rs` caps an extension at 60 days while a v1 round may be longer: a
  seal committed early expires before anybody but its bidder can reveal it.
  v2 and v3 rounds last at most 30 days and are proved to be covered.
* v1 `void` adds the grace to the deadline unchecked where `void_v2`
  saturates, and `create_round` bounds no deadline: such a round makes `void`
  trap (`VoidOverflows`) where `void_v2` returns an error.
* The guard's `terminal` is not final: `markRetryable` sets `pending` whatever
  the entry was, and `submitSettlement` calls it for every error.  No escrow is
  at stake, as the round is settled by then.
* In the auction room `connect` ends with a status that enables the other
  buttons while a handler runs.  A commit that finishes after a second round
  was joined writes the first round's auditor key into the session, and the
  next bid is sealed for that auditor.  A refresh that answers late shows an
  older round.  Neither affects the beacon a bid is sealed for.
* On the Trustless Work page the deposit goes to the escrow of the saved
  receipt whatever round is shown.  On the Signal page a refresh that answers
  after the organizer changed rooms makes a second room of the old round.
* On the ACTA page wallet, verified eligibility, round and selection are
  separate saved fields.  Three things follow that `CredentialsMatchWallets`
  does not exclude:
  - `issueOutcome` does not ask `eligibility.state`.  A verification that ends
    `not_eligible`, as the credential is of another type or issuer, keeps the
    owner and `subjectDid`.  A wallet that committed without the page, revealed
    and was found not eligible can be issued the outcome credential.
  - `loadRound` keeps the selection, so a provider selected in one round counts
    as selected in another one where it has revealed.  `createRound` clears it,
    but the proposals of the previous round are shown until the refresh, which
    is not awaited: a provider selected from them is issued a credential of the
    new round, where nobody has submitted (`docs/pilots/ACTA_PILOT.md` asks for
    "a valid revealed submission from the subject wallet").
  - The policy and the owner may be edited while a verification is under way:
    its answer, to the policy as it was, is stored all the same.
* The agent takes the reveal round and the auditor key from its configuration,
  not from the round it bids in.
* `PollarReceiptOnlyClient` guards `createRound` and the v2 calls; the
  inherited v1 calls are not guarded.

## 4. Proofs

TLAPS checks these for every value of the constants that meets the named
assumptions of the modules (`LedgerAssumption`, `RoundV2Assumption`, ...).

| Theorem | Says |
|---|---|
| `InvariantV1`, `InvariantV2` | the inductive invariants `IInvV1`, `IInvV2` hold of every reachable state |
| `TypeCorrectV1`, `TypeCorrectV2` | every record well-typed, no balance or escrow negative; in v1 also the exact index |
| `IndexExactV2` | the bidder index is exact and within `max_participants` |
| `OutcomesJustV1`, `OutcomesJustV2` | cleared and settled outcomes follow from the bids |
| `SealsFixedV1`, `SealsFixedV2` | no seal or escrow changes once the beacon exists |
| `AccountsExactV1`, `AccountsExactV2` | every wallet is its initial balance less live escrows and lots and what the outcomes moved |
| `ImplementsV1`, `ImplementsV2` | rounds implement `SealedRound`, any number of rounds and bidders |
| `ReceiptsAgreeV1`, `ReceiptsAgreeV2` | the receipt of a round in any state verifies (but for finding 2) |
| `EvidenceInvariant` | a v2 or v3 round stores the evidence its receipt needs |
| `InvariantContract` | both families in one contract keep both invariants |
| `OneFamily` | an id names one round of one family |
| `OutcomesJust`, `SealsFixed`, `ImplementBoth` | what is proved of each family holds next to the other |
| `PooledCustody` | with one balance per token for all rounds, no round is paid from another's escrow |
| `ClearingCorrect` | the loop picks the winner the rule defines |
| `SealOutlivesRound` | a seal outlives the reveal window and the buffer |
| `KeeperInvariant`, `LoopInvariant` | the inductive invariants of keeper and contract together |
| `KeeperTypes` | passes, guard and queue keep their types; a failing pass throws a contract code, a trap or a network error |
| `OneSettlement` | one settlement of a round at a time, for any number of passes |
| `NoRoundAbandoned` | what the keeper takes for over is over |
| `NobodyLeftBehind` | a reveal loop that completes in time leaves no revealable bid unrevealed |
| `OneBidEndsNoPass` | whatever a bidder sealed, its reveal ends no pass |
| `KeeperIsPermissionless` | contract and keeper together behave as the contract alone allows |
| `AdviceSound` | the dry run and the status server recommend what the contract then accepts |
| `OwnerOnlyDelays` | anybody may open a v3 round with a policy from its fallback time on, at least `MinRevealWindow` before the reveal deadline |
| `RevealStaysOpenV1` | until its reveal deadline an affordable v1 bid is on record as committed or can still be revealed |
| `ClientNeverStricter` | the SDK's request checks pass whatever the contract accepts |
| `ExportsVerifyV1`, `ExportsVerifyV2` | exports read step by step beside any calls of the contract verify |
| `ReportsHold`, `LastCommitStands` | what the SDK reports of a transaction stays true; a confirmed call's value stands |
| `AppraisalsPaidFor` | no appraisal is received uncharged, and none charged that was not made |
| `RoomBidsOpenInTime` | a bid of the auction room is sealed for its own round |
| `PassesComplete`, `SealsInTime`, `OneEscrowOnly`, `CredentialsMatch` | the four properties of the pilot pages |

Some assumptions are there for the proofs: `MinRevealWindow` is positive
(`MIN_REVEAL_WINDOW` is 300 seconds); bounds are natural numbers; and a value that
stands for nothing (`None`, `NoTx`, `NoRound`, `Nobody`, `NoEscrow`) is none of the
values stored next to it, the empty sequence included.

**`IInvV2`** adds to the properties what makes them inductive:

* `BeaconsDue`: a published round is due.  With the creation check that the
  commit deadline lies before R's time this separates commits from the beacon,
  the whole argument of `SealsFixedV2`;
* `Counted`: only ids up to the counter are in use, so creation overwrites
  nothing.  Exactly those would not be kept next to v1 rounds, which take ids
  from the same counter; that all ids are taken is `OneFamily`;
* `RoundInv`: the index is exact; outcomes are just; the record is sound (the
  commit deadline lies before R's time, an auction has a payment asset and a
  receipt-only round none, there is no winner before clearing and only an
  auction is ever Cleared); and so is each submission (no escrow in a
  receipt-only round, nothing valid while the round is Open, a valid auction
  bid positive and within its escrow, the settled flag set only in ended rounds
  and on every submission of an ended auction).

`NextIInvV2` has one lemma per entry point, and a frame lemma (`OneRound`)
carries the other rounds.  `ForeignStep` says that the invariant also survives
a step that leaves this family's storage alone and takes no id back: a call of
the other family is one.  `OutcomeJust` for `SelectWinner`
needs what `OffersAreRevealed` says: in an auction the offers that compete are
the valid bids with their amounts.

**`ImplementsV2`**: `MapStep` shows that a step on one round changes one row
of the mapped variables; then each entry point is `Announce`, `Stake`, `Open`,
`Decide`, `Close`, or a stutter (`reveal_v2` moves no stake).  That `Decide`
charges within the stake is where `OutcomeJust` is needed, and that `Close`
releases every stake needs the exact index.

**`IInvV1`** mirrors it.  What differs is that v1 keeps a bid's validity as a
consequence of its reveal (`BidSoundV1`: valid exactly when revealed with a
positive value), that an index is bounded by `MaxBidders`, and that the type
invariant is part of the theorem about the index.

**Accounts.**  `AccountsBalance` sums over all rounds what each keeps of an
account.  A fold over a finite set is a recursive definition, but the three
facts needed of it can be had without induction over an operator:
`RoundTypes_proofs` shows that sums exist and do not depend on the order
(`SumUnfold`, `SumTake`) from the smallest set for which they would not, which
`SmallestSet` provides.  `SumChange` then says that a sum changes by what one
term changes.  For each entry point one lemma (`CommitBalanced`,
`SettleBalanced`, ...) shows that the call changes what its round keeps of
every account by exactly what it moves in that account's wallet.  A settled
round keeps the price of its winner and gives it to the operator, a voided one
keeps nothing: that those are equal needs the exact index (everybody paid
once), just outcomes (the price is within the escrow) and the settled flags.
`BalancedKeepsBooks` adds the rounds up, and `CallKeepsBooks` does it for both
families over one wallet.

**`InvariantContract`** is `IInvV1`, `IInvV2` and `OneFamilyPerId` together.
A call of one family takes at most the next id (`CallStores`, `CallStoresV1`),
and is a foreign step to the other.  `SealsFixed`, `OutcomesJust` and
`ImplementBoth` follow, because a step of the deployed contract is a step of
either family or a stutter of it.

**Receipts.**  For v1, `IInvV1` already says what the verifier recomputes.
For v2 and v3, `EvidenceKept` records what the verifier looks at beyond
`IInvV2`: the terms are those a request may ask for, with the window a timed
opening policy leaves; every submission was admitted by the stored policy and
escrows what the policy fixes; what is revealed opens its commitment and is
the recorded amount; a v3 round that went on past Open has an opening time
within its window.  With just outcomes that is each check of `VerifyReceiptV2`
in turn.  A round opened and then voided is the exception the property names.

**`ClearingCorrect`**: after i bidders the loop holds the winner of the first
i, or nothing if none is valid.  The initial best of the code, 0, never
competes because `found` is still false then.

**`SealOutlivesRound`** assumes `RoundsFitOneBump` (the longest round with its
buffer fits the cap, as 30 days fit 60), `FitsU64` (no saturation) and
`LedgersNotFaster` (a ledger takes at least five seconds).  The invariant
`Covers` says that the ledgers left, at five seconds each, cover the time to
the end of the buffer.  Ledgers that close faster break it; the code assumes
the same.

**`IInvKeeper`** is `IInvV2` with `KeeperShape` (a pass under way has a round;
inside the reveal loop it has bidders and an envelope), `RoundsStored`,
`SettlementInv` and `NothingAbandoned`.  `OneSettlementAtATime` is not
inductive as it stands: that nobody else reserves while a pass settles needs
`ReservationHeld`, that the entry of a settling pass is never pending.  It may
be terminal, when another pass has seen the end of the round first (the
observation on `terminal` above).  `NothingAbandoned` rests on `EndedStays`: no step of the contract changes
a round that has ended.  Each stage of a pass has a lemma that its steps make
`Progress`; `ProgressKeeps` turns that into the invariant, and `FaultStep`,
`SkipStep`, `RestartStep` and `OtherStep` cover the rest.

**The reveal loop.**  That a pass leaves nobody behind is a claim about the
end of a loop during which anybody may call the contract.  `LoopSound` says it
of every point of the loop: each revealable bidder is still to come, recorded
as skipped, or validly revealed (`Provided`), and the envelope about to be
revealed for a faithful bidder opens its commitment.  It holds as long as the
reveal deadline has not passed, and is kept for two reasons.  On chain,
`StepOnward`: once commits are closed, no step adds a submission or changes a
seal, a valid bid stays valid, and before the deadline the round is neither
cleared nor voided (`EndsLate`) and whatever was revealed is valid
(`RevealedIsValid`).  In the pass, a bidder leaves the list only if it was
skipped on record, cannot be revealed, is revealed already, or its
`reveal_v2` was accepted or refused; and `RevealAccepted` says the contract
refuses a revealable bid before the deadline only as already revealed.
`FirstFailed`, the code a rejected call returns, is the error of the least
failing check, so that its value needs no induction over the list of checks.
`OneBidEndsNoPass` is the other half: every code a reveal in its reveal phase
can be refused with is in the keeper's list (`RevealErrorFacts`).

**`AdviceSound`** compares two case analyses of one record: the conditions the
status server tests in turn, and the checks of the entry points as
`RoundErrors` orders them.  `IInvKeeper` rules out what only the second would
notice, such as a Cleared record without a winner.

**Guards in place of ENABLED.**  Three properties say that a call is possible.
The prover does not expand ENABLED, so three theorems state what makes it
possible, from invariants of their own:

* `OwnerOnlyDelays` rests on `PoliciesSound`: what `create_round_v3` checked of
  the fallback still holds, because no later call writes the deadline, R or the
  policy;
* `RevealStaysOpenV1` rests on `WindowsOpenV1`: before its reveal deadline a
  round is neither cleared nor voided, and whatever was revealed of it was what
  was committed, so each check of `reveal` passes;
* `ClientNeverStricter` takes any step of `create_round_v2`,
  `create_partner_round_v2` or `create_round_v3` and shows the client's checks of
  that request.

**Exports.**  An export is a list of reads with calls between them, so the
invariant relates what was read to what is stored now.  For v1
(`ExportInv`): the round read is an earlier record of the present one
(`OnwardV1`: the index only grows, and stands still once there is a winner);
the pages read so far are a beginning of the present index; and a bid read
after a winner was is as it is now (`BidRead`), because nothing reveals in a
round that is over.  Before there is a winner the receipt claims none, and each
bid need only open its own commitment.  For v2 (`ExportInvV2`) the question is
whether the record changed and changed back.  `Later` orders the records of a
round by status and then by length of the index: every call that changes the
record moves it up, so a round that left the record the export began with never
returns to it.  While it is there, every answer fits it (`AnswersFit`), each
submission was admitted by its policy and opens its commitment (`PartFits`), and
the verdict is that of the receipt taken in one step.

**SDK calls.**  `SdkInv` adds to `VerdictsHold` three facts about sequence
numbers.  `CallOwnsLastTx`: the transaction of the call under way is the last
built and has the next sequence number at most.  `Waiting`: a transaction in the
pool has no outcome yet, has not been reported failed, and is told from the
others by its hash.  `LastTxIsLast`: nothing in the pool has a higher number than
the last call's transaction, so once that one is included the others are
overtaken; this is why an earlier transaction whose outcome was never learned
cannot overwrite a later confirmed commit.

**Agent and auction room.**  `AgentInv` counts: charges are at least the
appraisals received, and appraisals made at least the charges, with the one
under way on either side.  `RoomInv` says of a handler that has sealed bids but not sent
them (`SealsOfWork`) what `RoomSealsInTime` says of the bids themselves.

**Pages.**  A page has many handlers of which only one or two matter to a
property; a step is `Steady` if it leaves no handler in a pass that was not
there before, and every handler of every page is shown to take such steps or
those of the pass.  `PassInv`: a pass is of a round
that has begun, where nothing new is sealed, and what is still sealed is ahead
of it or was set aside as revealed.  `EligibleInv`: whom the
page holds for eligible has the credential, and so has whoever a submission
under way is for; a subject that is kept belongs to the owner kept with it; and
whoever is shown as revealed has revealed in some round, which no call takes
back (`RevealedStays`).  With the guards of `issueOutcome` this is what makes
an issue under way name one wallet and its own subject.  `OneEscrow`: while nothing was submitted
one handler runs at a time, and from the submission on none deploys; it is
claimed only until the service loses an answer or the page is told to forget.
`SealInv`: on the Trustless Work page a handler commits to the round it sealed
for; on the OpenX402 page this needs `MarketSound`, that the shown round is the
named one, which holds because a handler that changes the name does its own
refresh before anything else may run.

## 5. Only model-checked, and not modelled

Only model-checked:

* liveness (`RoundsEndV1`, `RoundsEndV2`, `WindowRoundsKept`): fairness is
  outside what the prover handles;
* three properties with ENABLED (`OwnerCannotWithholdV3`,
  `RevealCannotBeSpoiledV1`, `ClientTurnsNothingAway`), which the prover does not
  expand.  The theorems `OwnerOnlyDelays`, `RevealStaysOpenV1` and
  `ClientNeverStricter` state them with the guards of the call, or its step, in
  place of ENABLED; that those guards suffice for the step is left to TLC.

Every other property of a passing run is stated by a theorem.

Not modelled, and why:

* *Presentation.*  More than half of the lines under `apps/web` are markup,
  wording, layout and demonstrations with scripted data; they keep no state a
  property could be about.  This is why the map covers a smaller share of the
  repository than of its contract, keeper and SDK.
* *Pages*: sample and demo walkthroughs, receipt downloads, forms and their
  validation, the owner-triggered opening on the basic page, the wallet effect
  of the ACTA page at mount, the hand-over of the OpenX402 page to a payment
  interface that does not exist yet.  The reads of one refresh are one step.
* *SDK*: preflight simulation and its cost report, canonical serialization,
  address and configuration checks, artifacts: they read, or compute one
  value from another.
* *Pollar*: the signature of authorization entries, and the receipt-only
  client.
* *Keeper*: the v1 variants `keepRound` and `closeRound`, which differ in their
  error lists; HTTP routing, authentication and health of the status server;
  retry counters and timestamps of the store.
* *Appraisal*: the arithmetic of `appraise`, whose suggestion is any amount
  here; x402's own protocol beyond verification and settlement.
* *Cryptography and bytes*: envelopes, ciphertexts, auditor blobs, pairing
  arithmetic, timelock encryption.  Generated bindings.  Scripts, examples and
  test-vector tools, which call the SDK in sequence.

## 6. Plan

Done, in this order because the contract holds the money and every other
component only calls it: ledger, clearing, v2/v3 rounds and their abstract
specification, v1 rounds, the composition, seal lifetimes; the error codes and
the keeper with its settlement guard; then the store, the status advice,
requests and receipts, exports, the pilot pages, the SDK's calls, the agent and
the auction room; and the proofs of section 4, of everything but what section 5
names.

What remains, where it pays:

1. `KeeperV1`: `keepRound` and `closeRound`, which differ from the v2 pass in
   their error lists.
2. Error codes of creation and commit against `ERRORS.md`.
