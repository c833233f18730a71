# Verification of auth.provider

TLA+ models of the parts of auth.provider whose correctness rests on what
happens when several hosts, requests and sweeps act at once, with the TLC
configurations that check them and the TLAPS proofs about them.

auth.provider is an OAuth 2.0 and OpenID Connect provider assembled from about
150 TypeScript modules (`src/modules`). Every host runs the same modules, none
keeps state of its own that matters, and all of it lies in stores reached over
a network. The protocol code is therefore a set of short sequences of store
calls, each with an `await` between, and correctness is a matter of what else
may have happened at each of those points, and of what is left when a host
stops there.

## The system

| part | state | operations | who it works with |
| --- | --- | --- | --- |
| `foundation/store` | entries by space, partition and name, versions, idempotency marks, a replica | get, apply a guarded write, confirm | everything above it |
| `foundation/records` | one record to an entry; keyed sets; deferred lists | create, read, change, remove; add, members, awaiting, settled; add, done, each | the store below; every `templates/*-store` gives one of them to a component |
| `identity/subject-revocation` | a boundary of time by subject | revoke, compare | calls its followers once a boundary is written |
| `identity/session-lifecycle` | session records, the cookie index, closings, each subject's listing | open, entry, raise, close, sweep, revocation of a subject's sessions | calls participants at a close; asks subject-revocation at entry |
| `oauth/refresh` | families, what a redemption began, families by session, access tokens by family and back, a settle list | start, redeem's addition, rotate, revoke, adopt, sweep | a participant of session closings, an addition of code-grant, a condition on access tokens |
| `oauth/code-grant` | codes, a void list | issue, redeem, void, sweep | asks sessions, calls additions and hooks |
| `oauth/token-denylist` | denied access tokens | revoke, holds | everything that revokes |
| `oauth/session-tokens` | access tokens by session and back, sessions to settle | record, close, sweep | a participant, a hook of redemptions |
| `oauth/rp-logout` | relying parties by session, notices pending | close, deliver, put off | a participant |
| `oauth/device-grant` | device codes, user codes | begin, decide, poll | browser and device at once |
| `upstream-login/federation-tokens`, `delegation/federation-grants` | upstream tokens, refresh locks, intents | renew under a lock, exchange | an upstream provider |
| `second-factor/mfa`, `mfa-flows` | factors, fences, claims, transactions | bind, prove, reissue, reset, release | rate-limit, users |
| `foundation/rate-limit` | counters, lockouts, reservations | attempt, fail, succeed | logins, codes |
| `foundation/kernel` | modules, periodic tasks, hooks | assemble, start, drain, stop | everything |

The rest (authorize, consent, users, passkeys, jwt-bearer, dpop, mtls, http,
outbound, mail, redis, ledgers, audit) is listed in `PROJECT.json` with what is
modelled of it or why nothing is.

What is hard about it, in one sentence each:

* **Lost and late calls.** A write may take effect and lose its reply, be sent
  again, or land after its caller gave up (`records.ts` `untilAnswered`).
* **Failover.** A replica takes over without the last unconfirmed writes, which
  callers may have read and guarded their own by (`simulated.ts`).
* **Reads that age.** Each `await` is a place where a session closes, a family
  is revoked or a code is replayed before the answer that was read is used.
* **Lists beside records.** What must be closed is found through lists with a
  cap, written apart from the records they name; the order of the two writes
  decides what a crash between them loses.
* **Undoing.** A login or a redemption that fails midway takes back what it
  did, while others have seen it.

## Modules

| module | what it is |
| --- | --- |
| `ReplicatedStore` | one entry of a store: primary, replica, marks, sends on the way, the clock, failover, and the space's guarantees (`foundation/store` memory.ts, simulated.ts) |
| `Records` | create, read, change and remove over it, each a process of sends, resends and retries (`foundation/records`) |
| `AtomicRecord` | what `Records` promises where a space is replicated: one atomic record |
| `RecordsProofs` | the proofs about `Records` |
| `KeyedSets` | the operators of sets by key with a cap, whose push-outs await in the same write |
| `SubjectRevocation` | boundaries, and their late writes |
| `SessionLifecycle` | sessions from login to end, over the two above |
| `SessionLife` | what one session promises: new, open, closing, ended, never back |
| `RefreshFamilies` | families of refresh tokens and the access tokens issued from them |
| `CodeGrant` | codes and their redemption, over `RefreshFamilies` |
| `Calls` | requests and sweeps as stacks of asynchronous calls, with throws and stops |
| `SessionTokens` | access tokens by session: recorded, pushed out, settled, swept, closed (`oauth/session-tokens`) |
| `DeviceGrant` | device codes, composed with `SessionTokens`: the token a poll is answered with is one of the session's that approved |
| `Periodic` | a host's periodic task and its stop, as the kernel runs them |
| `LogoutNotices` | back-channel logout notices by shards, composed with `Periodic` (`oauth/rp-logout`) |
| `UpstreamRenewal` | one session's upstream tokens, renewed under a lock that may lapse (`upstream-login/federation-tokens`) |
| `Lockouts` | a key's lockout as operators, each one of rate-limit's writes |
| `SecondFactors` | a user's list of factors, transactions and each session's permit, over `Lockouts` (`second-factor/mfa`, `mfa-flows`) |
| `NoticesProofs` | the proofs about `LogoutNotices`: of types, of a host's stop, of clients a close must not forget |
| `SecondFactorsProofs` | the proofs about `SecondFactors`: of its list, of what lets a transaction on, and of the lockout's budget |
| `RenewalProofs` | the proofs about `UpstreamRenewal`: what was taken out stays out, what is rotated is not sent again, what is closed keeps nothing |
| `SessionProofs` | the proofs about `SessionLifecycle`: of a session's life and its cookies |
| `ListingProofs` | the proofs about `SessionLifecycle` with `SubjectRevocation`: of boundaries, the listing and revocations, on top of `SessionProofs` |
| `CodesProofs` | the proofs about `RefreshFamilies` with `CodeGrant`, over the stacks of every worker: of families, then of codes |
| `DevicesProofs` | the proofs about `DeviceGrant` and `SessionTokens`, over the stacks of every worker: of a device's decision, of closed sessions' tokens, of types, and of what awaits its denial |
| `MC...` | instances for TLC, one to each specification |

### How state and actions correspond to the code

*Store and records.* `ReplicatedStore` keeps what `memory.ts` keeps of an entry
(value, version, expiry) on each of two nodes, with the marks of the writes
that took effect. `Records` gives each caller one operation; each of its steps is
one `await` of the code: `Start`, `ReadStore`, `SendTaken`, `ReplyLost`,
`Resend`, `Receive`, `GiveUp`. A lost send stays on the way and may land later
(`Land`) or never.

*Everything above.* A call to a store is one step, atomic and kept by failovers.
That is what `Records` is shown to give in a replicated space (`IsAtomic`,
`AnswersKept`), and what the templates require of the spaces of sessions,
families and codes (`guarantees`). A worker is a request or a sweep on some host,
and holds what its code holds in local variables between two calls.

In `SessionLifecycle` a worker is a record with a program counter; each action
is named for the part of the code it stands for (`LoginStamp`, `LoginList`,
`LoginKeep`, `CloseAdvance`, `PutOff`, ...). A save and what follows its answer are two
steps: a close that finds its record gone marks it in a step after (`CloseMark`,
`CloseRemark`), and a browser holds a cookie a step after its secret was saved
(`LoginIssue`, `LoginAnswer`). In `RefreshFamilies` and `CodeGrant`,
where operations call each other (a redemption starts a family, which pushes
another out, which is revoked), a worker is a **stack of frames**: the call it is
in on top, and below it what goes on when that returns. `Throw` unwinds to the
frame that catches, as the code's `try` or `each` does, and `Crash` drops the
stack. `Fails` is the store that is unavailable or the list that is full.
`SessionTokens`, `DeviceGrant` and `SecondFactors` take the same stacks from
`Calls`; `LogoutNotices` and `UpstreamRenewal`, whose calls do not nest, keep one
record to a worker (`job`).

*Ghosts.* What a property speaks of and no store keeps is a variable of its own,
marked `ghost` where it is declared: the tokens a response carried out (`given`),
what a browser was told (`told`), the guesses kept as wrong, each with when it was
made (`wrong`), the proofs a transaction went on from (`accepted`), the factors
held when the fence last moved (`before`).

### Loads

Each specification has a variable that never changes (`space` in
`ReplicatedStore`, `load` above it), chosen at the start from a constant set. A
load says which operations workers take up, how many names there are, the
caps, and the steps at which a worker may fail or its host may stop. One run so
checks several mixes of operations, each small enough to be searched to the end.

## Runs

| run | configuration | shows |
| --- | --- | --- |
| `records_kept` | `MCRecordsKept.cfg` | in a replicated space: callers see one atomic record (`IsAtomic`), and no failover takes back what one was told (`AnswersKept`) |
| `records_spaces` | `MCRecordsSpaces.cfg` | on a clock, with confirmed reads, and in a space that may lose all: `NothingLate`, `AtMostOnce`, `Chained`, `ReadsKept` |
| `session_safe` | `MCSessionSafe.cfg` | six mixes: `ClosingKept`, `OldCookieNeverRaised`, `ShutByBoundary`, `ListedOrClosing`, `CompleteClosesAll`, and that a session implements `SessionLife` |
| `session_finishing` | `MCSessionFinishing.cfg` | every closing kept is finished |
| `session_pushout_crash` | `MCSessionPushOutCrash.cfg` | a counterexample, see Findings |
| `session_putback_missed` | `MCSessionPutBackMissed.cfg` | a counterexample, see Findings |
| `tokens_safe` | `MCCodeGrantSafe.cfg` | five mixes: `SpentOnce`, `CleanupReachesAll`, `ClosedKeepsNone`, `TakenBackHasNone`, `RedeemedOnce`, `VoidedKeepsNothing` |
| `tokens_finishing` | `MCCodeGrantFinishing.cfg` | tokens of ended families are denied in the end, and voidings finish |
| `device_tokens` | `MCDeviceGrant.cfg` | four mixes: a closed session's tokens are all revoked (`ClosedKeepsNone`), what a full set pushes out is always followed by someone (`AwaitingFollowed`) and revoked in the end (`PushedOutDenied`), a device is decided once and answered once (`DecidedOnce`) |
| `notices` | `MCLogoutNotices.cfg` | five mixes: no client the session answered is forgotten by a close (`NoneForgotten`), a host that stopped in time cuts no delivery short (`StoppedIsQuiet`), every notice ends (`NoticesEnd`) |
| `renewal` | `MCUpstreamRenewal.cfg` | three mixes: tokens removed never come back (`NeverBroughtBack`), a rotated refresh token is not sent again but for a stall, a stop or a lost answer (`RotatedNeverSent`), a close leaves none (`ClosedKeepsNoTokens`) |
| `factors` | `MCSecondFactors.cfg` | six mixes: wrong guesses stay within the lockout's budget and its releases (`GuessesBounded`), a proof lets one transaction on (`AcceptedOnce`), the list stays in order (`ListInOrder`) |

`CompleteClosesAll` is checked twice: it holds in the mixes of `session_safe`,
where no listing's push-out meets a revocation, and fails in
`session_putback_missed`, where one does.

### Bounds, and why they are enough

* *Two workers (or callers), nearly everywhere.* Every hazard listed in `PROJECT.json`
  is a race of two actors, with what a third left behind on a list or in a
  record; that is reached by a third operation taken up after another ended.
* *Records:* one entry, as writes of several are not modelled; two values, a few
  requests, two failovers. A resend, the delayed first send, the retry it
  provokes and a failover between them need no more. Each space bounds its own
  clock and calls.
* *Sessions:* up to three, one subject, caps of one (so that every second login
  pushes one out) or more than there are (so none does), two participants where
  their order matters. The clock runs only in the mix with revocations, up to
  `MaxNow`; `Patience` is how far a write may land after it was begun.
* *Families and codes:* up to two families and two codes, one session, three or
  four access tokens, three secrets to a family (a reuse needs two, and a third
  shows the one rotated to is spent too). Caps of one to three: with two, a
  third token pushes one out; with three, two uses can race to the rotation.
* *Session tokens and devices:* one session, one device, two or three tokens, caps
  of one (every second token pushes one out) and of two with a margin of one (an
  add pushes out early, when others are under way). One call fails or one host
  stops in each mix, at any frame the mix names.
* *Notices:* two hosts, each with a request and a timer; two clients where members
  matter, one elsewhere; two shards. A notice lives two ticks and is put off by
  one, so it is put off once onto the shard the same sweep reads next and once
  onto the one it has read; the clock ends two ticks after the last notice.
* *Renewal:* three workers, as a lock lost to a second holder matters only while
  a third still finds its mark. Two logins (the second replaces or follows the
  first), three or four tokens in all, two troubles in the mix of renewals and a
  stall in the others.
* *Second factors:* two workers, three transactions of two attempts, up to three
  factors, all that the list may hold. A budget of two and a hard limit of three
  let a guess be judged, a second be held back by the backoff and a third fix
  the lock; a window of two ticks on a clock of three lets one age out. Releases
  are checked with a budget of one, where each forgives a whole count, on the permits
  of two sessions, which may be granted at one instant.
* *Names* (secrets, tokens, family names) are drawn once each, as 16 or 32 random
  bytes are. `NamesLeft` and `SecretsLeft` stop an operation from being taken up
  when too few are left, so that nothing blocks in the middle.

Deadlock is not checked in the runs of the upper layers where bounded names
end all that a load's workers can take up; there the system may really stop.

Symmetry is used for names and workers in runs of invariants and of `IsAtomic` and
`IsSessionLife`, which say what a step may do and tell no names apart: of a behaviour
that breaks one, each renaming breaks it too. It is never used where a liveness
property is checked.

### Fairness

`FairSpec` assumes, of the code's scheduling: a worker that can go on does
(weak fairness: a pending promise is settled), and each sweep is begun again for
what it has to do (strong fairness: `c.every` ticks on every host for as long as
one runs, but a tick is skipped while a sweep is under way). Lifetimes end.
Nothing is assumed of requests to come. In `notices` the clock is fair too, a host
that sweeps does so while it is up, and one that is stopping comes to its end and
is started again; `NoticesEnd` so needs no end of trouble, as a notice's own end
does. `PushedOutDenied` needs none either, the mixes of `device_tokens` being
bounded in faults. `renewal` and `factors` check invariants alone: nothing in them
waits on anything but a caller's next attempt. The other liveness properties have the form "once
trouble ceases": `<>[][~Trouble]_vars => ...`, trouble being a crash, an
unavailable store or a participant that fails, as no sweep gets through while
each of its calls fails.

## Findings

Both were met while modelling the listing of a subject's sessions. Each has a
run that expects the counterexample.

1. *A crash between push-out and closing* (`session_pushout_crash`). The login
   that exceeds the cap writes the listing first and the closing after; a host
   that stops between leaves a session open that is on neither list. The
   template's README says the closing is listed first.
2. *A put-back a revocation misses* (`session_putback_missed`). A revocation
   that reads the listing while a refused login holds a pushed-out session
   answers `complete`; the session is put back, open. Entry stays shut by the
   subject's boundary (`ShutByBoundary` holds), but the session's participants
   are not called.

## Proofs

`RecordsProofs` proves, for any number of callers, values, requests, failovers
and sends on the way, and any of the spaces:

* `TypeCorrect`: `Spec => []TypeOK`.
* `NoWriteIsLate`: `Spec => []NothingLate`.
* `NoWriteTwice`: `Spec => []AtMostOnce`.
* `NoUpdateLost`: `Spec => []Chained`.
* `RecordIsAtomic`: `Spec /\ Replicated => IsAtomic`, where `Replicated` says the
  space declares durable, no-eviction and replicated; and with it `AnswersStand`:
  `Spec => [](Replicated => AnswersKept)`.
* `ReadsStand`: `Spec => [](Confirming => ReadsKept)`, where `Confirming` says it
  declares durable, no-eviction and confirmed-reads.

Assumed is what the modules' `ASSUME`s say of the constants: bounds are natural
numbers, spaces have the fields they are read by, absence is not a value.

The first three rest on one inductive invariant, `IInv`. `AtMostOnce` alone is not
inductive: a send still on the way could take effect a second time on a node
that has forgotten the first. So `IInv` says of each node (`Fine`), beside the
types, that every write of its history is remembered under the write's mark,
until `Skew` past the deadline that mark's request was sent with, and that each
took effect by that deadline; and of the callers (`Calls`), that a call which
may still send holds a mark whose request, once made, never changes
(`Extends`). A node forgets a mark only when the clock has passed the time it
was remembered until; where a resend finds its mark forgotten, its deadline has
therefore passed as well, and the node refuses it as late. A failover replaces
one node's history by another's, both fine. `StepIInv` goes through the actions
one by one, with a lemma for each kind of move a call makes.

The others rest on `SInv`, which holds in every space, the ones that forget too.
`Chained` is not inductive: a write compares versions, not values. `SInv` says of
each node (`Story`) that it holds what its last write left, and of all versions
still known anywhere, in a node or in a request drawn from one (`Versions`), that
each names one value and none is ahead of `lastVersion`. So a write that found the
version it was decided on found the value too (`GuardedStory`). That a failover
does not repeat versions is what keeps this: with versions named from what a node
holds, `Versions` breaks. The replica's history is the first part of the primary's
(`Ahead`), and what a call awaits the confirmation of is in the primary's history
while it is pending and in the replica's once confirmed (`Stands`); so in a
replicated space the replica's history only grows, and what is told is what one of
its entries says (`Grows`, `Backed`). With `Chained` and `AtMostOnce` of the
replica that is a step of `AtomicRecord` (`StepAtomic`).

`SecondFactorsProofs` proves `FactorsInOrder`, `Spec => []ListInOrder`, for any
number of workers, factors, moves of the fence and faults. A list is written only
by a decision on what it holds then, so its `IInv` adds to `ListInOrder` only the
types of the list and what a frame about to write holds: numbers, and for a
binding a kind that is not recovery codes (`FrameFine`). Each decision then keeps
the order by itself (`BindFine`, `ReissueFine`, `RemoveFine`, `MoveFine`,
`ProveFine`): the ones that add look at the fence and count the place of the codes
due, a removal takes the codes with the last factor that counts, and a proof
replaces a factor by one of the same kind, which makes the list no longer.

Beside that `IInv`, it proves `ProvedOnce`, `Spec => []AcceptedOnce`. That a proof lets one transaction on is far from inductive, as the write that
accepts it looks only at the factor's state, and that state may have moved on, or
the factor have been removed, in the meantime. `OnceInv` says what a proof that
won leaves behind: it fits its factor no more (`Beaten`), as states only grow or
move later (`MovesOn`), and ids are drawn once, so no factor comes back under an id
that was proved (`Fresh`, of frames that have yet to write theirs). A frame about
to decide read a state its proof fits (`Reads`), so of two that judged the same
one, the second finds the state moved. Two frames past their decision hold
different proofs (`Won`), and past the taking different transactions
(`TakenOnce`). `OnceStep` shows that `OnceInv` survives any step that keeps factors
or moves them on (`ListKept`) and goes on in a frame that fits (`NewFrame`); each
action is then shown to be such a step.

And it proves `WrongGuessesBounded`, `Spec => []GuessesBounded`, whatever is
handed back meanwhile and whatever fails. The budget's list alone bounds nothing, as
it ages, is handed back and is forgiven. `GInv` adds to `IInv` what each guess that
is wrong, or may still turn out so, is counted by. There are two sets of them
(`Split`): those made since the budget was last forgiven are each still in the
lockout's list or too old to matter (`Recent`), as an attempt's time is never
before the store's and is the attempt's own, and only its own frame takes it out,
while its guess was not wrong (`Guess`, `Guesses`). So when one more is reserved in
a window, all the others of that window count, and there is a place left
(`SplitReserved`). Those made before are within the budget once for each release
that was applied, and a release is applied once for its permit, a session's
(`SplitForgiven`, `ReleasedFine`). No induction over the attempts is needed: the
two sets exist, whichever they are.

Assumed of the constants is `FactorsAssumption`: the factors held at first are in
order and have ids of their own, proofs, budgets and windows are numbers, and what
is thrown goes on, if anywhere, from a call of a proof that `verify.ts` hands
back, to where an attempt or a reservation is handed back.

`RenewalProofs` proves `TakenOutForGood`, `Spec => []NeverBroughtBack`, for any
number of requests, logins, refresh tokens and lapses of the lock. The argument
leaves the lock aside, as it must where a lock may lapse under its holder: what
keeps an old answer out of the record is that each write states what it may be
written over. `LInv` says that a renewal about to write writes an entry of the very
login it read (`Renewed`, `Purpose`), and that a login's receive, which writes over
anything, holds an entry of a login the record never had, nor any other request is
about to write (`Unwritten`): the login was drawn for it, and it writes once.
`JobStep` shows that any step keeps `LInv` whose write is of the login that was
there, of the login received, or takes an entry out.

On top of it, of the same `Spec` and as generally:

* `RenewalTypeCorrect`: `Spec => []TypeOK`.
* `ClosedTakesTokensOut`: `Spec => []ClosedKeepsNoTokens`.
* `RotatedSeldomSent`: `Spec => []RotatedNeverSent`.

Assumed is `RenewalAssumption`: a load's bounds are natural numbers, and no worker is
the mark of a free lock. `HandInv` is about what is at hand, in the record, in receipts
and in requests: each version is of a login received and a token issued, and a token
is of one version, so a request that read the record's token read the record's
version. `PendInv` says that an entry yet to be written is of a token nobody else has
and the upstream has not rotated. Every step of a request is one kind of `Turn` of
both: it reads what is at hand, makes an entry of a token just issued, or writes the
one it has pending (`TurnHand`, `TurnPends`). `CloseInv` then follows who is left to
take out what was written beside a close.

`RotatedNeverSent` is no invariant by itself: what a stall or a lost answer costs, it
costs later. `DebtInv` keeps the account. The troubles so far cover the rotated tokens
sent again, the requests that will send one (`Debtors`: under way without the lock, or
having read a token rotated since), and a rotated token in the record that nobody under
the lock is about to replace (`Stale`). Each step leaves the account covered
(`DebtSum`): a renewal under the lock rotates the token of its own version, which it
is about to replace (`Mends`); one without the lock is a debtor, and what its rotation
leaves behind, a stale record or the holder with the same token, takes its place, never
both; a debtor that sends again is one no more; and a lock that lapses under its
holder makes either the holder a debtor or the record stale, since a holder that could
do both was a debtor already.

`SessionProofs` proves, of `SessionLifecycle`'s `Spec`, for every set of sessions,
secrets, participants, workers and loads, hosts that stop anywhere included:

* `LifecycleIsSessionLife`: `Spec => IsSessionLife`, the refinement of `SessionLife`.
* `ClosingAlwaysKept`: `Spec => []ClosingKept`.
* `OldCookieAlwaysRetired`: `Spec => []OldCookieNeverRaised`.

Assumed are `LifecycleAssumption` and `RevocationAssumption`: each handle has one
owner, no handle is the mark of none, what a load names is among what there is, and
bounds are natural numbers. `LifeInv` says of each worker what it relies on of the
records while others change them (`LifeFine`): a close past its record has it ended,
one that calls participants has, of each, that it finished or is still to call, unless
one was missed; a login's handle is its own until its cookie is issued, and has no
record until it saves one. Every such fact lasts (`Lasts`): a session saved once stays
known, one ended stays ended, so `FrameLasts` carries every other worker's frame over
any step. `ClosingKept` is part of it, as a close takes off the list only what ended.
`LifeStepsMap` then shows that each step changes one session's `life` by a step of
`SessionLife`, or none. Cookies have an invariant beside it (`CookieInv`): a raise
holds a secret nobody carries, its session has no login's cookie past its retiring,
and a record read raised was read of a session whose login's cookie is retired.

`ListingProofs` proves, on top of it and as generally:

* `RevokedLoginAlwaysShut`: `Spec => []ShutByBoundary`.
* `LifecycleTypeCorrect`: `Spec => []TypeOK`.
* `OpenAlwaysListed`: `Spec => []ListedOrClosing`.
* `CompleteAlwaysCloses`: `Spec => [](Roomy => CompleteClosesAll)`.

`ShutInv` says that a login past its check is shut by whatever landed since, which is
later than its opening, and that only what is shut so, or has no boundary after its
proof, is issued. `OwnInv` says that a login holds only its own subject's sessions, and
`CoverInv` that an open session that may be entered is covered: `CoverStays` goes
through every step that takes a session off a listing and finds it in hand, kept or
ended. Its premise, that no host stops there and what cannot be listed can be ended,
is that of the property. `CompleteInv` says of a revocation that every session it owes
a close is closed, closing, listed until it reads the listing and ahead of it after
(`OwedFine`). It holds where a listing has room for every session (`Roomy`); where it
has not, a login puts one back behind the revocation's read, which is the finding of
`session_putback_missed`.

`CodesProofs` proves, of `CodeGrant`'s `Spec` and so of families with codes
beside them, for any number of workers, families, sessions, codes and tokens, any
caps of the lists, and whatever fails or stops:

* `SpentForGood`: `Spec => []SpentOnce`.
* `ClosedForGood`: `Spec => []ClosedKeepsNone`.
* `TakenBackForGood`: `Spec => []TakenBackHasNone`.

Assumed is `FamiliesAssumption`: the marker of a family without a session names
none, and a load's names are among those there are.

One invariant, `FamilyInv`, serves all three. A worker being a stack of calls, it
says of each stack (`Good`) what each frame knows (`Fine`: a revocation past its
mark has ended its family; a start past the list is listed), what the frame on
top may take for done (`Ready`: a close that goes through what it found lacks
none; a redemption taken back has its family ended) and what a frame may count on
from the one it called (`Over`: the revocation a close waits for is of the very
family it took off its list). All of it is of facts that last (`Grows`): a family
ended stays ended, a redemption's mark stays, a family on a session's list leaves
it ended only, and nothing is let through to a session that closes (`Bars`). So
no step of one worker undoes what another's stack says (`GoodStays`), a call made
or answered keeps its own (`GoodPush`, `GoodReturn`), a throw leaves the one frame
that catches, which is the last (`GoodThrown`), and `QuietInv` brings these
together: a step that only adds to the lasting facts keeps `FamilyInv` if the
frames it leaves are good. Two steps do more, and have their own proofs: the
record of a family placed (`FoundInv`), and the rotation (`RotateInv`), where the
secrets rotated from stay below the one that is current (`SpentFine`).

And, of the same `Spec` and as generally:

* `AnsweredOnce`: `Spec => []RedeemedOnce`.
* `VoidedForGood`: `Spec => []VoidedKeepsNothing`.

Assumed is `CodesAssumption` beside the above: no token's name is the mark of
none. The invariant, `CodesInv`, adds to `FamilyInv` what codes' records are
(`CodesFine`: what was answered is the token the record noted; a code settled has
that token denied and its redemption taken back), what each frame knows of its
code (`Knows`: a redemption under way has used its code up and nobody was
answered for it; past its note, the record holds its token; a settling past the
denial has denied what the record noted), and that two workers never hold frames
that own one code (`Shares`), the worker that is to save it and the one that used
it up being its owners. Uniqueness of owners is what makes the rest inductive: a
code's record moves one way (`CodesGrow`), but only its owner may note a token or
answer, so what any other worker's frame knows stays (`KnowsStays`). Every step
of families leaves codes alone and only drops frames, makes plain ones or has a
failed redemption void its code (`Aside`), so one lemma (`AsideInv`) sets all of
them aside. That a settled code has no live family then is `TakenBackHasNone`.

And, of the same `Spec` and as generally:

* `CleanedForGood`: `Spec => []CleanupReachesAll`.

Assumed is `FamiliesAssumption`, whose mark of no family (`"none"`) names none. The
invariant, `CleanInv`, adds to `FamilyInv` the whereabouts of every access token. A
token drawn is carried by one worker (`Carrier`) until a response holds it, and it is
let out only once the family's list was seen to hold it with the family live
(`Opens`): the check after the recording is what the property hangs on. So a
revocation that marks the family later finds each token that is out on the list, and
each step of its pass (`Passes`, `Within`) covers all of them: with what it has in
hand, with what awaits, or denied; it leaves the settle list only when nothing else
is left. What a frame saw lasts (`Lasting`) against every worker that does not carry
the token in question, and `Rests` says of a frame that waits that the one it waits
for is about the same token, so that what the one on top saw is what the one below
goes on with.

* `CodesTypeCorrect`: `Spec => []TypeOK`.

Under the same assumption, by `TypesInv` on top of `CodesInv`. What a field may hold
comes from a frame made long before, so a frame is a record of one of the named kinds
(`Frames`), and each step is shown to make only such frames. A call has a rank below
its caller's (`Rank`, `Stacked`), and a code is settled at the bottom of its stack or
one above it, so no stack is deeper than four. That no family rotates past
`MaxSecrets` needs more than kinds: a live family's current secret is the last that
was drawn (`SpentFine`), and no use begins with the last that may be.

`DevicesProofs` proves `OneDecision`, `Spec => []DecidedOnce`, of `DeviceGrant`'s
`Spec`, for any number of workers, devices, sessions and tokens, any load, and
whatever fails or stops; nothing is assumed of the constants. Its `IInv` says of a
worker's stack (`Shape`) that only its last frame is about anything but the token
sets, and of each frame what it knows of its device's record (`Knows`): a browser
about to be told has marked the record with its decision and nobody was told of
that device; a poll past the take has the record taken and nobody was answered for
it. A record moves one way, from pending to decided to taken, and keeps the
session of an approval, so those marks last (`Marked`, `Taken`). What makes it
inductive is that no two workers hold frames about to write the same thing of one
device (`Alike`): the rewrite that decides, or takes, is made from the state it
read, so the second finds it gone. Steps of the token sets leave all that alone
(`Quiet`); a throw leaves only the frame that catches, which is the last (`Thrown`).

It then proves `NoneAfterClose`, `Spec => []ClosedKeepsNone`, of the same
`Spec`, so for session grants and polls at once; assumed is
`SessionTokensAssumption`, that a load's tokens are tokens. That a close denies
what it read says little by itself: a token may be recorded behind the read,
pushed out of the set between its two reads, or settled by a sweep that took it
first. So `TInv` adds to that `IInv`: a token made has one maker, whose frames alone
do anything of it (`Shared`); the frame that records it is on top of the one that
goes on once it is recorded (`Linked`), so it is recorded before it is given; one
recorded is held, awaits or is denied ever after (`Kept`), and what awaits leaves
only once it is denied; and what a close still owes covers all that was given of
its session (`Owes`), at each of its four steps: in its hands, denied, or, until it
reads what awaits, awaiting. Nothing is added to what was given once the session
enters no more (`GivenStays`). `TokenStep` shows that a step of one worker which
touches only its own tokens keeps the others' frames, and `Above`, `RecordsOn` and
`Bottom` apply it to the three places a frame may be at.

On the same `IInv` rest two more, under the same assumption:

* `DevicesTypeCorrect`, `Spec => []TypeOK`, by `YInv`. What a variable may hold
  comes from frames that were made long before, so `Typed` says of every frame of
  every stack what each of its fields is; tokens are among the ones drawn, which
  only grow. A call's rank is below its caller's (`Ranked`), so no stack is deeper
  than three.
* `AwaitingAlwaysFollowed`, `Spec => [](Steady => AwaitingFollowed)`, by `FInv`.
  Two things keep what was pushed out followed, and one fault undoes one of them at
  most: its session is listed, or somebody is about to look at it again (`Listed`);
  and somebody has it in hand, from the add that pushed it out to the end of that
  one's settling (`Handled`). Neither is an invariant alone; that one of them holds,
  and both before the first fault, is. `Steady` is the loads of the runs: one fault
  at most, and none between an add and its listing. Without it the property is
  false, as the section on what the properties do not say tells.

`NoticesProofs` proves, of `LogoutNotices`' `Spec`, for any hosts, clients, shards,
times and loads, from `NoticesAssumption` (times and shards are numbers, the clock
tells at least one, a load's clients and hosts are clients and hosts):

* `NoticesTypeCorrect`, `Spec => []TypeOK`, by `TInv`: a notice ends within
  notify-within of a time the clock told (`Dated`), so one put off has a time of
  its own; what is tried does not wait any more; and a timer's job is a sweep,
  under way exactly while `current` says so.
* `StopsAreQuiet`, `Spec => []StoppedIsQuiet`, by `QInv`: from the moment the stop
  hook is called the host's timer is idle, for the tasks were waited for, and a
  delivery begun before is one the hook waits for. The order of `stop.ts` is what
  makes it inductive: tasks first, then hooks.
* `NobodyForgotten`, `Spec => []NoneForgotten`, by `KInv`. A step drops a notice only
  where it is followed (`Drops`): its client is settled, its end is past, or a later
  one of the same end is kept. That alone keeps every client covered that was
  (`CoveredKept`), however many hosts put one notice off at once. A close that keeps its
  notices knows each client answered either covered or still in its hands
  (`Knows`), as nobody is answered once the session lets in no more, and each one
  answered was remembered first.

## Only model-checked, and why

Liveness and fairness are TLC's: `ClosingsFinish`, `EndedTokensDenied`,
`VoidingsFinish`, `PushedOutDenied` and `NoticesEnd`. TLAPS reaches neither weak
fairness over `ENABLED` nor the well-founded arguments these need. Every invariant and
every step property that a run checks is also a theorem.

## What the properties do not say

Each of these was met while modelling, and each is why a property has the
premise or the limit it has.

* `AwaitingFollowed` holds though a call fails or a host stops anywhere but
  between an add that pushed something out and its listing of the session: there,
  what was pushed out awaits in a set no sweep knows of until the session closes.
  `session-tokens/src/module.ts:90` states that window. Two faults in a row lose
  it too, so each mix has one.
* `RotatedNeverSent` is about a session that is open and was never short of a
  requirement. One that falls short while a renewal is under way refuses the
  renewal's write, and what the upstream rotated is lost; requests that had begun
  by then may each send the old token, whatever the lock does.
* A disconnect that finds its session short of a requirement, or closed, removes
  the whole record, entries of another login written since included; the contract
  of `upstreams` speaks of one entry. The property `NeverBroughtBack` is about what
  comes back, not about what goes.
* A receive that stops after its write and before it looks at the session again
  leaves the record of a closed session until its lifetime ends, and so does one that
  stops while it takes the entry out. `ClosedKeepsNoTokens` has the premise that the
  load stops none there (`TakesOut`); stalls, and stops elsewhere, are within it.
* `GuessesBounded` bounds wrong guesses in a window, not consecutive ones. An
  attempt handed back after another's success ended the run it was counted in
  shortens the next run by one, so `hardLimit` failures in a row may take one more.
* `NoticesEnd` is about a deployment where some host sweeps.

## Not modelled, and why

* Writes of several records at once (`changeTogether`), used by users, passkeys
  and mfa's claims on unique values: the store's model has one entry, and the
  factors modelled have no such value.
* Records of formats a host cannot read, and values too large.
* Clocks of hosts that differ. The code adds allowances (`allowanceMs`,
  `denylistAllowanceMs`); the models have one clock, or none.
* Lifetimes of families, access tokens, links and denylist entries: each is kept
  longer than what it guards, so dropping it changes nothing. A code's record,
  which may end while it is redeemed, does end (`CodeDrops`).
* Of second factors: transactions' start, deadline and listing, challenges sent,
  the witness of lost factors, rename, secrets sealed again; the end of a lockout's
  key and of a release's id, each kept longer than what it guards where windows
  are the seconds the section takes and attempts are a millisecond apart.
* Of upstream tokens: sealing, entries a host cannot open, other logins' entries
  in the same record, when a token is due. The upstream is taken to rotate each
  refresh token, the case that costs most.
* Of logout: the logout request's own checks and pages, and the clients a full
  list of a session's relying parties pushes out.
* Of devices: the polling interval and the form's secret.
* The minutes and hours of a closing's back-off: a sweep may or may not take one
  up.
* Signatures, parsing, pages and wording.

Most of the repository is not modelled because it keeps no state that steps race
on: parsing, signatures, pages, transports, sections, catalogues of errors,
tooling, test kits and templates that only name a space. `PROJECT.json` lists the
components with the reason for each.

## Plan

1. *Done:* store, records, sessions with revocation, families and codes, session
   tokens with devices, logout notices with the kernel's ticks and stop, upstream
   renewals, second factors with lockouts.
2. *Next to model:* a store of two entries written together, and on it mfa's
   claims, users' names and passkeys; federation-grants' intents and exchange on
   `UpstreamRenewal`; the key cache of external-jwt.
3. *To prove:* what item 2 adds, as it is modelled; and of the liveness properties
   what is not about fairness: that whatever waits to be denied, voided or closed
   stays on a list some sweep or tick still reads until it is.
