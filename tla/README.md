# Open Banking Data Ingestion: verification project

TLA+ models of the parts of obdi where several processes, files, answers and
failures meet; TLC runs over small instances of them; TLAPS proofs of what
matters most for every instance. Paths below are relative to the repository's
root (`src/obdi/...` is the Python package, `applier/...` the Node program that
writes Actual Budget).

## 1. Inventory

obdi pulls bank data through aggregators and bank APIs, takes exports and
statements a person imports, and keeps everything twice: layer 0, the raw
artefacts exactly as they arrived, and a derived layer of rows that can be
thrown away and replayed from layer 0 at any time. A second container, the
applier, pushes rows into Actual Budget and keeps the two aligned. The processes
share one SQLite store and a directory of small files.

| part | state it keeps | operations | talks to | what is hard | what makes it correct |
|---|---|---|---|---|---|
| cooperative leases (`ingest/leases.py`, `applier/lease.mjs`) | one JSON file per lease | `acquire`, `acquire_exclusive`, `release`, `held` | every other part asks them | file-system calls of several processes interleave; a process dies between two of them; a lease expires under its holder | the lease of a living holder is readable until its TTL; a dead one never wedges anyone |
| coordination of one store (`cli.py`, `fingerprint.py`, `ingest/rebuild.py`) | leases, `rebuild-status.json`, the code fingerprint, the derived layer | press, background rebuild, startup check, pull cycle, attended fetch, backfill, shell rebuild, deploy | leases, store | check-then-act between threads and containers; crash or exception after the wipe | one rebuild at a time; the stamp is never a lie; a half-built layer is guarded; the store heals |
| rows of an account (`ingest/matching.py`, `pipeline.py`, `identity.py`, `pending_lifecycle.py`, `rebuild.py`) | `raw_artefacts`, `transactions`, `transaction_sources` | land, reconcile a batch, void what vanished, import, replay | pull, imports, rebuild | pending and booked lists that are not one snapshot, ids that change at settlement, sources that state none, look-alike payments | one row per payment, identities unique, settled stays settled, a replay gives what was lived through |
| request queue (`export/actual_push.py`, `cli.queue_actual_*`, `applier/watcher.mjs`, `empty.mjs`, `envelope.mjs`) | requests, results, account map, pending bindings | queue push, audit or empty; settle; merge; provision; answer | callers, applier | either side dies anywhere; a request runs twice; files are replaced under a reader | accounts never share an Actual account, live links are not forgotten, provisioning converges |
| budget alignment (`applier/lib.mjs`, `transfers.mjs`, `audit.mjs`, `align.mjs`) | rows and transfer links in Actual | push, prune, align | queue, Actual's engine, the person | a pair is two updates; deleting a linked row deletes its partner; a person edits too | hands off what is not ours, only confirmed orphans go, pairs settle, "complete" is true |
| pulls of a feed (`ingest/cursor.py`, `pull.pull_starling`) | a cursor with a history of anchors per category, the sweep's stamp, layer 0 | incremental ask, canary, steps back, full sweep, range ladder, explicit window, land, move the cursor, stamp, reconcile | provider, scheduler, rebuild | four commits per answer and a death between any two; a filter that begins too late; changes that show late; refusals | nothing listed falls behind the cursor unfetched; what is listed reaches the rows |
| what was asked for (`ingest/tiers.py`, `asked_coverage.py`, `pull_truelayer`) | tier stamps, the attempt ledger | choose a tier, ask each account and card, heal holes, stamp | provider, scheduler | refusals part-way, a cycle over midnight, a budget of healing asks | a stamped cadence was asked in full; holes close |
| a closed Space's history (`ingest/space_windows.py`, `_pull_closed_space_history`) | the attempt ledger | lay windows over gaps, ask, narrow, stop, resume | provider | range, quota and settled refusals; resuming from the ledger alone | nothing is asked for twice; the history ends |
| connections (`ingest/connections.py`) | one JSON file of tokens | load, put, save, rename, refresh | pulls, the authorisation callback, a rename | read, change and write of one file by several processes; rotation spends the old token | outside the window of a write, the newest token is on disk or about to be, under one name |
| standing checks (`verify/standing_data.py`) | a memo keyed by the store's epoch, flights under way | read the key, hit, join, lead, compute, keep | pages, every writer, rebuild | the store changes, rolls back or is rebuilt during a computation | no page is older than its rows; nothing half-built is kept; nobody waits for ever |
| providers, parsers, analysis, pages, core | none of their own | pure functions | all | formats | tests cover them |

`PROJECT.json` lists all parts with what is and is not modelled, and the hazards
at their lines.

## 2. Plan

Order: what every other part relies on first, then the largest sources of
interleaving, then the algorithmic core, then what feeds it.

1. `TimedLease` (abstract) and `LeaseFile` (its files), refinement; proofs.
2. `StackCoordination`: composes the leases, reduced to what `TimedLease`
   promises, with the rebuild, pull, backfill and deploy; proofs.
3. `ActualQueue`: the file queue between obdi and the applier; proofs.
4. `AlignBudget`: what the applier then does, one call at a time; proofs.
5. `Matching` (the pure algorithm) and `AccountRows` (one account's life on it);
   proofs.
6. `FeedCursor`: the pull of a feed under its cursor; proofs.
7. `Spans` with `AskedCoverage` and `SpaceHistory`: what was asked for; proofs.
8. `ConnectionStore` and `StandingMemo`: shared files and memos; proofs.

All eight are built. What a continuation would take up, in order: an abstract
ledger of payments that `AccountRows` implements while one source reports;
`Matching` extended with the bank's own feed (links, settlement days, second rows
absorbed, the folds that follow a batch); the export's replay of the budget
(`export/replay.py`).

## 3. Modules

| module | lines it stands for | state and actions |
|---|---|---|
| `TimedLease` | what readers of a lease assume | an entry with an age, who is inside; take, renew, release, die, sweep, age |
| `LeaseFile`, `MCLeaseSole` | `ingest/leases.py` 31-143, the same calls in `lease.mjs` | name, temporary name, inodes and their contents, each caller's descriptor and place; one action per file-system call (create, write, rename, unlink, read), crashes, and the clock as ages up to TTL + 1 |
| `StackCoordination` | `cli.start_background_rebuild`, `serve`, `_pull_everything`, the backfill, `fingerprint.py`, the wipe and stamp of `rebuild.py`, `acquire_exclusive` of the rebuild lease call by call | leases as none/live/stale (a file created and not yet written reads as stale), status, stamp, derived layer, places of each rebuilder, of the pull cycle and of the attended fetch; a check and the act it guards are two actions wherever the code has two steps |
| `ActualQueue`, `MCActual` | `actual_push.py`, `queue_actual_push`, `_audit`, `_empty`, `watcher.mjs`, `empty.mjs`, `envelope.mjs` | the account map, pending and claimed binding files (whole or torn), queue, results, Actual's accounts, each caller's and the applier's place |
| `AlignBudget`, `MCAlign` | `linkTransfers`, `judgePair`, `pruneAccounts`, `unlinkLeg`, `align.mjs` | expected rows and pairs, rows and links in Actual, the request, the applier's readings and what it holds in hand; one call on the budget per action |
| `Matching` | `matching.py` (could-be rules, claims, exact and near tiers, set assignment, free occurrences), `pipeline._reconcile`, `resolve_vanished_pending` | no state: `ReconcileBatch(rows, order, records, list, artefact)` is one response written in one transaction |
| `AccountRows`, `MCRows` | `pull_truelayer` 327-460, `import_file`, `_rebuild_from_raw`, `land_artefact` | what the bank states, artefacts in arrival order, rows with the artefact and id that founded them and their sightings, the pull's place |
| `FeedCursor`, `MCCursor` | `cursor.py`, `pull_starling`, the feed's part of a replay | what the provider lists, layer 0, rows, the cursor and its anchors, the sweep's age, how far back a landed rung reached (`bound`), the pull's place and answer; one action per ask, per kind of refusal and per commit |
| `Spans` | `space_windows.uncovered`, `plan`; `asked_coverage.coverage_of`, `heal_plan` | no state: arithmetic of days asked for |
| `AskedCoverage`, `MCCoverage` | `tiers.py`, `asked_coverage.py`, the asks of `pull_truelayer`, `_heal_unasked_spans` | days asked for and held per account, stamps, who is still to be asked, the calendar |
| `SpaceHistory`, `MCSpace` | `_pull_closed_space_history`, `space_windows.py` | the ledger (landed, refused, settled), what is held, what is in the rows, the rung and the window in hand |
| `ConnectionStore` | `connections.py`, `ensure_access_token`, the callback, `rename_connection` | the file, what each caller read and is about to save, the newest token of each authorisation; nothing keeps one caller's steps apart from another's, so three histories say what met: names written behind a save (`behind`), consents whose newest token went that way or died (`gone`), entries that moved while a pull had them in hand (`split`) |
| `StandingMemo` | `KeyedMemo`, `epoch_for`, the epoch triggers of `store.py`, `rebuild_hold.py` | the epoch and versions of the rows, a write in hand, the rebuild with its lease and status, the memo, each request's call |
| `*Proofs` | | see section 6 |

Actions carry the names of the code's functions and steps; `PROJECT.json` "map"
gives the lines of each definition. A definition marked `mutant` (or one in a
comment that says so) is a wrong version of the one after it: with it in place
the named property must fail, which shows that the property looks at that code.

What the models abstract:

- `LeaseFile`: JSON is torn or whole; `taken_at` is an age; TTL a small number.
- `LeaseFile` ends a call where the code raises to its caller (`RenameFails`); what
  the caller does with the exception is not modelled.
- `StackCoordination`: a press whose lease file was unlinked or replaced before it
  wrote it is "orphaned": what it writes is under no name. The other leases, which
  nobody races for, are taken in one step. Rows are "replayed by this code, by
  older code, or in part"; `diverged` records that somebody wrote rows while a replay held them
  in memory.
- `ActualQueue`: an Actual account is an id with a name and "never made",
  named, or deleted; each read-modify-write of the account map is one step; rows, prunes, the
  marker, snapshots and pauses for a stack update are left out.
- `AlignBudget`: a row is present or not, linked or not, locked (reconciled) or
  not. Amounts and dates, split rows, orphans explained by history, clearing a
  whole account, the marker, `importTransactions`' own matching, and a person's
  edits during a job are left out. A request always carries a confirmed number of
  removals; one without (`confirmed` absent in the code) is as one whose number no
  account exceeds.
- `Matching`, `AccountRows`: one account, all payments of one size (what cannot
  be told apart by size), an amount that is as held or amended, a wording that
  differs between sources or does not. Left out: the bank's own feed with its
  links, settlement days and second rows, typed rows, Spaces and internal legs,
  records without an id from the aggregator, reversals, the review queue, and
  the passes after a batch, which have nothing to act on without those.
  An artefact is its list and its items; the code's key is the digest of the bytes
  alone, so a booked and a pending answer that agree byte for byte would be one
  artefact in the code and are two here.
  After a row is overwritten (section 7) the code's index keeps what it knew of
  that row until the batch ends; the model's index is exact.
  `BankMoves` is limited to the moments before a question: the bank's state is
  read nowhere else, so later moves would only commute.
  The order in which the stored rows are asked is a set of pairs that a book
  carries: by date and then insertion where a live batch loads them
  (`LoadOrder`), of arrival across batches where a rebuild keeps its index. The
  field `tied` notes whether that order decided anything in a batch. The variable
  `odd` is a history of what made answers less than plain: a repeat, an empty or a
  stale pending list, a pull or a write cut short, an import amid a pull, a row
  met again ("recurs"), and a tie decided by an order the replay will not have
  ("reordered").
- `FeedCursor`: one category; an item is an identity with the stamp of its last
  change. Declined items and the folds after a pull are left out.
- `AskedCoverage`: days, not hours; what a landed ask returned is in layer 0 as
  the days it covers. Balances and statements are left out.
- `SpaceHistory`: days; one Space. Rows stand for the windows they came from. The
  span is fixed: in the code (`span_of`) it moves with the known movements and,
  for some days after the last of them, with the clock.
- `ConnectionStore`: a token is the authorisation it belongs to and how often it
  was rotated. File modes and the refusal of a readable file are left out.
- `StandingMemo`: the rows are a version; a computation reads it twice.

## 4. Runs

| run | instance | properties | shows |
|---|---|---|---|
| `lease_sole` | 1 contender, 3 inodes, TTL 2 | TypeOK, OnlyTheClockHides, ImplementsTimedLease | through its own crashes and renewals a contender's files behave as the timed lease |
| `lease_wedge` | 1 contender beside 1 plain `acquire`, 4 inodes, TTL 1, fair | NeverWedged | nothing that dead callers leave keeps the lease from being held again and again |
| `stack_sole` | 1 press and 1 shell kept apart, failures, the leases of `pull-cycle` and `post-auth-backfill` may lapse, patient person | TypeOK, StampHonest, CrashStaysGuarded, Recovers | the stamp never lies, a crash leaves the half-built layer guarded, the store becomes whole again |
| `actual_sole` | 1 caller at a time, 2 accounts with colliding labels, 3 ids, a queue of 2, 1 empty that may raise or stop partway | TypeOK, NoSharedImport, KeepsLiveLinks, NoPushOverARuin | through deaths on either side and repeated requests |
| `actual_converges` | the same with a queue of 1, pushes that may raise and no empty, fair | Converges | every named account ends with an Actual account of its own |
| `align_sole` | 2 accounts, 4 own rows and a person's, 2 changes, 1 failure, fair | TypeOK, OnlyConfirmedOrphans, OrderFree, CompleteMeansAligned, HandsOff, KeepsPairs, PairsSettle | nothing of somebody else's is touched, the outcome does not depend on the order, pairs settle |
| `rows_sole` | 2 payments on 2 days, 3 events (pulls, exports, rebuilds, pulls cut short) | TypeOK, NoneTwiceOneSource, OwnRow, OneIdentity, ReplayReproducesPlainly, SettlementStands | rows stay apart and complete, and a history without surprises replays to itself |
| `cursor_sole` | 2 items, stamps 0 and 1, overlap 0, late by 1, a filter that may begin 1 late, rungs of 1 and 0, range refusals of all that reaches back further than 0, 1 anchor, explicit windows, replays, 1 death, fair | TypeOK, NothingSkipped, RowsCatchUp | nothing that showed in time falls behind the cursor; everything listed reaches the rows, though the whole ask may be refused for ever; both but for what is older than a landed rung |
| `coverage` | 1 account and 1 card, 6 days, all tiers, bounds 1 and 2, 1 death, fair | AccountsCovered, HolesClose | a stamped cadence was asked in full; holes close |
| `space_history` | 7 days, 3 rungs, 2 asks a cycle, limits 0 to 7, 2 hitches, fair | NoDayTwice, HistoryFinishes | asked for once, below what was refused, to the end |
| `connections` | 2 names, 2 callers, 3 authorisations, 2 rotations, 1 death | ConnectionTypeOK, TokensKept, OneNamePerConsent | with every overlap of pulls, authorisations and renames: a token is lost only by a death, under its own name, or in another's window between read and save, never to the length of a pull; a second name comes only of a move under a pull |
| `memo` | 2 requests, 2 versions beside the first, 1 fault, fair | NothingOlder, KeptWhole, EveryCallEnds | no page is older than its rows, no half-built layer is kept, nobody waits for ever |

Why the bounds are enough to be of interest:

- Leases: an inode beyond the number of open descriptors and names is never
  needed (`NewInode` reuses what nothing refers to). TTL 2 tells "exactly as
  old as the TTL" from older and younger.
- Stack: every step of a press interleaves with a pull cycle and an attended
  fetch, one each as in the code. The press and the shell take turns; with
  `Beside = TRUE`, or two presses, see section 7.
- Queue: two accounts are what sharing needs; a third id lets an account be made
  again after an empty, and with colliding labels both accounts meet in it. A
  queue of two holds the request under way and the one behind it. A caller may die
  with a claim file about, which leaves two. The two accounts' labels are alike, so
  their symmetry is used.
- Budget: two debits and two credits give two pairs that can swap partners,
  and the fifth row is a person's. Two changes re-pair them once each way. One
  failure or death is enough to leave each half-done state. `MaxShown` 2 allows
  both rows of an account to be confirmed.
- Rows: two payments of one size on one or two days are the smallest case in
  which each of exact, near, set assignment, claim and free occurrence decides
  something. Three events include pending, settled and stale in turn, an export
  between two pulls, and a pull after a rebuild. `WindowDays` is 7 as in the code, so both
  days are in it. The replay property was also explored to four pulls and
  two exports, with three days and a window of one day, and with four payments
  (an export and one list) where ties among three rows are decided.
- Cursor: two items are an anchor and one that may fall behind it. Overlap 0
  with a delay and a shift of 1 puts each fault just past what the overlap
  absorbs; of two rungs the wider may be refused for ever, so the ladder steps, and
  what it leaves behind (stamp 0) is half of what there is.
- Coverage: five days after the first are wider than the weekly window and the
  reach, so holes open and go out of reach; a bound of 1 leaves a hole for the
  next cycle.
- Space: 7 days under rungs 4, 2, 1 need more cycles than one; a limit of 0
  refuses even the shortest rung, which excuses `HistoryFinishes` and must not
  break `NoDayTwice`.
- Connections: two names are two banks, or one that is renamed; a third
  authorisation lets an old one meet two newer. Two callers meet at every pair of
  places, the two reads and saves of `put` among them.
- Memo: the computation of one request spans two commits of others.

Deadlock checking is off in five runs whose events run out (`rows_sole`,
`cursor_sole`, `coverage`, `space_history`, `connections`: bounded events,
stamps, days, a finished history, authorisations); the others check for deadlock.

## 5. Fairness and why the code justifies it

- `LeaseFile`: a caller's call goes on (threads are scheduled), the clock
  ticks, and a contender asks again (pages and the scheduler do). Dying is never
  assumed to stop; `NeverWedged` speaks of behaviours in which it does.
- `StackCoordination`: rebuild threads run on, the scheduler takes and ends its
  cycles, the clock ends leases that nobody renews, compose starts the web
  process again. A person presses only in `PatientSpec`, strongly: "keeps asking".
- `ActualQueue`: `cli._pull_everything` queues a push after each cycle (strong:
  it may be refused in between), calls and the applier's loop run on.
- `AlignBudget`: the applier works its job off, and a push is pressed again and again.
- `FeedCursor`: the scheduler begins a pull again and again (strong: explicit
  windows take its place meanwhile), a pull's own steps run on, and days pass. The
  cursorless ask may be refused for its range for ever, as `pull.py` 1210-1220
  records, and so may every rung that reaches back further than `MaxRange`; an
  incremental ask may be refused for ever for any reason. What is assumed
  (strong) is that the cursorless ask, or a rung, that is asked again and again
  is not for ever refused for another reason (a quota, an error) before the
  provider answers it or refuses its range.
- `AskedCoverage`: cycles begin and go on, days pass; an ask that is repeated is
  answered in the end (strong), a refused account or pending list included.
- `SpaceHistory`: cycles go on and answers come unless a bounded hitch comes
  between; the retry period of a settled refusal passes, as `blocked` reads it
  from the clock.
- `StandingMemo`: request threads run on. Nothing makes anybody write.
- `Matching`, `AccountRows`, `ConnectionStore`: safety only.

## 6. Proofs

All leaves are checked by tlapm; nothing is taken on trust. The constants are
arbitrary throughout: sizes named in section 4 play no part here.

`LeaseFileProofs`, for every TTL, set of files and set of callers:

- `TypeCorrect`: `Spec => []TypeOK`. Needs `TriesLeft` beside the types: the
  loop of `acquire_exclusive` is inside its body only with an attempt left.
- `SoleCallerVisible` and `SoleCallerImplements`, where there is one caller
  (`SoleCaller`): `OnlyTheClockHides`, and that each step maps to a step or a
  stutter of `TimedLease`. The inductive invariant `SoleInv` says what each
  place of the call knows of the name, the temporary name and its descriptor:
  for instance that a caller about to write its payload holds the inode the name
  resolves to. The types alone do not imply the property, since a caller could
  hold an unlinked file. With two contenders it is false: see section 7.

`SharedStateProofs`, of `StackCoordination` for every number of presses and shells:

- `TypeCorrect`.
- `HonestStamp` and `SingleRebuild`, assuming `LeaseHonoured` (a shell's rebuild,
  which takes no lease, is kept apart, and a living rebuild renews in time), of the
  behaviours in which `ReplacedAlone` holds throughout: a rebuild past its lease is
  alone, so nobody wipes or stamps under it. The lease is taken as
  `acquire_exclusive` takes it, in separate calls, and its mutual exclusion is not
  unconditional: `ReplacedAlone` says that no two presses are at once in the window
  it leaves open (`leases.py` 92: a file judged dead and not yet unlinked, or
  created and not yet written). Anywhere else in the acquisition any number of
  presses race, and that they cannot both come through is what is proved. Without
  `ReplacedAlone` both theorems would be false (section 7). `RebuildInv` ties
  the lease, the places in the acquisition and in the section, the stamp and the
  layer to each other; the stamp's honesty needs the exclusion, and the exclusion
  needs the lease to be live whenever somebody is inside.
- `GuardedAfterCrash` adds that there is one press at a time: `CrashStaysGuarded`.
  The invariant says that a layer in part is either under a living section, whose
  lease or "running" guards it, or was left by a death, after which nothing
  writes another status; two presses break just that (section 7).

`SharedStateProofs` again, of `ConnectionStore` for any names, callers and
authorisations (its `ConnectionInit`, `ConnectionNext` and `ConnectionSpec` are
named so that one module can hold both):

- `ConnectionTypes` (`ConnectionTypeOK`).
- `NothingDropped` and `NamesApart` (`TokensKept`, `OneNamePerConsent`), in any
  interleaving of any callers: no exclusion among them is assumed, as the code has
  none. The invariants compare what each caller has in hand with the newest token
  of its authorisation, and what it is about to save with the file: where the two
  differ, somebody saved since the caller's own read and `behind` has the name.
  So what `put` promises is exactly what is proved, that the window is the write
  itself; what can be lost in that window is in `gone`, no more.

`AlignBudgetProofs`, for any rows, accounts, changes, faults and counts:

- `TypeCorrect`, including that the pairs of the store and of a request stay
  one-to-one, from which every argument about "the other pairs" follows.
- `RemovesOnlyConfirmed`: `OnlyConfirmedOrphans`. The invariant is about all that
  is leaving (removed, planned or in hand): orphans of obdi's own, no more per
  account than confirmed (a finite-set argument), and unlinked by the time of
  the delete, so that Actual's engine has no partner to delete with it.
- `LeavesOthersAlone` and `LinkedPairsStay`: `HandsOff` and `KeepsPairs` as
  action properties. Their invariant says that every update still to be made
  clears a row the job may touch and no row of a kept pair, although it was
  chosen from a reading several steps old: between the reading and the pairs'
  linking links only go from what was read to nothing, and one pair's updates
  leave the others' rows alone. `JobDoes` reduces each step of a job to one of
  four effects, and each effect is shown to be harmless.
- `CompleteIsAligned` and `OrderIndifferent`: `CompleteMeansAligned` and
  `OrderFree`, from a second invariant (`JInv`) that follows a push and a prune
  from stage to stage: what is released, recorded, linked or still to come
  adds up to `Outcome` of the links read at the start, whichever pair is taken
  first; a pair that was not linkable when it was passed does not become so, nor
  does an orphan that stays come free. The two rest on `NoneIsLinkable`:
  because pairs are one-to-one, a releasable leg's partner is never in a kept
  pair, so releasing one pair does not cost another.

`FeedCursorProofs`, for any items, times, history, ladder, refusals and deaths:

- `TypeCorrect`.
- `NothingLost`: `NothingSkipped`, where `KindProvider` holds: the filter begins
  where asked, or it begins later than the overlap and items do not change. In
  between the canary cannot tell (section 7). Changes that show later than the
  overlap are named (`overdue`) and exempt. The invariant adds that a revision
  once fetched is one the provider listed, that anchors are such revisions no
  newer than the cursor, and that an accepted answer covers everything older
  than its own newest item less the overlap, or than a landed rung's bound
  (`GotSafe`): moving the cursor and
  falling back to older anchors then both preserve it.

`CoverageProofs`, for what was asked for:

- `StampedMeansAsked` (`AskedCoverage!AccountsCovered`), for any accounts, cards,
  windows, cadences and deaths. The invariant follows a weekly cycle: each account
  it has passed was asked up to the cycle's day, which is today or yesterday.
- `HistoryTypeCorrect` and `NothingTwice` (`SpaceHistory!NoDayTwice`), for any
  span, ladder and limit; needs that a planned window lies in a gap and that the
  window in hand still does when it is recorded.

`ActualQueueProofs`, for any accounts, labels, ids, callers and deaths:

- `TypeCorrect`, however many callers.
- `ImportsApart` and `LiveLinksKept` (`NoSharedImport`, `KeepsLiveLinks`) where
  there is one caller at a time (`OneCaller`); `NothingOverARuin`
  (`NoPushOverARuin`) under the same assumption, with raising jobs and deaths
  anywhere. Section 7 says what fails with more callers. The invariant `SInv` follows a link wherever it
  may be on its way (map, pending and claimed files, a caller's hand, a request,
  a result) and says that no two accounts' links meet in one id, that an empty
  is alone in what the applier still has to do, and that what a caller is about
  to forget is gone from Actual. Provisioning a list of accounts is followed
  along the list; its induction goes through the least failing index, which the
  well-foundedness of the naturals gives.

`AccountRowsProofs`, for any payments, days, window and bounds:

- `TypeCorrect`, including that a row carries an id exactly when the aggregator's
  facts stand in it.
- `CountedOnce` (`NoneTwiceOneSource`): while one source reports, booked rows carry
  ids, each the id of a settled payment and no two the same, so there are no more
  of them than settled payments. That a refused write leaves the store as it was
  (`ux_txn_source_id`) is part of the argument.
- `EachItsRow` (`OwnRow`): once an answer is reconciled each of its records has a
  row of its own. This is what the claims of a batch are for (`StepOwns`): a row
  that has answered to one id is not given to a record with another.
- `IdentitiesApart` (`OneIdentity`): no two rows share content key and occurrence,
  since `free_occurrence` always finds a number (`FreeIs`: N rows take at most N of
  the N + 1 numbers tried); and an answer overwrites rows only if some answer
  repeated an earlier one.
- `SettledStays` (`SettlementStands`), as an action property.

  The argument goes up the code. One record joins a row, adds one or overwrites
  one (`Joins`, `Adds`, `Overwrites`), and what each does is all that is used of
  it; a batch is followed record by record (`CourseRight`), a replay artefact by
  artefact (`ReplayRight`). The matcher's choice among rows plays no part: the
  properties follow from what is asked of whichever row is chosen (`SettlesIt`)
  and from how it is written. The invariant (`RowsInv`) adds to the properties
  where rows come from: every row was founded by and sighted in artefacts that
  have landed, and while no answer repeats an earlier one none comes from the
  answer about to be reconciled (`Waiting`). So a record that founds a row finds
  no row under its entity id: one of the same artefact has another id, or, in an
  export, another content key and number (`StepFreshIds`, `StepFreshKeys`).
  A replay reconciles each artefact once, hence meets no repeat.
- `ReplaysAlike` (`ReplayReproducesPlainly`): between pulls a replay of what has
  landed gives the rows there are, in any history in which `odd` is empty, however
  long and of however many payments. Here the matcher's choice matters, and it
  goes through folds over sequences whose order depends on the order the rows are
  asked in. The proof never looks inside those folds: if the order decides no tie,
  their inputs are equal. That is `OrderDecidesOnlyTies`, a theorem of the matcher
  by itself: two books that agree on all but the order have the same exact rows
  and near rows (`RowsSame`), where there is at most one exact row for each record
  and no two rows of one date are offered to a group the plan is the same
  (`PlanSame`), and then each record in turn takes the same row (`StepSame`). The
  inductive invariant (`ReplayInv`) follows a pull: idle, the rows are those of
  the replay of everything landed; with an answer in hand, that answer is the
  newest artefact, and the rows are those of the replay up to it, or of that
  replay with the answer placed and nothing voided yet. One more artefact is one
  more step of the replay (`ReplayAppend`). TLC checked `ReplayInv` on the
  instance of `rows_sole` before it was proved.

`StandingMemoProofs`, for any number of requests, writes and faults: `TypeCorrect`,
`NeverOlder` (`NothingOlder`) and `NothingHalfKept` (`KeptWhole`). Versions only
grow, the committed epoch grows with them, and what is read inside a write that
may still be rolled back is not kept, so a kept value is no older than its key;
a computation that met no rebuild at either end read whole versions.

The assumptions are on constants only and TLC evaluates them in the runs; the
provider's, the lease's and the callers' good behaviour named above is an
antecedent of the theorem, written out in it.

Only model-checked: every liveness property (liveness and ENABLED are out of the
prover's reach). What a fold of `Matching` computes from its data (that the
assignment it finds is the least one) is out of reach too, and no theorem says so;
the theorems need only that equal inputs give equal results. No module uses a RECURSIVE operator. Where a
proof must go along a list (a batch, a replay, a list of accounts) the definition
is a recursive function, whose existence is proved first (`CourseIs`, `ReplayIs`)
and which is then followed index by index (`StepByStep`).

## 7. Divergences met while modelling

Each is a behaviour of a model here, or a reading of the code, that differs from
what a comment or a docstring says. One marked (m) is a definition that TLC finds
violated in the model's own configuration, changed where a change is named.

Leases and coordination:

- (m) `acquire_exclusive` with two contenders (`Pressers` of two): A creates the
  file, B reads it before A's payload is in it, takes it for dead and unlinks it,
  creates its own; both return True. Its docstring says exactly one wins. Likewise
  B may unlink by name what C created since B's reading, and `release` unlinks
  whatever entry the name has by then.
- (m) `SingleRebuild` and `HonestStamp` without `ReplacedAlone`, two presses: for the
  same reason two rebuilds can be in the section at once, where `cli.py` 759-762
  says of the lease that "there is no window between 'checked' and 'started' for a
  second press". One press at a time is the run `stack_sole`; with two, TLC finds
  `OneRebuild` violated, and both properties hold again under `ReplacedAlone`.
- `acquire` from two processes shares the temporary file's name, so a reader can
  see an empty lease for a moment.
- (m) `HalfBuiltIsGuarded`: a rebuild that raises after its wipe releases the
  lease and writes "done", not ok (`cli.py` 890); `rebuild_in_progress_note` asks
  for neither, so pushes and prunes work on the half-built layer its comment
  (`cli.py` 676-681) says nothing may touch.
- (m) `OnlyWriter`: check and act are two steps in the press (`cli.py` 753) and in
  the pull cycle, and a backfill asks nothing about a rebuild (`cli.py` 2005):
  rows are written during a replay that "is the store's only writer"
  (`rebuild.py` 540-543).
- (m) `CrashStaysGuarded` with two presses: the finishing thread releases its
  lease before it writes "done" (`cli.py` 888-891), so it can overwrite the
  "running" of the next, whose death then leaves a half-built layer unguarded.
- A shell's rebuild takes no lease: beside the web's (`Beside = TRUE`) the stamp
  may vouch for a layer wiped since. A restart within the dead rebuild's TTL is
  refused once and not tried again until a press.

Queue and budget:

- `queue_actual_push` settles complete empties first and asks
  `empty_pending_note` second: an empty that completes in between is in neither,
  and the push carries links to deleted accounts.
- `failedResult` (`watcher.mjs` 60) names no kind, so `empty_pending_note` does not
  know the answer to an empty that raised for an empty's and a push is queued after
  it, where the note's docstring says that one "ended partial or failed" blocks
  pushes until an audit. `NoPushOverARuin` is therefore about empties that ended
  partial; empties that raise are in its run, and in the theorem jobs of every kind.
- `Converges` needs calls that do not go on overlapping the applier's work where
  a label is shared; with `Namesakes = {}` it holds without that. Two pushes whose
  labels for one account differ can make two Actual accounts for it. A torn
  bindings file loses the links not yet merged until they are provisioned again.
  After a partial empty and an audit, pushes carry dead links until a person
  forgets them (`cli.py` 3773). Two processes change the account map unlocked.
- `unlinkLeg` that fails between its two updates leaves the leg naming a row
  that is itself unlinked; a prune that comes next deletes that row
  (`audit.mjs` 459), and from then on `judgePair` finds no partner
  (`transfers.mjs` 108): the pair is "linked elsewhere" for ever, where
  `audit.mjs` 430 and `lib.mjs` 203 promise that a later run finishes it.
  `PairsSettle` therefore assumes that no half-done pair is left at rest. For the
  same reason `CompleteMeansAligned` excepts an orphan whose row does not name it
  back: it can come free when another orphan is removed later in the same prune,
  and then waits for the next align (`MaxChanges` 3, `MaxFaults` 1). A
  reconciled orphan that is not linked is deleted.

Rows:

- (m) `ReplayReproducesAbsence`: an empty pending list is landed, then skipped
  (`pull.py` 427) before `resolve_vanished_pending`: the last pending row of an
  account stays pending until some later list is not empty. A rebuild voids it.
- (m) `VoidIsHistory`: void rows remain candidates (`matching.py` 1008); an export
  that lists the payment on the void row's day brings it back as booked, beside
  the booked row the payment already has.
- (a) An export applied between an answer's landing and its reconciling is
  replayed in the other order, and rows founded in the other order. (b) A
  pending list whose bytes were landed before is not landed again, so a rebuild
  brings a released row back. (c) A booked list repeated after an export leaves
  the aggregator's facts live and the export's after a rebuild. (d) Three pulls
  with a settled payment still listed as pending can replay to other merges,
  because a rebuild keeps candidates in arrival order and a live batch reads
  them by date. (e) An aggregator that keeps ids at settlement and lists [new,
  settled] as pending makes the write fail on `ux_txn_source_id`; the pull stops
  and so does each rebuild at that artefact, half built. In the model this is
  `fits` being false. (f) With exports, `NoneTwiceOneSource` without its
  condition fails also where a wrong match makes a held payment's row booked.

- (m) "The tuple cannot legally recur" (`identity.py` 136-139): an entity id is a
  function of the artefact's digest and the record's id (or content and number).
  An answer repeated byte for byte bears the digest it had, and a record whose row
  has since become another payment's is founded under that row's entity id: the
  upsert overwrites it (`store.py` 1509). An export, a booked list, another export,
  and the first again lose a payment; a pending list repeated after the rows it
  founded settled under one another's ids puts a settled row back to pending,
  where `pipeline.py` 786 says settlement runs one way. The model marks such an
  answer ("recurs"): `OneIdentity` says that only a repeated answer can be one, and
  `OwnRow`, `SettlementStands` and the sightings of `TypeOK` are claimed until then.

- The order rows are asked in. `pipeline.py` 629-631 says that identity resolution
  must behave identically by whichever route data arrives, 633-641 that the
  rebuild's `candidate_cache` is sound while it is the sole writer, and
  `rebuild.py` 540-543 that the index in memory and the committed rows cannot
  diverge. Their contents do not, their order does: `transactions_for_account`
  reads through the index on account and date, the cache stays in order of
  arrival. An export lists the 7th before the 3rd, then a booked list names the
  5th, the 3rd and the 7th (one amount, one wording). The 5th is two days from both
  rows and takes the one asked first: that of the 3rd live, that of the 7th in a
  rebuild; the 3rd then takes the other and the 7th founds a row. The facts come
  out the same, but the entity ids and the export's sighting have changed hands
  between payments. TLC finds it with four payments (the fourth is held, so that
  no list is empty): without "reordered" in `odd`, `ReplayReproducesPlainly` is
  violated there.

  The first two, (b), (c) and the last two were also reproduced by calling the
  repository's own functions in that order.

Pulls:

- (m) `NothingSkipped` with `MayAmend = TRUE`, or with three items and an overlap
  of 1: the canary is found by its identity alone (`cursor.py` 133). A filter that
  begins late, but within the overlap, still returns it; so does one that begins
  later still, if the anchor has changed since. Either way what was missed falls
  behind the cursor until the next sweep: hence `KindProvider`.
- The range ladder restores a refused feed at the price of what is older than the
  rung that landed: "deeper history than the accepted bound needs attended
  backfill" (`pull.py` 1218-1220). Until then it is neither asked for nor in the
  rows, while the cursor stands and a sweep counts as done; `bound` marks it, and
  both cursor properties are claimed from there on.
- A pull that dies after landing and before its rows are reconciled leaves items
  that only a sweep or a rebuild brings in; the sweep then says "the rolling
  cursor may be unsound" (`pull.py` 1286-1294) though the cursor was not at fault.
  A death after the stamp leaves them for the sweep after that.
- Healing records the attempt before it lands the answer (`pull.py` 758-768): a
  death in between marks days as asked for whose answer was never kept, and
  nothing asks again.
- The tier is "stamped on COMPLETION: a refused cycle does not burn its tier"
  (`pull.py` 652-655), but a refused card is only noted, and the tier is stamped:
  `AccountsCovered` is about accounts for that reason.
- A closed Space's window is recorded as landed before its rows are written
  (`pull.py` 931-947): after a death in between it is not asked for again, and its
  rows are missing until a rebuild.
- After a range refusal of a window that the gap had cut shorter than the rung,
  the next rung may lay the same window again (`pull.py` 909): asks are spent on
  lengths already refused in that cycle.

Connections and the memo:

- `put` re-reads the file and then writes all of it, and says of itself that this
  narrows the window and "does not close it" (`connections.py` 205-218). (m)
  `TokensKept` without `gone` fails by two puts that meet, with no death: the
  second saves the file as it was before the first. That a newest token is in a file
  or in hand can so be claimed only outside that window.
- A pull that has a name in hand while a new authorisation is put under it puts the
  older one back: the newest authorisation is then lost, as one under its own
  name (`gone`). Nothing in the code compares the two.
- (m) `OneNamePerConsent` without `split`: a pull that has a connection in hand while
  it is renamed (`cli.py` 424) puts it back under the old name: one authorisation
  under two names, of which only one is refreshed.
- `StandingMemo` is told by the lease and the status that a rebuild is at work.
  Where the lease lapses under a living rebuild, or a shell rebuilds without one,
  `KeptWhole` is not claimed.

## 8. Not modelled

Most of the repository's lines are formats and rendering: the pages
(`pages/`, some thirty thousand lines), parsers and providers, analysis,
verification reports and read models are functions of the rows that keep no
state of their own and meet no other actor; a model of them would be a
transcript. Of the two longest files, `ingest/store.py` is largely SQL for
those readers and migrations, `cli.py` largely command lines and reports; what
they add in control (epochs, leases, presses, cycles, queueing) is modelled. This
is why the map covers a small share of the lines.

Backup and restore copy the database as a whole. The sync marker and the
snapshots of the budget, Spaces and their bindings, the folds after a batch and
the export's replay are noted in `PROJECT.json` with their reasons.
