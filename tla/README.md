# A TLA+ development of crypto-alerts

crypto-alerts is one asyncio process behind a PostgreSQL database. A scheduler
wakes every `KRAKEN_POLL_INTERVAL_SECONDS`, asks Kraken for prices, evaluates
every active alert rule against them and notifies the rules' owners; the same
event loop serves the web pages on which rules, featured markets and settings
are edited. There are no threads and no locks. What makes the program hard is
that every `await` lets another coroutine run, that each statement group has a
commit of its own, and that the tick works on objects it loaded before it waited
for Kraken.

The sections say what the system is, which module models which part, what TLC checks on small
instances, what TLAPS proves for every instance, what is still to come, and what is left out.

## 1. Inventory

Paths are relative to `src/app/`. The column "here" says whether the component is
modelled (M), partly modelled (P), or not (-).

| Component | State | Operations | Interacts with | here |
|---|---|---|---|---|
| Alert engine `services/alert_engine.py` | none of its own; `AlertRule` objects of the tick's session | `run_evaluation_cycle`, `_fire`, `_should_trigger`, `_in_active_window` | market data, notification, escalation, event log, `crud/alert` | M |
| Scheduler `services/scheduler.py` | `_cycle_count`, the task | `_loop`, `_tick` | engine, market state, retention, one session per tick | M |
| Alert rules and history `crud/alert.py`, `api/routes/alerts.py` | tables `alert_rules`, `alert_history` | create, update, toggle, clone, delete, `update_rule_state`, `create_history_record`, `cleanup_old_alert_history` | web handlers and the tick, each with its own session | M |
| Market data `services/market_data.py` | `_last_prices`, `_last_updated` | `fetch_prices` | Kraken and its directory; read by engine, market state, pages | M |
| Featured assets `crud/featured_assets.py`, `services/featured_assets.py` | table `featured_assets`; `_cached_symbols`, `_cache_at` | add, remove, toggle, move, seed; `get_featured_symbols`, `invalidate_cache` | admin handlers write, engine and pages read | M |
| Rule simulation `services/simulation.py` | local to one call | `run_simulation` | reads `price_history`; promises to mirror the engine | M |
| Event log `services/event_log.py` | table `system_events` | `_write` and its wrappers | called inside the tick's and the handlers' sessions | P |
| Notification channels `services/notification.py` | none | `send_alert` over e-mail, ntfy, Discord, Telegram | engine calls it in the tick's session; reads settings | M |
| E-mail delivery `services/email_service.py` | the working SMTP configuration in settings | `_send_with_retry`, `send_alert_email` | notification; reads and stamps settings | P |
| Escalation `services/escalation.py` | none | `compute_severity` | reads `alert_history` | M |
| Market state `services/market_state.py`, `crud/market_state.py` | table `market_state`, one row | `evaluate`, `upsert` | last prices, price and alert history, event log | M |
| Price history `crud/price_history.py` | table `asset_price_history` | snapshots, `get_price_minutes_ago`, cleanup, buckets for charts | engine writes; charts, simulation and market state read | M |
| Retention `services/retention.py` | none | `run_retention_cycle` | reads settings; deletes alert history and prices; called by tick and admin | M |
| Backup `services/backup.py` | none | export, `import_data` and its sections | every table | M |
| Kraken directory `services/kraken_assets.py` | in-memory asset list | refresh at start, by a loop, by an administrator | Kraken; forms, market data | M |
| User ticker `crud/user_ticker.py`, `api/routes/ticker.py` | table `user_ticker_assets` | add, remove, toggle, move; the merged page | featured assets, rules | M |
| Settings `crud/system_settings.py` | key/value table | `set_value`, `save_smtp_config`, `save_notification_config` | administrators write, every service reads | P |
| Users and sessions `crud/user.py`, `core/session.py`, `api/deps.py`, `api/routes/auth.py`, `api/routes/admin.py` | table `users`, signed cookies | register, log in and out, expire, administer | every handler | M |
| Login tracker `services/rate_limiter.py` | failures per address and per name, in memory | record, lock, reset | login handler, unlock form | M |
| IP whitelist `core/ip_filter.py` | the list and when it was loaded | `_load_whitelist`, `dispatch` | every request; the settings table | M |
| Start-up, pages, charts, migrations, tests | - | - | - | - |

### What is hard in each, and what makes it right

* **Alert engine and rules.** The tick loads its rules, waits for Kraken, and goes
  on with the copies while owners edit, pause and delete the rows. SQLAlchemy's
  flush writes only the columns that changed and raises when the row is gone.
  One firing is a dispatch and then three commits: history row, its delivery
  status, the rule's state. An exception in any statement ends the whole tick; a
  cancelled task or a crash ends it anywhere. It is right when a rule fires
  exactly on crossings of its threshold, at most once per cooldown, once with
  `send_once`, never after a pause the tick could know of; when the tick never
  overwrites what the owner wrote; when rule and history agree; and when every
  tick ends and every rule gets evaluated.
* **Featured assets.** Writers read the list, compute a `sort_order` from it and
  commit later; the cache is emptied after the commit, and a reader stores a list
  it may have read before. It is right when the order stays strict, a move exchanges
  the two rows it shows, and a cached list is wrong for a bounded time only.
* **Simulation.** The same decision, written a second time with its checks in
  another order. It is right when it fires exactly where the engine would.
* **Scheduler, retention, escalation, market state.** A daily job counted in ticks of
  a process that restarts, steps that are skipped when an earlier one raises,
  windows of history that another job deletes, prices of a request that failed. It is
  right when the daily job is put off by failures only and then deletes what the settings
  say, when no score misses a row that was deleted too early, when repeated alerts are
  loud, and when a market state never changes without its event.
* **Delivery and settings.** Channels that fail one by one, a retry loop inside the tick,
  a session shared with statements that may fail, and a form of several keys that is saved
  with one commit for each while the dispatcher reads the table. It is right when the
  history row tells what was delivered, no enabled channel is passed over, a second copy
  of a mail has a lost answer as its cause, and a section of the settings is one
  submitted form.
* **Backup.** Sections with references between them, committed row by row, while others
  go on working; a failure half way, and a second import of the same file. It is right when an
  instance's own export changes nothing, when a complete import gives back what it can, and when
  a rule nobody deleted is never lost.
* **Prices.** A batch that fails as a whole, answers that leave pairs out, ticks that are late,
  snapshots with a commit each, a directory that two refreshes write. It is right when an old price
  never looks like a move, when the past price that a move needs is there, and when a listing that
  changes stops the prices for a time only.
* **Users, sessions, lockouts.** Requests that checked who is allowed to do what before they
  waited; a session that exists in the browser only, so that answers overwrite it in the order they
  arrive. It is right when an administrator is left, when guessing is limited, and when lockouts
  and sessions end.
* **User ticker, whitelist.** Two tabs editing one order; a page read in three SELECTs; a copy
  of a setting in front of every request, reloaded by several at once.

`PROJECT.json` lists each hazard with its line and the properties that cover it.

## 2. Modules

| Module | What it is |
|---|---|
| `RuleEval` | the pure decision: side, crossing, cooldown, active hours |
| `AlertEngine` | the tick and the handlers over one database, one action per `await` |
| `OneRule` | the abstract promise to a rule's owner: entered once, looks at prices, fires on crossings |
| `AlertEngineImplements` | the engine's row of an unedited rule implements `OneRule` |
| `Simulation` | `run_simulation`, one action per way through its loop; implements `OneRule` |
| `Orders` | the lists that an ORDER BY or a filter returns, described by what they are |
| `FeaturedAssets` | the table, its writers, the cache and its readers |
| `Ticker` | the user's own list, as a second instance of that table, and the page that merges both |
| `Settings` | the key/value table and the administrators who save forms key by key |
| `Delivery` | `send_alert` from the first channel to the history row; extends `Settings`, whose table it reads |
| `Housekeeping` | the tick around the evaluation: severity, market state, daily retention, and the retention page |
| `KrakenAssets` | the directory of pairs and its refreshes |
| `Prices` | from what is watched to the points of a price move; extends `KrakenAssets`, whose directory it asks by |
| `LoginTracker` | the state of one key of the tracker |
| `Access` | accounts, cookies, log-in, administrators, one action per `await`; a tracker state for each key |
| `IPFilter` | the whitelist setting and the copy that requests pass |
| `Perimeter` | `Access` and `IPFilter` side by side |
| `Backup` | export SELECT by SELECT, import commit by commit, and everybody else |
| `MCAlertEngine`, `MCSimulation`, `MCTicker`, `MCDelivery`, `MCHousekeeping`, `MCPrices`, `MCAccess`, `MCBackup` | constants for TLC |
| `AlertEngineProofs`, `SimulationProofs`, `TickerProofs`, `PricesProofs`, `DeliveryProofs`, `HousekeepingProofs`, `PerimeterProofs`, `BackupProofs` | the theorems |

### RuleEval and AlertEngine

`rules[r]` is the row of a rule. Its `config` is what the owner enters on the form
(pair, condition, threshold, cooldown, `send_once`, hours, zone, override);
`is_active`, `last_state` and `last_triggered_at` are columns of their own, because
both the owner and the engine write them, or only the engine does. `history[r]`
holds its `alert_history` rows, of which only the time and the status matter: still the
provisional "delivered, by log", patched with the true result, or deleted by the retention,
which leaves a gap (`Pruned`) so that the places of the others stay. `request[c]` is a handler between its SELECT and its
commit, with the row it read.

The tick's program counter follows `run_evaluation_cycle` and `_fire`:

    idle -> fetch -> rules -> send -> record -> patch -> state -> reload_fired -> event -> rules ...
                           \-> suppress_event -> suppress_state -> reload -> rules
                           \-> reload -> rules        (a new side, no trigger)
    rules, with nothing left -> idle

| Action | Code |
|---|---|
| `StartTick` | the session opens, `get_active_rules` |
| `FetchPrices`, `FetchFails` | `market_data_service.fetch_prices`; a pair missing from the reply keeps its last price; on failure the cycle returns |
| `SkipUnpriced`, `TrackState`, `StartFire`, `StartSuppress` | one rule of the loop: no price; no trigger; trigger; trigger outside its hours |
| `SuppressEvent`, `SuppressState` | the event, then the side is recorded although nothing was sent |
| `SendAlert`, `RecordHistory`, `PatchHistory`, `RecordFiring`, `TriggeredEvent` | `_fire`: dispatch, three commits, event |
| `ReloadSide`, `ReloadFired` | the refresh after the commit of `update_rule_state`, which takes up what owners wrote |
| `Retention` | `cleanup_old_alert_history`, started by the scheduler or by an administrator: rows older than a cutoff go |
| `RecordPruned` | the patch finds no row: the tick hung for so long that the retention took it |
| `RowGone` | a statement that needs a deleted row raises and ends the tick |
| `SessionBroken` | after a failed event flush the session refuses the next statement |
| `TickFails`, `Crash`, `EndTick` | any exception or cancellation; the process dies; the normal end |
| `CreateRule`, `LoadRule`, `EditRule`, `ToggleRule`, `CloneRule`, `DeleteRule` | the handlers, as load and commit |

`Flush(stored, loaded, new)` is SQLAlchemy's unit of work: a column appears in the
UPDATE only if its new value differs from the one loaded, so two sessions can write
different columns of one row without losing either. This is modelled from how the
code uses the library, as are the foreign key and the stale-row check (`NeedsRow`);
these definitions are marked external in the map.

`KeepFor` is the time that every retention keeps, whatever the settings say (seven days in the code); `Retention`
may use any cutoff before that, since the administrator chooses the number of days and the cutoff is computed
before the DELETE.

The abstractions: prices are a few numbers and the clock counts minutes; names,
messages and severities are left out; which channels are tried and what each says
is one step (`SendAlert`); the snapshot that the cycle adds to the price history is
in `Prices`. The tick's rules are evaluated in any order: the
query has no ORDER BY.

Some variables exist only for the properties: `open` and `sinceWrite` count
dispatches, `lastSentAt` and `seen` remember the last dispatch and the last
observation, `dirty` the rules a client committed to during the tick. No guard
reads them, `SendAlert`'s own bookkeeping aside.

### OneRule, AlertEngineImplements, Simulation

`OneRule` has one action for the owner's entering the rule, before the first look, `Enter`, one for
looking at a price without firing, `Look`, and one for firing, `Fire`; a look at a time at which the rule fires is not a `Look`. `looked_at`
is the time of the last look, so that an implementation cannot excuse a missed
firing by another time. There are no commits and no faults. `AlertEngineImplements`
instantiates it with the columns of the row (`rules[r]`, not the session's copy) and
with the time of the last recorded observation. With no handler on the
rule but the one that creates it, and with crashes and failed statements anywhere, every change of the row is a
step of `OneRule` (`RowImplementsOneRule`; the run `engine_implements` shows it of a rule with hours and a longer
cooldown and of one with `send_once`). A fault may lose an evaluation, or notify twice; it never makes the
row claim a firing that is not one. `Simulation` implements the same
specification with its `_RuleState` and the time of the price point, so engine and replay agree about
which prices fire.

### FeaturedAssets and Ticker

`rows` is the table, `writer[w]` an administrator's request between two of its awaits
(add: SELECT, listing, commit, refresh, cache; toggle: SELECT, commit, refresh,
cache; move: listing, commit, cache; remove: one DELETE, cache), `reader[r]` a
request waiting for its SELECT. `age` is the distance from `_cache_at`. A writer whose UPDATE finds
no row, or whose refresh does, fails and never reaches the cache. `Restart` loses
requests and cache and runs `seed_defaults`. The ORDER BY of a listing is a strict order of the
symbols, `sort_order` first, and the listing is the one list of them in that order (`Orders`).

`crud/user_ticker.py` repeats the statements of `crud/featured_assets.py` on a table of its own,
without a cache. `Ticker` therefore has `Mine`, an instance of `FeaturedAssets` with the
user's rows (`mine`), the requests of the user's tabs (`job`) and no readers; each handler is
one of its actions. One user is enough: every statement is limited to the user's rows. The page
(`_build_ticker_items`) is `ReadFeatured`, `ReadPersonal`, `ReadRules`, with `Merged` for the
list it makes; `stayed` observes what each source has offered since the first of the three.

### Settings and Delivery

A key of `settings` is a section and a field. `save[a]` is an administrator's request
somewhere in the loop of `save_notification_config` or `save_smtp_config`: `Select` and
`CommitKey` alternate, one pair for each entry of the form. A row that was missing when
it was selected is inserted, which the unique key refuses if another request was faster
(`CommitRefused`); a row whose value is already the new one is not written at all.
`last` and `spoiled` are observers: the form submitted last, and the sections in which
saves have overlapped or been cut off since.

`step` follows `send_alert`, `send_alert_email` and the end of `_fire`:

    email_config -> send (retries) -> stamp -> push_config -> push (each channel) -> record -> patch
    email_config -> push_config          (no mail server)
    ... -> record                        (severity without push, or no channel enabled)

| Action | Code |
|---|---|
| `StartAlert` | `_fire` calls `send_alert`; an owner without address skips the mail |
| `EmailConfig`, `EmailSkipped` | `email_service._load_config`; `is_configured` |
| `EmailSent`, `EmailRefused`, `EmailAnswerLost` | one attempt of `_send_with_retry`; the server may have taken a mail whose attempt raises |
| `Stamp` | `smtp.last_send_ok` is saved, in the tick's session |
| `EmailStatementFails` | a statement of the mail part raises; the exception is swallowed, the session stays `broken` |
| `StampUnread` | the stamp is committed and the refresh after it (`set_value`) gets no connection from the pool: the result is failed, swallowed as well, and the session goes on (`unnoted`) |
| `PushConfig`, `PushConfigFails` | `notification._load_config`, outside every `try` |
| `PushSent`, `PushRefused`, `PushAnswerLost` | one channel, in the order of the code |
| `Record`, `Patch` | the history row, "delivered, by log", and the commit of its true delivery status |
| `RecordFails` | the insert, the refresh after it, or the patch raises, and the tick ends |
| `Crash`, `Administer` | the process dies; a step of `Settings` |

Abstractions: one field, `host`, stands for the SMTP configuration (with `SMTP_HOST` of `.env`
empty, its default), `enabled` and `target` for the fields of a channel. The history row of
`Delivery` is there for what it says of the channels; what deletes it or keeps it from being
written is in `AlertEngine`. A dispatch that raises or dies forgets its local variables (`Unwound`). Settings rows are
never deleted, so the refresh after a commit changes nothing. The SMTP diagnosis and the
test buttons are not modelled; they send through the same functions.

### Housekeeping

The rows of `alert_history` have their rule, the pair it was triggered for, and ages, not timestamps: `StartTick(d, crossed)` lets `d` units
of time pass and chooses the rules that will fire; which rules do is `AlertEngine`'s
business. Ages from `Oldest` on are not told apart, which is beyond every window and every
limit of the retention.

    idle -> fire -> record -> fire ... -> market -> (event) -> upsert -> (retention) -> idle

| Action | Code |
|---|---|
| `StartTick`, `Fire`, `RecordHistory`, `EvaluationDone` | `_tick`, and of `_fire` the severity and the history row; the severity is computed before the row is there |
| `RecordRefused` | the foreign key refuses the row of a rule deleted meanwhile; the tick ends |
| `Evaluate`, `MarketEvent`, `Upsert` | `evaluate`: score and saved state, event, row |
| `EventLost`, `SessionBroken` | the event writer swallows an exception; the session refuses the upsert |
| `ReadKeep`, `Prune`, `Stamp` | `run_retention_cycle`: settings, DELETE, report; once for the tick, once for the handler |
| `RunRetentionNow`, `SaveEnabled`, `SaveDays` | the retention page; a form is saved key by key, and any prefix of it may be all that is saved, so any key may be saved at any time |
| `DeleteRule` | a user deletes a rule, the database its history |
| `TickFails`, `CleanFails`, `Crash` | a statement raises; the process dies, and its counter starts again |

`cycle_count` is kept modulo `PerDay`, the divisor of the code. The points that the price moves
of the last hour add to the score are an input (`MovePoints`), which `Prices` computes. `fired` and `ticks_since` are
observers: what has fired within the longest window, deleted by the retention or not, and the ticks begun since
the scheduler's last complete retention. Left out: the deletion of old prices, which
`run_retention_cycle` does just before (`Prune` of `Prices`), and the history
rows that a restored backup brings (`Backup`).

### KrakenAssets and Prices

`pairs` is `_by_symbol`, each pair named by the key Kraken lists it under. A refresh is two steps,
`AnswerFull` or `AnswerEmpty` and then `Apply`, so that two refreshes can overlap, or
`RefreshFails`, which fills an empty directory with the built-in list. `Relist` is Kraken
beginning or ceasing to trade a pair.

`pc` follows a tick from the request to its last snapshot; time passes between ticks only, since
a tick takes little of it, and ages replace times. `FetchFails` is a request that raises, and a batch with
a pair that is not traded; `Fetch` gets an answer that may leave pairs out, and `Candidates` says which
price a missing pair takes instead: that of an alias, or of the first pair in the answer whose name contains
its base. `Store` is one row with its commit; `EndTick` sets
`_last_snapshot_at`, which `StoreFails` and `Restart` do not. `Window`, `Past` and `Score` are
`get_price_minutes_ago` and the score table, `MovePoints` their sum for a symbol. `heard` (how old the last
confirmed price is) and `covered` (how long prices have come without a gap)
are observers, and so is a row's `era`, the number of faults before it.

### LoginTracker and Access

`LoginTracker` is the state of one key; `Access` has one for each address and each name. `Latest` is the loop that drops
failures from the head of the deque while the head is too old. A handler is a
`request[q]` with one step per `await`. The session is in the cookie: `cookie[a]` is what browser
`a` would send, a request works on its copy, and `Respond` brings the copy back over whatever
the browser holds. `StartLogin` checks the lockouts, `LoginFails`, `LoginDisabled` and `LoginSucceeds` come after
the password has been verified. The administrators' `StartChange`, `LoadTarget`, `CommitChange`
are the toggle, the change of a role and the deletion, `OwnAccount` the guard on one's own
account. `mix` picks the kinds of requests of a behaviour. `recent`, `raced` and
`signed_out` are observers. A deleted account's id is not used again. Left out: the form token, flash messages,
password hashing, and the event that a login writes. A request that is turned away without
having a session changes nothing. A cookie without timestamps, which no log-in makes
any more, never expires (`tests/test_security.py:179`); it is not modelled.

### IPFilter and Perimeter

A reload takes the time (`StartReload`), selects (`SelectList`), stores list and time (`Store`) and closes its
session before the request is decided by what is stored then (`Decide`). `gone[l]` says how long ago
the list `l` was last the setting. `Perimeter` lets a behaviour be about the whitelist or
about `Access`, which share no state, so that one run covers both.

### Backup

`file` is what the administrator holds, `job` the request. An export reads settings, rules, history and users
in four SELECTs; an import goes through the sections in that order. Settings and rules are committed one by one, a rule
to be overwritten in two commits; history rows are added, and each SELECT flushes the one before, where a foreign
key may refuse it (`HistoryRefused`), with one commit at the end; users have a commit each. Others register, delete, create rules, fire
and clean up at any point, except that PostgreSQL lets nobody delete a rule that an
uncommitted history row refers to. Rules carry their `origin`, the id they were first created with, since an import gives new
ids. A file may come from another instance; its ids, which
in the database are UUIDs, never come up here, and are negative (`ForeignAssumption`). Left out: `validate_payload`, which only refuses
files an export did not write, and the columns that no reference depends on.

## 3. What TLC checks

| Run | Question | States |
|---|---|---|
| `engine` | does the tick respect what an owner does meanwhile, and are firings real, spaced, counted and recorded, faults included? | 3.8 million |
| `engine_live` | does every tick end, does every rule follow its price? | 140 thousand |
| `engine_implements` | does a row evolve as in `OneRule` under faults? | 268 thousand |
| `simulation` | does the replay fire where the engine would? | 134 thousand |
| `featured` | do the orders survive two writers, when is the cached list wrong and for how long, does the page lose anything? | 1.6 million |
| `prices` | do old prices move nothing, is the past price there, do prices come back? | 496 thousand |
| `delivery` | does the record tell the truth, is no channel passed over, is a section one form? | 1.3 million |
| `housekeeping` | do scores, market state and retention survive each other, failures and settings? | 2.1 million |
| `access` | who is left, who is let in, and for how long? | 881 thousand |
| `backup` | what do exports and imports preserve? | 1.1 million |

**engine.** `CopiesAgree`: for a rule the tick still holds, the session's copy
has the row's `last_state` and `last_triggered_at`, and is the whole row unless a
client touched it. `NoAlertOncePaused`: a paused or deleted rule is notified only by
a tick that was under way when it was paused. `TickKeepsUserColumns`: no step of the
tick changes a configuration or reactivates a rule. `RealCrossing`: a rule with a
recorded side fires only if it last saw the price on the other side, or its pair or
threshold was edited; in particular it does not fire when its hours begin for a
crossing that was suppressed before. `CooldownSpacing` and `DuplicatesNeedFaults`
say that notifications are a cooldown apart, and that a crossing, and a `send_once` rule, is notified once,
plus once for each fault: the dispatch comes before the first commit, so a crash there sends again.
`FiringHasHistory` relates the three commits and the retention: a rule that says
it fired within the time every retention keeps has a history row with its delivery status, and a row
keeps the provisional "delivered" only while it is being written or after a fault. Of an older firing the row may be gone:
the retention leaves `last_triggered_at` as it is.

**engine_live.** `TickEnds`, and `StateFollowsPrice`: the recorded side of a rule left
alone ends up right when the price stays, even though another rule is deleted under
the tick and makes it abort. An abort costs the other rules that tick, not the
next.

**engine_implements, simulation.** The refinements of section 2, and
`TriggersMakeSense`: the reported triggers are a cooldown apart, each a crossing,
and one only with `send_once`.

**featured.** `OrderIsStrict`: in the featured and in the personal list, equal `sort_order`s appear only after a commit fell
between another request's SELECT and its commit. `CommitMovesNeighbours`: without
overlap, a move exchanges two neighbours of the list as shown, a toggle keeps the
list, an addition goes to its end. `StaleNeedsOvertaking`: a fresh list that is wrong means a writer
on its way to empty the cache, a fault there, or a read that a commit overtook. A refresh
that fails because the row was deleted needs no exception: whoever deleted
it empties the cache. `EventuallyFresh`: a symbol whose visibility stays is sooner
or later shown as it is in every fresh list. `PageShowsWhatStayed`: the ticker page shows once each
symbol, and every one that some source offered from its first SELECT to its last.

**prices.** `StaleFeedScoresNothing`: a price unconfirmed for as long as the lookup reaches back gives no
points, whether requests fail or answers leave the pair out. It
holds because snapshots go on being stored: an old price meets itself in the history.
`SnapshotsSpaced`: an interval apart, unless a failed commit or a restart came between the two; after it the
spacing goes on. `HourIsCovered`: ticks
that are on time and always have a price leave a row in the window, whatever the retention does.
`PricesComeBack`: a listing that stops changing, with a pair for every watched symbol, ends the failed batches.

**access.** `AdminRemains`: an active administrator is left, unless one was changed while one of its own requests
was past the check. `FailuresLimited`: in any interval shorter than window and lockout, a
key sees as many failures as it is allowed, and two more for each other request in flight.
`LockoutEnds`, `SessionsEnd`: whatever is tried meanwhile. `LogoutSticks`: only an answer
that was on its way brings a session back. `RecentListDecides`: a visitor is judged by a whitelist that was the setting
less than the cache's time ago, although reloads overlap and an older answer may be stored last, because
the time is taken before the SELECT; only a reload that failed uses an older one.

**backup.** `OwnExportChangesNothing`: importing what was exported here changes nothing while nobody else does, as
often as one likes and wherever it fails. `RestoreIsComplete`: an undisturbed import that gets
through has given back the settings that are no secrets, the rules whose owners are here under the ids of the file, the history, and
an account for each e-mail; rules of other owners it leaves out, also those whose accounts it makes
itself. `RulesOutliveImports`: a rule nobody deleted is lost only by an import cut
short between the two commits of an overwrite. Its history is lost by every overwrite, which deletes the old row.

**delivery.** `RecordIsHonest`: a written row names a channel only if its server took the
message, and misses one that did only if the answer was lost, or if it is the mail and
the note of it could not be read back. Any other statement that fails after the mail was taken
costs the row. The row is judged once it is patched: a crash between the two commits leaves
"delivered, by log" (`FiringHasHistory`). `EveryChannelTried`: a row comes
after an attempt on the mail and on every channel that was enabled from beginning to end.
`OneMailUnlessLost` is about the retries, `DispatchEnds` about the loop they form inside
the tick. `SettledIsOneSave`: once nobody saves a section, it holds the form submitted
last, unless saves overlapped or were cut off; and the next undisturbed save repairs it.

**housekeeping.** `WindowsIntact`: the rows a score looks at are exactly what has fired in its
window, whatever the settings say, whoever starts the deletion, and although `keep` may
say zero days. `RepeatEscalates`: an alert of a rule that has fired within a day is at
least elevated, so it goes to the push channels. `NoSilentChange`: a market state changes only
after the event that announces exactly this change. `RetentionIsDaily`: `PerDay` ticks at
most between two complete retentions, and as many again for each fault and for each deleted rule whose
alert a tick was about to record. `OldRowsGo`: with the deletion on and the settings left alone, the table
is again and again free of rows older than they say.

### Where code and text disagree

Two runs check a sentence of the source and TLC finds a behaviour of the code that
contradicts it; `PROJECT.json` quotes the sentences.

* `engine_says_event`: a failed event write is caught, but the session is left
  unusable, and the tick ends at its next statement.
* `backup_says_migrates`: rules refer to their owners by ids that the other instance does not have, so
  a migration leaves the rules out, however often the file is imported.

Also seen, without a run of their own:

* the next read of the featured list after a write is not always fresh: a read that the write overtook
  may be stored after the cache was emptied (the exception in `StaleNeedsOvertaking`);
* a failed statement of the e-mail channel makes the dispatcher raise when it reads the push configuration, which is outside every
  `try` (`services/notification.py:328`): no push channel is tried, where the docstring at line 286 says that it never raises;
* a mail that was sent and answered can be reported as failed, when the note of it fails (`StampUnread`,
  `EmailStatementFails`), where `services/email_service.py:412` says "Returns True on success, False on failure";
* with history in it, a migration fails at its first history row, whose rule is not there, before any user is created;
  an import that overwrites a rule whose history the file has fails in the same way, the rule having a new id;
* a restored rule loses `last_state` and `last_triggered_at`, so it may fire at the next tick, inside its cooldown;
* `services/backup.py:27` says that an import is idempotent and skips unknown settings. It writes every key that is not
  sensitive, and knows a rule by its id only: one that was deleted here comes back under a new id, and once
  more with each further import of the file;
* the snapshot taken before an import is put into the session cookie (4 KB at most), so it is lost as soon as there is data;
* `unlock_identifier` strips what the administrator types, but the tracker's keys are lower-cased as well: a
  name typed with a capital stays locked;
* `get_price_minutes_ago` promises the closest price and returns the newest within a quarter of an hour of it;
* a pair left out of an answer may take the price of another one whose name contains its base (`Candidates`);
* personal ticker items always have `has_alert`, whatever the comment at `api/routes/ticker.py:95` says;
* an empty first answer of Kraken's leaves the directory empty: the built-in list is used after an exception only;
* the whitelist is empty, and open to all, until its first reload succeeds; on a machine that has been up for less
  than 30 seconds no reload is even tried, as `_last_loaded` starts at 0 of the monotonic clock;
* the cooldown does not stop evaluation, as the comment at `services/alert_engine.py:8` has it: a
  crossing during it is recorded and never notified (`StateFollowsPrice` holds during the
  cooldown, too);
* the price moves score from 10, 5 and 2 per cent on (`>=`), where the docstring of
  `services/market_state.py` says `>`;
* a statement that fails in `run_retention_cycle` raises, where the docstring of
  `services/retention.py` says that the cycle logs the error and returns;
* the daily retention is not daily for a process that restarts more often than once a day:
  `RetentionIsDaily` needs its one more round for each crash, and so do restarts on purpose;
* editing a threshold keeps `last_state`, so the rule can fire with the text "crossed" although
  the price never moved (`RealCrossing` names the edit as its only exception);
* the simulation counts every point outside the hours as suppressed, whether or not it would
  have fired (`services/simulation.py:203`);
* `seed_defaults` runs at every start and looks only for an empty table, so the defaults come
  back after an administrator emptied the list and the process restarts, where the comment
  at `crud/featured_assets.py:18` says "on first run";
* the SMTP page asks for the result of the last test through `get_smtp_config_from_db`, which
  selects the keys of `SMTP_KEYS` only, so that result is never shown.

### Bounds

* One rule is enough for the per-rule properties: rules meet only in the order the
  tick takes them and in the abort that ends it. `engine_live` and
  `engine_says_event` have two for that reason.
* Two prices, thresholds 1 and 2: both sides of a threshold, the tie, and an edit that
  moves the threshold across a price that stays. A day has two minutes in the engine
  runs, so rules are now inside and now outside their hours; six in `simulation`,
  with a window inside the day, one across midnight, half-filled ones, a zone an
  hour ahead and one the host does not know.
* `MaxTime` 2 lets a cooldown of one minute pass twice, and one of two minutes once;
  the retention keeps one minute (`KeepFor`), so that there is a row it deletes and one it does not;
  5 in `engine_implements` gives room for two firings and two faults.
* In `engine_live` the clock stands still (`MaxTime` 0): nothing obliges it to move during a
  tick, and a rule that has fired then stays in its cooldown, which is the hard case for
  `StateFollowsPrice`.
* `MaxFaults` 1 puts one crash, cancellation or failed statement at every point; with it
  the bounds "1 + faults" are tight.
* One client: two handlers that overlap each other are not covered by the engine runs;
  what a handler reads can be stale through the tick's commits only. The proofs have no
  such limit.
* `featured`: two writers, or two tabs, are what a tie needs, and two symbols what a move exchanges; the seeded order is not
  the alphabetical one, so the two sort keys differ. One reader, a TTL of one tick, and one failed refresh. `Mixes` keeps the
  actors apart who do not meet: administrators with the cache, tabs with the personal list, and for the page one
  administrator and one tab who switch rows on and off while the rules of one symbol come and go.
* `prices`: two symbols with three keys, one of them with two pairs and a name that contains the other's. A snapshot interval and the
  hour are two ticks of the clock, the window reaches one further on each side, the retention keeps three;
  ticks come after one or two. `Mixes` keeps the feed apart from the listing, whose ticks come after five, when no
  age matters any more. One failed commit or restart.
* `access`: two requests of one browser, two attempts, windows of two ticks, and idle and absolute limits of one and two, so
  that each can pass first. Two of the three accounts want the same name. `Mixes` has the combinations in which requests
  can disturb each other; all have a log-in, without which nothing else is admitted. For the
  whitelist, two reloads of at most one tick, a cache of three ticks, and two lists that exclude each other; that
  two reloads take less than the cache's time is an assumption (`ReadAssumption`), as the code has no timeout there.
* `backup`: two imports, two changes by others and one failure; a foreign file with an account of the same name; two accounts of
  one rule each, history of one row in a file.
* `delivery`: two administrators are what an overlap and a refused INSERT need; two push channels
  give one that an administrator turns on and off and one that comes after it; two
  attempts have a first and a last; the table starts empty or with a mail server and the
  second channel. Forms have two fields, so a form can be cut in the middle.
* `housekeeping`: two ticks a day and two days of age make the difference between a row in the
  window, one outside that is kept, and one that is deleted; the least retention is one day
  and the window a day as well, which is where an error by one would show (in the code: seven
  days and 24 hours). Three rows are what the loudest severity and the market state `event`
  need; the points of price moves are left at 0, as three alerts reach every state. BTC counts as
  important, SOL does not.
* The clock of `AlertEngine` stops at `MaxTime`, which a tick does not need to go on.
  `Simulation` stops after `MaxPoints`; its configurations turn deadlock checking off, the
  others keep it on.

### Fairness

`FairSpec` of `AlertEngine` is weak fairness of `StartTick` (the loop sleeps for a fixed
time and the event loop then resumes it) and of `EngineStep` (an awaited statement
returns or raises), and strong fairness of `FetchPrices`: a request to Kraken that is
repeated for ever is answered at some point. Without the last one the code promises nothing. No
fairness is assumed of owners, of crashes or of the clock, and `engine_live` admits no
faults: a process that crashes at every tick records nothing. `Ticker`, `Access` and
`Perimeter` need weak fairness of `ClockTick` alone: time passes. `Delivery` needs weak fairness of
`DispatchStep`: SMTP and HTTP requests have timeouts and statements return or raise, so
every await of the dispatcher ends; nothing is assumed of administrators. `Prices` assumes that ticks
start and end, and that the loop's refreshes do; strongly, that requests which are made again and again are
answered now and then, those of a tick (`FetchSucceeds`, when the pairs asked for are traded) and those of the
directory, with a listing that is not empty. Kraken is otherwise free to fail. `Housekeeping` needs weak
fairness of `TickStep`: the loop sleeps for a fixed time and every statement returns or raises.

## 4. What TLAPS proves

Every safety and every action property of the passing runs is a theorem, for every set of rules, clients, pairs,
prices, symbols, accounts, requests, files and forms, every zone table, and every bound on time and faults. The
theorems are about `Spec` (`TickerSpec`, `PerimeterSpec` where components stand side by side) and assume what the
modules name: sets of the right kind, some of them finite or not empty, and

* lengths and limits that are natural numbers, prices above 0, forms with distinct fields, at least one attempt, one symbol,
  one request;
* `WindowAssumption` of `Housekeeping`, `TimeAssumption` of `Prices`: no window is longer than what the retention
  keeps in any case (a day against seven; an hour and a quarter against a day);
* `MovesAssumption` of `Prices`: a price move scores from a percentage above 0 on;
* `ReadAssumption` of `IPFilter`: two reloads take less than the cache's time;
* `ForeignAssumption` of `Backup`: the ids of another instance are not ids of this one;
* `RowImplementsOneRule` alone assumes that there are no clients (`Client = {}`), which is what it is about.

Hardly any of the properties is inductive alone. What follows names the invariant of each proof, which is the property
with what its step needs; each has been model-checked on the run's instance as well.

`AlertEngineProofs`:

* `TypeCorrect`: `TypeOK` always holds. Its step needs `Flush` to return a row
  (columns come from three rows) and `CurrentState` to return a side.
* `Invariant`: `Inv` always holds. None of the safety properties is inductive alone, so
  `Inv` is the conjunction of five parts:
  * `TickShape`: which rules can be in `todo` and `cur` at which `pc`;
  * `CopiesAgree`, the property itself, for the rules the tick still holds;
  * `SentAgrees`: with nothing outstanding, `lastSentAt` is the row's `last_triggered_at`;
  * `SeenAgrees`: `last_state` is the side of the last observation;
  * `FireHolds`: from `StartFire` to `RecordFiring` the decision that let the rule fire is
    still true of the copy, with `firedAt` the time it was taken.
* `CopiesAlwaysAgree`, `NeverOncePaused`, `CooldownIsKept`, `CrossingIsReal`,
  `UserColumnsKept`: the properties of the runs. The last is a case split over `Next`;
  `CooldownIsKept` uses `FireHolds` for the new dispatch and `SentAgrees` and
  `CopiesAgree` to go from the copy the decision read, through the row, to the
  previous dispatch; `CrossingIsReal` uses `SeenAgrees` in the same way.
* `DuplicatesTakeFaults`: by `Notified`. A dispatch that is not recorded is in flight, at most one for each tick
  (`InFlight`), or was cut off, which took a fault of its own (`OpenBound`); and a `send_once`
  rule that is still armed has been notified by faults only (`OnceBound`).
* `FiringAlwaysHasHistory`: by `HistoryKept`. The time in a row is not later than that of a patched history row
  (`Kept`), as long as it is younger than what every retention keeps, because between the commits the history row of this firing is already there, with a time not
  before that of the decision (`Reporting`).
* `RowImplementsOneRule`: the refinement, step by step. `Deciding` keeps the decision of `_fire` true across its awaits,
  with the time it was made; `Unedited` says that no row is written but by the tick and by its creation. A commit is then
  `Enter`, `Look` or `Fire`, and everything else a stutter.

`SimulationProofs`:

* `Mirrors`: `Spec => MirrorsEngine`. The lemma `SameAnswer` shows that the two decisions,
  whose checks come in different orders, are equivalent; each disjunct of `Next`
  is then a `Look`, a `Fire` or a `Rest` of `OneRule`.
* `TriggersAlwaysMakeSense`: by an invariant that relates the last trigger to
  `last_triggered_at` and `active`.

`TickerProofs`, by `TickerInv`, on the lemmas that a finite set has exactly one list in a strict order (`Orders`):

* `OrderStaysStrict` and `MovesExchangeNeighbours`: `Settled`, for the featured list and for the user's own: unless requests
  overlapped, the order is strict and what every request is about to commit `Fits` the table as it is now, so a
  move exchanges neighbours of this table and an addition comes after all of it. One set of lemmas on a
  commit serves both tables.
* `CacheIsCurrent`: `ReaderCurrent` (a list read and not overtaken is the committed one) and `CacheCurrent`, which says
  which writers are still going to empty the cache (`WillBust`).
* `PageMissesNothing`: `PageKept`: each list the page has read so far contains what its source has
  offered since.
* `TickerTypes`: with `Written`, what each request carries at its step.

`PricesProofs`, by `PricesInv`:

* `PricesTypes`, with `Course`: which snapshots are left to store at which point of the tick.
* `SnapshotsStaySpaced`: `Spaced` compares every row stored since the last fault with the time since the last snapshot.
* `StaleFeedIsSilent`: `Confirmed`: a row that is not older than the last answer has its price. A price unconfirmed
  for as long as the lookup reaches back therefore meets itself in whatever row the lookup takes.
* `HourStaysCovered`: `Spans`: while a symbol is covered, no span as long as the window lies between its rows; the
  property only looks at one such span, which is not enough when time passes. `LastSnapshot` says where
  the newest row is, so that the next one does not come too late.

`DeliveryProofs`:

* `TypeCorrect`: the type invariant needs that the mail server has taken at most one copy for
  each attempt that is over (`CopiesBounded`).
* `OneForm`: `SettledIsOneSave` for any number of administrators, forms and fields. Alone it says
  nothing while a save is under way; `OneSaver` adds that an unspoiled section has one
  saver at most, whose form is the one submitted last, that the entries it has passed are
  stored, and that what it loaded is still in the table. The last part is what makes it safe
  to send no UPDATE for an unchanged value.
* `RecordAlwaysHonest` and `SecondCopyOnlyAfterLoss`: by `Honest`, which follows a message
  taken by a server to its result, through the steps where it has none yet (`stamp`),
  or where it has lost it (`unnoted`, a broken session, a dispatch that was abandoned).
* `EveryChannelAlwaysTried`: by `NoneMissed`: a channel that stayed enabled is enabled when the
  configuration is read, is pending or tried while channels are tried, and tried after.

`HousekeepingProofs`, by the one invariant `IInv`:

* `TypeCorrect`: `TypeOK`.
* `NoWindowIsPruned`: `WindowsIntact`, inductive with the types. Ageing keeps it because a row
  inside the window after a while was inside before, deletion because the retention keeps
  `MinDays` whatever the settings say and no window is longer (`WindowAssumption`).
* `RepetitionIsLoud`: from `WindowsIntact`, and from the history being finite, so that a row that is
  there is counted.
* `RetentionComes`: `CutOff` says that the ticks since the last retention are accounted for
  by the counter, or by a fault or a deleted rule. A tick that is `Doomed` (broken
  session, or a rule to record that is gone) has its culprit already counted before it ends; that
  is the strengthening.
* `ChangesAreAnnounced`: by `EventFirst`: on the way to the upsert the event of the change is
  the last one.

`PerimeterProofs`. A request is one record that its handler replaces at every step; the lemma `HandlesFit` says
once what all those steps have in common (`Fits`), and each invariant then looks at the few steps that touch its variables:

* `RequestsAreFormed`: the types, and what a handler is about at the step it has reached.
* `AdminAlwaysRemains`: `AdminsAct`: without `raced`, whoever is past the check is an active administrator still, and
  never changes itself.
* `LogoutAlwaysSticks`: `LoggedOut`: after a clean logout no request of the browser carries a session.
* `FailuresAlwaysLimited`: `Failures`, for each key. `is_locked` is asked before the password is verified and
  `record_failure` comes after, so with `n` other requests in flight the tracker need not know all failures: those let in
  before a lockout fail after it began or after it is over. `Counted` says that an unlocked tracker knows all failures in view but
  the `n` oldest, `LockedIn` that during a lockout only those let in before it are left to fail, `InView` that the failures
  are in order.
* `RecentListDecidesAlways`: `FilterInv`: a list that was read, and the one that is stored, was the setting when the
  request that read it took the time, or later.

`BackupProofs`, by `BackupInv`. Its part `Coherent` says that an id is given once, so that a rule both here and
in a file is the same, and what is left of the section an import has reached:

* `OwnExportIsHarmless`: `Own`: what is in a file exported here is in the database still, so the import is never on its way to
  create anything.
* `RulesAreKept`: `Kept`: a rule nobody deleted is there, as itself or as a copy, or is about to be created again (`Replacing`), or was
  cut short there.
* `ImportsAreComplete`: `Restored` accounts for each section of the file by what is left to do of it; rules of absent owners
  are not part of it.

Only model-checked: the liveness properties `TickEnds`, `StateFollowsPrice`, `EventuallyFresh`, `PricesComeBack`,
`DispatchEnds`, `OldRowsGo`, `LockoutEnds` and `SessionsEnd`, which need fairness and ENABLED and are out of the prover's reach.
Induction over data is too, but for induction over the natural numbers in the form "a set that is not empty has a least element"
(`LeastNatural`), which the lists of `Orders`, the lookup of a past price and the loop `Latest` need. The type invariants are
defined in each module and proved, and no run repeats them; that of `KrakenAssets` is part of `Prices`', that of
`Settings` part of `Delivery`'s.

## 5. Plan

**Done**: all modules of section 2, the runs of section 3, and a theorem for every safety and action property they check.

What would say most next:

1. Abstract specifications of two more components, and refinements: a tracker that counts failures against `LoginTracker`
   with its requests, and a list that changes at commits against the three SELECTs of the ticker page.
2. `RowImplementsOneRule` with owners: `OneRule` has no edits, pauses and deletions yet, which the engine takes up at the next tick.
3. The parts that are modelled partly: the other writers of the event log, and the diagnosis of the mail server.

## 6. Not modelled

* Pages, charts and statistics (`api/routes/dashboard.py`, `assets.py`, the bucket functions of
  `crud/price_history.py`, the queries of `crud/event_log.py`) read and format; they change nothing. `cleanup_old_events`
  has no caller.
* The SMTP diagnosis and the test messages (`services/email_service.py`, `api/routes/settings.py`) send one message
  and save their result as a form of `Settings` is saved.
* The wording of mails and messages, labels of assets, severities' colours: no property is about them.
* Configuration is read once; migrations, container files and tests do not run with the program.
* Password hashing, the signing of cookies, SQLAlchemy, PostgreSQL, Kraken and the mail server are outside the source; what
  the code relies on is in definitions marked external in the map.
