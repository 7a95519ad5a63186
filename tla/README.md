# Stock Portal: specifications, model checks and proofs

This directory holds TLA+ specifications of parts of Stock Portal, a Java EE
application for following stocks and options: watchlists with the purchases and
sales behind them, charts of option data, and a caching HTTP proxy used next to
it. Java paths below are relative to `src/src/java/org/stock/portal/` unless
they begin with `src/`.

Contents: [the system](#the-system), [plan](#plan), [watchlist
ledger](#watchlist-ledger-holding-position-ledger), [watchlist
membership](#watchlist-membership-watchlist), [proxy
cache](#the-reply-cache-of-the-proxy-proxycache), [option profit and
loss](#option-profit-and-loss-optionpnl), [chart
reports](#chart-reports-charts-chartreport), [page
flow](#a-browser-window-pageflow), [grid search](#searching-a-grid-gridsearch),
[data entry](#saved-values-and-quarterly-results-dataentry), [proofs](#proofs),
[not modelled](#not-modelled).

## The system

The portal runs in JBoss 7 on PostgreSQL. A browser's request reaches a Struts
action (`web/metroWL/action`) or a servlet (`web/servlet`), which calls a
stateless session bean (`service/*`). A bean method marked `REQUIRED` is one
database transaction, `READ COMMITTED` (`src/Jboss7MigrationReadme.txt`); beans
read and write through JPA or native SQL (`dao/*`). Requests share nothing but
the database, the HTTP session, the files the chart reports are written to, and
a Redis cache another program fills. On the other side a browser window keeps
every page it has loaded, fills parts of it by asynchronous requests, and keeps
asking while answers are due. So what is hard in this code is what requests do
to each other between two SQL statements, what is left of a request that fails,
and what a window shows when answers come late, crossed, or for another user.

| Component | State | Operations | Hard behaviour | Modelled |
|---|---|---|---|---|
| Watchlist ledger (`service/watchlist`) | rows of `watchlist_item` (stock in hand, average rate), `watchlist_transaction` | add, delete a transaction; rebuild, delete an item | lost updates, back-dated entries, row locks and deadlocks, swallowed exceptions | `Holding`, `Position`; abstractly `Ledger` |
| Watchlist membership (`service/watchlist`) | rows of `watchlist`, `watchlist_item` | add a scrip to a list, create a list, delete an item | check then insert, `max(id)` as "the new one" | `Watchlist` |
| Reply cache of the proxy (`src/tools/org/portal/proxy`) | files, hash table, byte and file counters | fetch, account, evict, clean, configure | unsynchronized file operations around synchronized accounting | `ProxyCache` |
| HTTP and administration protocol of the proxy | sockets | parse, forward, log in | text | no |
| Option profit and loss (`DataDao.getPandLOfOrder`) | orders running and exited | one row per ten seconds | strict comparisons at a boundary, null exit time | `OptionPnL` |
| CSV chart reports (`DataDao`, 22 generators and their servlets) | one file per report name | write the file, stream it | concurrent requests for one file name, reports that share a name, exceptions halfway | `Charts`, `ChartReport` |
| Page flow of a window (`metroWL/js/page-flow.js`, `global.js`, the layout) | page flags, divs, requests under way, popup | switch page, dialogs, search, expand a row, log in | answers that cross or fail, pages of an old session, flags set early | `PageFlow` |
| Sessions and login (`web/action`) | user of the HTTP session | log in, log out, be signed in by the home page | the window does not know | in `PageFlow`, as a window sees it |
| Grid pages (`JqGridTableBuilder`, `JqGridManagerBean`, `global.js`) | form, grid, saved search | search, page, clear, restore | form read while a load is under way, dropped loads, refused SQL | `GridSearch` |
| Saved searches, trend lines (`JqGridManagerBean`, `DataManagerBean`) | rows, one per user and name | update, insert if none | two first saves | `DataEntry` |
| Quarterly results (`DataManagerBean.saveQtrResult`) | results, trailing earnings of a scrip | insert, then update the scrip | stale sums, deadlock, swallowed exceptions | `DataEntry` |
| Option orders, request tokens (`DataManagerBean`) | rows | one statement each | none | no |
| Order placement (`OrderManagerBean`, `WebClient`, `NowWebClient`) | broker sessions | log in, place, poll | screen-scraping, retry | no |
| Redis cache of greeks (`dao/RedisCache`) | keys that expire | scan, get | chains that are half expired | no |
| End-of-day pipeline, scrip linking (`DataMutatorManagerBean`, `DataProcessorMDB`) | price columns of `scrips` | insert a day's prices, create a scrip | none at this commit: the message bean's call of `insertEodData` is commented out (`DataProcessorMDB.java:48`) and nothing else calls it | no |
| Queries, charts, Struts configuration, entities, other pages, vendored scripts, build | none of their own | | | no |

What makes each component correct:

- **Ledger**: an item shows the sum and the average of its recorded
  transactions; a transaction always has its item; a request always gets an
  answer; what the user is told was done, was done.
- **Membership**: limits hold, a scrip is on a list once, an item is on a list
  of the user who put it there.
- **Proxy cache**: the account covers the disk, evictions end, and evict the
  right file.
- **Option profit and loss**: every order counts in every row from its entry
  on, and the columns add up.
- **Reports**: a user sees the report asked for, all of it; at least never
  another index's or scrip's.
- **Window**: what is shown is what was asked for, of the user who is logged
  in; it comes, and dialogs go.
- **Grid**: the rows are those the form asks for; a saved search finds what it
  found.
- **Saved values**: the last one saved is read. **Results**: the trailing
  earnings are the sum of the last quarters.

## Plan

In order of importance; all of these exist.

1. `Holding`: the arithmetic of an item, and the replay of its transactions as
   the reference definition of what it should show.
2. `Position`: the four operations on the ledger, statement by statement.
   `PositionProofs` proves about them.
3. `Watchlist`: the operations on lists and their items.
4. `ProxyCache`: the proxy's threads, the cache and the administrator.
5. `OptionPnL`: the replay of a day's orders.
6. `Charts`, a table of the chart generators, and `ChartReport`, the requests
   that write, fail and stream. `ReportProofs` proves about both kinds of CSV
   report, 5 and 6.
7. `Ledger`: the ledger with one step for each operation, which `Position` is
   shown to implement.
8. `PageFlow`: a browser window, its requests, and the session behind it.
9. `GridSearch`: a grid page, from the form to the SQL condition and back.
10. `DataEntry`: what users enter one value at a time.

Modules 3, 4, 8, 9 and 10 have proofs in the modules named after them;
`SumProofs` holds what several need about sums and inductions. With these every
invariant and action property is proved; liveness stays with TLC.

## Watchlist ledger: `Holding`, `Position`, `Ledger`

`Holding` translates the arithmetic of `WatchlistManagerBean.addTransaction`
(lines 171-186) and of the loop of `rebuildWatchlistItem` (217-232). A float is
an exact fraction; a division by zero gives a fraction of denominator 0, with
the sign that tells Infinity, -Infinity and NaN apart, because Java raises no
exception there and the value is stored and used again. Rounding is not
modelled, nor the width of `Long` and `Float`: quantities of shares are far
below both.

`Position` has one action per SQL statement, and one for the flush at the end
of the transaction:

| Code | Actions |
|---|---|
| `addTransaction` | `LookUpItem`, `InsertRow` (persist and flush), `RefreshItem`, `CommitAdd`; without an item `InsertOrphan` |
| `deleteTransaction` | `LookUpTrans`, `DeleteRow`, then as the rebuild |
| `rebuildWatchlistItem` | `BeginRebuild`, `ReplayRows`, `LoadItem`, `CommitRebuild` or `FailRebuild` |
| `deleteWatchlistItem` | `BeginDeleteItem`, `ClaimItem` (the row lock), `RemoveItem` (the foreign key) |
| PostgreSQL's deadlock detection | `AbortVictim` |

`sess` holds what each request has read and computed (`base`, `value`), which
is Hibernate's persistence context. The variables `fresh`, `tracked`, `ordered`
and `recorded` are history: they only say which requests overlapped.

Decisions that are the platform's, not the code's:

- A row that was inserted locks its item until commit through
  `fk_watchlist_item`. Up to PostgreSQL 9.2 the lock is `FOR SHARE` and blocks
  updates of the item; from 9.3 on it is `FOR KEY SHARE` and does not. The
  repository does not say which it runs on, so `ForShare` is a constant, and
  the proofs are for both.
- `WatchlistItem` has no `@Version`: its UPDATE at commit writes what the
  request computed, if Hibernate finds it changed. `CommitAdd` may also write
  when it is not, because `last_updated`, which is not modelled, can differ.
- An exception inside `addTransaction` is caught there. If the database
  aborted the transaction it is rolled back and the method returns; whether
  `refresh(null)` marks it for rollback depends on the persistence provider,
  so `InsertOrphan` allows both.
- The rows of an item load the item eagerly, so what `LoadItem` does may happen
  a statement earlier than the query of line 233; nothing is between them.

`Ledger` says what callers may rely on: each operation is one step on the
committed rows. `Record` adds a transaction and applies it to the row of its
item as that row is now; `Rebuild` withdraws at most one transaction and shows
the replay of some recorded ones, possibly not the latest (a rebuild's list may
be stale); `Remove` takes an item of which nothing is recorded; `RecordOrphan`
records a transaction for no item. The refinement mapping is the identity on
`item`, `trans` and `recorded`: `Position` hides `sess` and the other history
variables. `ImplementsLedger` (`Committed!LedgerSpec`) then says that
nothing between two statements is visible and that an addition is never applied
to a row another request has changed since. It holds with the strong lock, and
TLC finds the lost update that breaks it with the weak one: the abstract ledger
is what the portal would be if it held the row, and the properties of
`position_keyshare` say what is left without.

Runs (both with two requests, which is what a race needs, and one item, since
a request concerns one; the ids of transactions are bounded by `MaxTrans`):

- `position_keyshare`: three inputs, among them a back-dated dearer purchase
  and a sale that may exceed the stock, three transactions, the weak lock.
  `SihMatchesLedger` says the stock in hand agrees with the transactions
  unless a request that read too early wrote it since the last rebuild that did
  not; `RateMatchesLedger` the same of the average rate if transactions came in
  the order of their dates; `StockIsExplained` that even after a lost update
  the stock is the sum of some recorded transactions, none counted twice.
- `position_live`: the strong lock. `ParentsExist` says no transaction loses its
  item; `AddsSeeCurrentRow` that the lock excludes lost updates between
  additions; `EveryRequestAnswered` that the deadlock this makes possible (two
  additions that share the item's lock and both want to update it) never leaves
  a request without an answer. Fairness: a server thread goes on with its
  request, and PostgreSQL's lock queue does not let a waiter be overtaken for
  ever (strong fairness of `Continue`); the deadlock detector runs (weak
  fairness of `AbortVictim`). No request has to begin. `ImplementsLedger` is
  checked here, too.
- `position_reported`, a violation: two items of one scrip, which racing
  additions can leave (see `CopiesWithinLimit`). The lookup of
  `addTransaction` finds two, gives null, and the user is told of success while
  the transaction belongs to no item.

## Watchlist membership: `Watchlist`

`addToWatchList` is `BeginAdd` (ownership), `CountItems`, `CheckScrip`,
`InsertItem`, `CommitAdd`; `createNewWatchList` is `BeginCreate` (the limit),
`InsertList`, `InsertFirst` (the item, into `max(id)`), `CommitCreate`;
`deleteWatchlistItem` is `DeleteItem`, a single statement here because the items
have no transactions (those are `Position`'s). Sessions commit; a failing
statement ends a request without effect, which is the same as never going on.
The limits of 1000 are constants and small; nothing depends on their value.

- `watchlist`: two users, two scrips, two sessions, and rows and ids for each
  of them to reach a limit and pass it. `ItemsWithinLimit` and
  `ListsWithinLimit` give the exact overshoot of racing requests: at most one
  for each request beyond the first. The bounds are tight: with one less, TLC
  finds a violation. `CopiesWithinLimit` bounds duplicates,
  `ItemsStayWithOwner` says that wherever `max(id)` puts an item it is on a list
  of its user, `AddedIsListed` that a scrip reported as added is there (a scrip
  found by the duplicate check was committed, so no rollback can take it away;
  only a deletion can, which the history field `cut` records).
- `watchlist_created`, a violation: two creations of one user, and the item of
  one goes to the list of the other.

## The reply cache of the proxy: `ProxyCache`

Threads: one `Proxy` per request, one `Admin`. `Cache`'s methods
`DecrementFreeSpace`, `AddToTable`, `clean` and `MakeFreeSpace` hold the cache's
monitor: their beginnings wait for `monitor = Free`, and an eviction or a
clean-up is several steps inside it, because `Proxy.run` opens, writes and
closes files without it. The hash table is a sequence in the order of the
entries' dates, with the order of enumeration given by `Rank`; `recent` are the
entries dated in the current millisecond, which `MakeFreeSpace`'s strict
comparison passes over. `IsCached` returns false (`Cache.java:90`), so
everything is fetched and dates are those of `AddToTable`.

Whether an open file can be deleted depends on the operating system:
`DeleteOpen`. The paths in the code are Windows', where it cannot; elsewhere it
can, and its writers then write to a file without a name (`linked`).

The proxy is taken to have been started with a father proxy. Without, the
administrator's first request fails in `Config.toString` and caching can never
be turned on.

- `proxy_accounts`: two threads, two URLs, replies of one block, deletion of
  open files allowed, so that evictions, clean-ups and refetches overlap in
  every way; `MaxBytes` and `MaxFiles` bound what aborted and repeated fetches
  accumulate. `NeverUndercounts`: with the blocks written and not yet counted,
  the account covers the disk. `AccountingExact`, `EntriesHaveFiles`: it is
  exact, and entries have files, as long as no file was written by two fetches
  or deleted under its writer. `MonitorReleased`: evictions and clean-ups end;
  fairness only for steps inside the monitor, which wait for nothing.
- `proxy_oldest`, a violation of the comment at `Cache.java:225`.

## Option profit and loss: `OptionPnL`

One action, `WriteRow`, is one pass of the loop of `DataDao.getPandLOfOrder`
(2602-2668): exited orders move to `exitedOrders`, running orders are valued at
a price TLC chooses, exited ones at their buying price. `Fail` is the null
pointer an order without exit time causes. Times count half steps, so an entry
or exit falls on a row or between two. The printing of zero as an empty cell,
the index column and the order of cells are left out.

The names of a specification are those of the loop here (`ReplaySpec`,
`ReplayTypeOK`), so that one module can prove about both kinds of CSV report.

`option_pnl`: two orders, two algorithms, every entry and exit time in and
around three rows, no exit time included. `TotalIsSumOfOrders` compares a row
with a definition that does not know the two lists; `OrdersStayInReport` says
an order stays in all later rows, except in the row whose time is its exit
time; `ReportEnds` that the report ends, and fails only for an order without
exit time. The thread that runs the loop waits for nothing (weak fairness). The
report is finite, so deadlock is not checked.

## Chart reports: `Charts`, `ChartReport`

Twenty-two charts go through a file: a generator of `DataDao` writes a CSV file
in `D:\temp\junk` and returns its name, and the servlet copies the file to the
browser. The name is put together by hand in each generator, from some of the
parameters of the request. `Charts` is that table: for each generator what its
file name begins with, which parameters follow, and which its rows depend on.
The parts of a name cannot run into each other (numbers are next to letters,
dates have separators), so two names are equal when their parts are.

| Code | Actions |
|---|---|
| the servlet reads its parameters | `Ask` |
| the date in the name is parsed (`getDOMSummary`, 1746) | may be `NameFails` |
| queries before the file is opened, `new FileWriter` | `OpenFile`, `OpenFails` |
| the writer's buffer is full, or closed | `WriteBlock` |
| an exception, caught and printed; the writer is not closed | `FailWriting` |
| the copy loop of the servlet | `ReadBlock`, `EndOfFile` |

A report is a sequence of blocks of the size of the writer's buffer (8192
bytes), and a block is identified by the report and its place: that is what
tells a right answer from a wrong one. How many blocks the queries give is
chosen when the file is opened. A writer keeps its own place in the file, so
after a truncation by another it leaves a hole (`Put`). The history variable
`alone` holds the threads no other interfered with since they opened their
file. Left out: that the servlet reads a block in pieces of 1024 bytes, that
the last block is shorter, and browsers that disconnect. A file that does not
exist is an empty one: both give an empty answer. Requests carry all parameters
of their chart, as the pages send them.

Only `ATMMovementRawData` and `OptionOI` have all they depend on in the name.
All other charts can show rows of another request when two meet, or when one
fails and the file of an earlier one is sent: another day's or time's, or, of
the four that are named after the day (`PremiumDecay`, `DOMSummary`,
`GreeksPerMinute`, `PandLOfOrder`), another quarter of an hour's or another
list of options' or algorithms';
`Spike` and `PriceDisparity` even share a file, with different columns. The
properties say what is still guaranteed:

- `charts`: two threads, two requests, reports of up to two blocks, and eight
  of the generators, chosen so that names are shared in every way: wholly, for
  two days, by two generators, by part of their parameters, and not at all; for
  two values of every parameter. `AloneIsExact`: without interference the answer
  is the report, or after an exception a proper beginning of it, never rows of
  an earlier one. `FullyNamedIsOwn`: the two charts above never show rows of
  others, even if interfered with. `SubjectIsRight`: the index, instrument,
  scrip or option is the one asked for. `EveryRequestAnswered`: a copy loop does
  not chase a growing file for ever. Fairness: server threads run on; reports
  are finite (`MaxBlocks`), and a user need not ask. Two blocks are the least
  with which a hole, or a beginning, exists. For all 22 generators the first
  three are theorems, below.

The merging of the minutes of several options (`PremiumDecay`,
`GreeksPerMinute`) and other contents of rows are not modelled; those of
`PandLOfOrder` are, in `OptionPnL`.

## A browser window: `PageFlow`

The site is one page. `page-flow.js` shows one of some twenty divs, asks the
server to fill it the first time, and keeps it; a flag per page,
`Is_...PageLoaded`, says not to ask again, and is set when the request is sent,
not when it is answered. `global.js` fills what pages share: the popup of
dialogs, the div of miscellaneous pages, the table of a search, whose rows
expand.

| Code | `PageFlow` |
|---|---|
| the `Is_...PageLoaded` variables | `win.flag` |
| divs, and which is displayed | `win.body`, `win.shown` |
| `$.ajax` calls under way | `win.pending`, a queue per div, answered in any order |
| popup, its timer, a row that is hidden | `win.open`, `win.timer`, `win.collapsed` |
| `LOGGED_IN_USER` in the HTTP session | `session`, numbered by its changes |
| `switchToPage`, `load...Page` | `SwitchToPage`, `LoadPage` |
| `showMiscPage`, `showFloatingPopup`, close buttons | `ShowMiscPage`, `ShowFloatingPopup`, `ClosePopup` |
| `submitFloatingForm`, `LoginAction` | `SubmitLogin`, `Login` |
| `loginSuccess.jsp`: `resetAllPageLoadStatus`, dashboard, menu, timer | `LoginSuccess`, run by `Deliver`; `HideFloatingPopup` |
| `submitMainScreenForm`, `sortMainPageTable` | `SubmitMainScreenForm` |
| `toggleTreePerformanceDiv`, `toggleIndexDiv` | `ToggleTreePerformanceDiv` |
| `LogoutAction`, reload, `HomeAction` | `Reload` |
| the session expires, or another window logs in | `ChangeSession` |
| the server renders; success and error callbacks | `Serve`, `Deliver`, `Fail` |

What a div shows is what was asked for and the session it was rendered in; texts
are left out. `wanted`, `overlapped`, `failed` and `login` are history.

Details of the code the model keeps because they change what is shown:
`resetAllPageLoadStatus` misspells one flag (`page-flow.js:48`), so the BTST page
survives a login (`NeverReset`; `LoginRefreshes` leaves it out);
`loadCandlePatternPage` tests the flag of the achievers page (347), so after
that page it shows an empty div for ever, but no menu leads there today
(`OffMenu`: it can only be the page a window starts with, where nothing is
loaded yet). The mutant `EveryPage` puts it back into the menu, and
`ShownPageIsFilled` fails. `SecureInterceptor`, which would remember the page a
login interrupts, is in no interceptor stack, so the model has no such step.

Run `page_flow`: seven pages, one of each kind the code distinguishes; two
requests under way where the user can ask again before the first answer, one
elsewhere (`MaxOutstanding`); one change of session. Users have a `habit` (logs
in; visits pages of every kind; searches and expands; opens miscellaneous pages
while the session changes), since pages of different habits do not meet: this
keeps the four interesting mixtures and leaves out their product.

- `LoginRefreshes`: once the answer of a login is there, no page that counts as
  loaded, nor the menu, shows what was rendered before it, however answers
  crossed (`Quiet` excludes a div for which two answers were due at once: then
  the earlier one may stay, which the code does nothing about).
- `LastAskedIsShown`: shared divs show what was last asked of them, and the
  expanded row belongs to the table it is in, also when an answer for the row of
  an earlier search arrives late.
- `ShownPageIsFilled`: a page that is shown empty is filled, or its request
  failed. `LoginDialogCloses`: whatever the user does in the second before the
  timer.

Fairness: the container serves the requests for pages, the network ends them,
and a timer that was set runs. Nothing is assumed of the user, who may stop, nor
of requests for dialogs. Deadlock is checked: a window always has something to
do.

## Searching a grid: `GridSearch`

`JqGridTableBuilder` renders a form and a jqGrid. The grid asks
`getFormToJsonFilter` for the filter whenever it loads a page of rows, and
`JqGridManagerBean.getFilterSql` makes a SQL condition of it. A filter of
jqGrid's own search dialog goes before the form's. The servlet keeps the filter
of a search that was answered as the user's search "LastAccessed", and the form
offers to put it back.

| Code | `GridSearch` |
|---|---|
| inputs of the form; `clearForm`; `jqGridFormChangeDate` | `form`; `ClearForm`; `ChangeDate` |
| `getFormToJsonFilter` | `RulesOf` (the loop over the inputs), `FormToJsonFilter` |
| `populateSavedSearch` | `InputsOf`, `Shown`, `Restored`, `PopulateSavedSearch` |
| `submitJqGridFilter`, pager, dialog, all `reloadGrid` | `Load` under `SubmitJqGridFilter`, `TurnPage`, `FilterByDialog` |
| `getQueryOperation`, `getFilterSql` | `Sat`, `Joined`, `Selects`; `Comparable`, `Malformed`, `Refused` |
| `getJsonData` | `Query`, `Found`, `Page`, `Pages` |
| `getJsonDataOutput` | `KeepSearch` |

The text of SQL and JSON is left out, what it selects is not: `Selects` is the
condition as PostgreSQL reads it, with AND binding before OR, while `Wanted`
says what the form, or the dialog, asks for without knowing about rules. That
the two agree is `GridShowsSearch`, and these are the limits the code has, which
the definitions name:

- A maximum of a timestamp includes the following midnight. A row of a midnight
  may therefore count for the day before as well as for its own (`Late`), and for
  either of them if a first day is asked for that comes after the last.
- A blank first rule before others, "not equal" of a date or a number, or a text that is no date
  where one is compared (such as the `NaN/NaN/NaN` that the day after no date
  is), makes SQL the database refuses (`Refused`); the grid then stays as it is.
- Groups of a dialog whose rules are alternatives are joined with AND
  (`OrGroups`, of which nothing is said).
- A search does not go back to the first page, so it can show an empty page of
  rows that exist; a load asked for while one is under way is forgotten, but the
  page number and the form are not. `GridShowsSearch` speaks of the load that
  was last sent and of the page it asked for.
- What cannot be put back into the form (`Restorable`): the input of a column of
  type Unique, choices that are gone (which leave the form unreadable), blanks,
  groups.

What inputs hold is any text (`Texts`), of which the blanks, the plus sign and the
dates (`Calendar`) matter to the code.

Run `grid_search`: four rows, two to a page, a time on a midnight; a form with
each kind of input, five ways to fill it, one of them with a first day after the
last, three dialogs, five searches kept before, one of them of blanks only. Users
have habits here, too. A form is typed at once; between typing and searching
anything can happen. `RestoredIsSaved`: picking a kept search into an
empty form finds what it found. `KeptIsAnswered`: a search the database refuses
is never kept. No fairness is needed.

## Saved values and quarterly results: `DataEntry`

`saveTrendline` and `saveUserSearch` are an UPDATE and, if it finds no row, an
INSERT, with no unique constraint: two first saves leave two rows.
`saveQtrResult` inserts a result, whose scrip and quarter are unique, sums the
last four quarters into the scrip's trailing earnings, and dates it. All catch
every exception.

| Code | `DataEntry` |
|---|---|
| UPDATE of a value (what it finds; its locks; its end) | `StartUpdate`, `UpdateRows`, `CommitValue` |
| INSERT of a value | `InsertRow`, `CommitValue` |
| INSERT of a result, its key, its parent | `BeginResult`, `InsertResult`, `LockParent` |
| UPDATE of the trailing earnings | `StartEarnings` (snapshot and sum), `UpdateScrip` (row lock) |
| commit | `CommitResult` |
| an exception, caught | `FailSave` |
| PostgreSQL's deadlock detection | `AbortVictim` |

An UPDATE is two steps, because under READ COMMITTED it sums what is committed
when it begins and may then wait for the row. `forShare` is again the kind of
lock a foreign key takes, chosen at the start; so is whether values or results
are entered, which share no table. A result has earnings per share; without,
the row counts for nothing in the sum.

Run `data_entry`: two sessions, five saves; two slots of a user and two values,
or one scrip, three quarters of which two count (`Trail`, four in the code), one
entered twice and one consolidated. Five saves let two races and a save after
them happen; three sessions and four saves were checked as well, and gave
nothing new. Saves are bounded, so deadlock is not checked.

- `SavedIsRead`: after a save that overlapped no other of its slot, every row of
  the slot holds its value, so the duplicates a race leaves are harmless from
  then on: an UPDATE writes them all. A race itself may end with either value,
  or with both.
- `EpsIsTrailing`: the same of the trailing earnings: a race can leave a result
  out of the sum, the next result that is alone puts it right.
- `SaveEnds`: no save waits for ever, with the stronger lock neither, where two
  results of a scrip wait for each other. Fairness: the container goes on with
  what it began, and the deadlock detector runs (weak fairness of `Continue`).

## Proofs

Proved are every invariant and action property that a passing run checks, and that
`Position` implements `Ledger`: for any sets of requests, items, files, pages and
inputs, for any tables and filters, and for any limits. The
proofs take nothing for granted but the named assumptions on the constants
(`PositionAssumption` and its like, which TLC evaluates in every run). Where one
asks for a finite set, it is of requests, URLs or ids of one day's orders, which
the program has finitely many of.

| Module | Proves about | Inductive invariant |
|---|---|---|
| `PositionProofs` | `Holding`, `Position`, `Ledger` | `IInv`, and `LInv`, which extends it |
| `WatchlistProofs` | `Watchlist` | `WInv` |
| `ProxyCacheProofs` | `ProxyCache` | `CInv` |
| `ReportProofs` | `Charts`, `ChartReport`; `OptionPnL` | `IInv`; `OInv` |
| `PageFlowProofs` | `PageFlow` | `PInv` |
| `GridSearchProofs` | `GridSearch` | `GInv` |
| `DataEntryProofs` | `DataEntry` | `DInv` |
| `SumProofs` | sums over finite sets | |

### Proofs about the ledger

With both kinds of lock:

- `TypeCorrect`: `Spec => []TypeOK`.
- `StockCorrect`: `Spec => []SihMatchesLedger`.
- `ParentsStay`: `Spec => []ParentsExist`.
- `AdditionsCurrent`: `Spec => []AddsSeeCurrentRow`.

These follow from one inductive invariant, `IInv`, the conjunction of

- `TypeOK` and `Shaped` (a request at a point has the order and the item that
  point needs);
- `Numbered`: transaction ids, those of uncommitted insertions included,
  identify rows, and a request that deletes a row rebuilds the item of that row.
  Without it a rebuild could leave out a row of another item;
- `Locked`: `ParentsExist` and `AddsSeeCurrentRow`, together with mutual
  exclusion between the holder of an item's exclusive lock and those of its
  shared lock, on which both rest;
- `Informed`: what a request whose read is current (`fresh`) holds is what the
  database holds;
- `SihMatchesLedger`.

`SihMatchesLedger` is not inductive alone: that `CommitAdd` keeps it needs
`Informed` (the value is the current stock plus the order) and `Numbered` (the
row is new). The step of the ledger needs that adding a row to any finite set of
rows adds its signed quantity to the replayed stock, wherever its date puts it
in the order. The first part of the module proves it by induction on the number
of rows, stated as a set of natural numbers that contains zero and successors,
and first that the recursive function in `Replay` is well defined.

The rest follows from `LInv`:

- `RateCorrect`: `Spec => []RateMatchesLedger`. The row of an addition that came
  in the order of dates is the last of the replay, so the replay is that of the
  earlier rows and one step more; a rebuild's is that of all rows.
- `StockExplained`: `Spec => []StockIsExplained`. A lost update leaves a stock
  made of some recorded rows and not of others. What a request holds before it
  writes must be such a sum already, and the sum may not contain the row it
  is about to add, which has a new id: `Explained` and `Recorded`.
- `LedgerImplemented`: `ForShare => (Spec => ImplementsLedger)`. `AddMaps`,
  `RebuildMaps`, `RemoveMaps` and `OrphanMaps` map the four commits to `Record`,
  `Rebuild`, `Remove` and `RecordOrphan`; every other step stutters
  (`OthersStutter`). `AddMaps` is where the stronger lock is needed, through
  `AddsSeeCurrentRow`. That the abstract ledger finds an id within its bound
  for an insertion rests on `Budget`: ids drawn and ids promised to requests
  together stay within `MaxTrans`.

`LInv` is `IInv` with these parts, with `RateMatchesLedger`, and with `Owned`
(an item about to be removed is there, since its row is locked).

### Proofs about watchlists

`WatchlistTypes`, `ItemsOwned`, `ItemsLimited`, `ListsLimited`, `CopiesLimited`
and `AddedListed` prove the six invariants of the run `watchlist`, for any number
of requests, users and scrips and any limits.

A limit is checked by one statement and used up by a later one. In `ItemsBounded`,
the items of a list are counted together with the requests that nothing keeps
from inserting into it any more (`Filling`): additions that passed the check, and
creations, which pass none but put their item into the largest id. That sum
stays below the limit plus the number of requests: a request joins `Filling` only
if the list was below its limit, when all that were in it are at most all the
others. `ListsBounded` and `CopiesBounded` are the same for lists and duplicates.
It took a `Filling` with every creation of a *lower or equal* id: `max(id)` may
still become this list. `Shaped` says what a request has at each point, among it
that the list whose id a creation found belongs to its user, from which
`ItemsOwned` follows.

### Proofs about the reply cache

`CacheTypes`, `AccountsCover`, `AccountsExact` and `EntriesKeepFiles` prove the
four invariants of the run `proxy_accounts`, for any threads, URLs, blocks and
sizes, and whether or not open files can be deleted.

`NeverUndercounts` alone is not inductive. A file that one fetch truncates while
another still writes to it has length 0 and regains its former length with that
writer's next block, which is accounted for with the block's size only. So
`Covered` says that the account covers not the lengths but some bound for every
file, which its length, the places its writers have reached, and the length an
eviction is about to give back all respect. A writer moves its bound by what it
writes, a deletion takes the bound of its file away, and nothing else lowers
one. `Apart` and `Exact` say, as long as nothing was `disturbed`, that every
fetch has a file of its own which is not in the table, as long as what it has
written. `Held` is mutual exclusion: who evicts or cleans holds the monitor, so
what it picked is still in the table when it deletes it.

### Proofs about option profit and loss

`ReportTypes`, `OrdersStay` and `TotalsAddUp` prove the type invariant,
`OrdersStayInReport` and `TotalIsSumOfOrders`, for any day, prices and
algorithms. `OInv` has `DayKept`, that running and exited orders are together those
of the day, of which there are finitely many because ids are unique; and
`RowIsCurrent`, that the two lists are divided as of the time of the row, which
makes the row a function of orders and prices. A total is then the sum over the
columns of the sum over a column's orders; `SumPartition` exchanges them, if no
algorithm has two columns.

### Proofs about a browser window

`WindowTypes`, `LoginsRefresh` and `LastAskedShown` prove the three invariants of
the run `page_flow`, for any pages, searches, urls, habits and bounds, where TLC
has seven pages and four habits.

The properties speak of divs for which nothing is due. `PInv` says of every div
what is due for it, in `DivInv`: unless it is `overlapped`, at most one answer;
if none and there was no error, the div shows what it should; if one, that one
is for what was `wanted` last and, if the server has made it already, not from
before the last login. So whatever arrives, the div shows what it should
afterwards. For a row it also says that it is only waited for while the table it
was asked from is shown, since an answer for a row without a table is dropped
(`DeliverDrops`), and that it is for the search of this table. That what is
rendered now is not older than the last login needs that logins are counted by
the session (`WindowInv`). `AskHere` says that asking makes `DivInv` true of a div
whatever it was before, which is why resetting flags and asking for the
dashboard and the menu is enough after a login (`LoginKeeps`): of the other pages
only those no login resets still count as loaded.

### Proofs about saved values and results

`SavedRead` and `EpsTrailing` prove the two invariants of the run `data_entry`,
for any sessions, slots, values and results. `AloneIsAlone` says that a request
marked as alone shares its slot or scrip with no request under way. From it
follows that what it found when it began is all there is when it writes:
`ValuesInv` says so of the rows an UPDATE reaches, also that ids of rows are
unique, those of uncommitted rows included; `ResultsInv` of the results that are
summed.

### Proofs about searching a grid

`SearchTypes`, `SearchShown`, `RestoredSaved` and `KeptAnswered` prove the four
invariants of the run `grid_search`, for any table, calendar, order of the inputs,
forms, dialogs and page size, from `GridSearchAssumption` (which rows, texts and
filters there are) and `OfferedAssumption`: a search the page offers was kept by an
earlier page, and so was answered. That is `KeptIsAnswered` of that page; the proof
is one step of the induction over pages.

The state's part is short. `GInv` adds to the four `Under`, what a load under way
will find (the filter it carries selects what was `asked`, and what a picked search
found), and `Answered`, that rows on their way are those of that filter and that it
is not refused. A load is the only step that sets either, so what a user types or
clicks afterwards cannot disturb them (`LoadKeeps`), and a load that is dropped
leaves both as they are.

The work is in what a load makes true when it is sent, two lemmas about operators:

- `LoadFinds`: a filter that is not refused finds the rows wanted and the late
  ones. `FormRules` says which rules the loop over the inputs makes, in any
  order of the form; `SatIsMeets` that SQL's comparison of one column agrees with
  the user's if a midnight counts for both its days; `FormMeets` and
  `DialogSelects` put them together, the latter with AND binding before OR.
  This is where the definition of `Late` comes from: with late rows only of the
  last day a form whose first day follows its last was a counterexample, which TLC
  confirmed once it had such a form.
- `RestoredFinds`: a search that is `Restorable`, put into an empty form, makes a
  filter that finds the same rows. `RestoredRules` shows that every rule finds
  exactly its own input (`InputsOfRule`) and every input one rule. The rules
  may come in another order, so the filters need not be equal, only what they find.

`LoopRules` and `HasLargest` are inductions stated with sets, by `SetInduction`.

### Sums

`SumFunctionOnSet` of the community modules is a fold, a recursion that chooses
its next element. `SumProofs` proves, by an induction stated with sets as above,
that the recursion has a solution on finite sets and that the choice does not
matter, and then what the other modules use: the sum of a set with one element
more, of two sets, of a function changed at one place, of a smaller function,
and of the parts of a set.

### Proofs about chart reports

For any threads, requests of the 22 charts, values of parameters and length of
reports, from `ChartReportAssumption` and `HoleAssumption` (a hole is not a
block of a report):

- `TypeCorrect`: `Spec => []TypeOK`.
- `SubjectsRight`: `Spec => []SubjectIsRight`.
- `NamedChartsOwn`: `Spec => []FullyNamedIsOwn`.
- `AloneExact`: `Spec => []AloneIsExact`.

The inductive invariant is the conjunction of `TypeOK`; `Progress` (a thread
that writes has not reached the end of its report); `Kept` (what is in a file,
or was sent from it, was written by some request whose file has that name, or
is a hole); and `Exact` (what an undisturbed thread finds in its file is what
it wrote, and it has sent the beginning of that). `SubjectsRight` and
`NamedChartsOwn` follow from `Kept` and from facts of the table: two requests
with the same file name have the same subject (`SameFileSameSubject`), and for
the two fully named charts the same report (`SameFileSameReport`). They are
the facts that a change of a generator could break. `Exact` needs that no other
thread's opening or writing of the file leaves a thread in `alone`
(`OthersStep`).

### Not proved

Only model-checked:

- liveness (`EveryRequestAnswered` twice, `MonitorReleased`, `ReportEnds`,
  `ShownPageIsFilled`, `LoginDialogCloses`, `SaveEnds`), which needs fairness and
  ENABLED, outside what the proof system supports;
- the three violations, which are single behaviours.

## Not modelled

- **Vendored scripts.** Of the 79,561 lines of JavaScript in the repository
  about a thousand are the portal's own: `page-flow.js` and `global.js`, and
  older copies of both in the administration site. The others are jQuery,
  jQuery UI, jqGrid, moment, colorbox and their themes and translations, copied
  unchanged. A model of those would say nothing of this program, so a share of
  the JavaScript is no measure of what is covered here; the program is the Java
  below `src/src/java`, of which most lines are accessors and read-only SQL.
  `PageFlow` covers the own scripts' state; what they rely on, jQuery's requests
  and jqGrid's loading of a page, is modelled from its use and marked external.
- **The administration site** has the same scripts with six pages. Its
  `loginSuccess.jsp` resets no flag and shows the user's home page, so
  `LoginRefreshes` does not carry over to it.
- **Order placement** depends on the pages of two brokers, of which the
  repository has neither a copy nor a test.
- **The Redis cache** is only read, and the program that fills it is not in the
  repository.
- **The end-of-day pipeline** and the linking of scrips cannot run at this
  commit: `DataProcessorMDB.java:48` is commented out.
- **Option orders and request tokens** are single statements.
- **Queries and rendering**: which rows SQL returns is the database's matter,
  how they look that of JSP pages. Of grids, sorting, formats, and the other
  operations of jqGrid's dialog are left out.
- **Ownership of items** (the code's own "Todo check weather WL belng to the
  logged user") is not a property of these models, since no operation checks it.
- **Crashes** of the server are the same as a rollback, because nothing is kept
  outside the database, except for the proxy, whose constructor deletes its
  files, for the files of chart reports, which a crash leaves as an exception
  does, and for HTTP sessions, whose end `PageFlow` has (`ChangeSession`).
