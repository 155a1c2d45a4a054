# CryptoArbitrage in TLA+

A verification project for CryptoArbitrage (`src/cryptoarb`): the live engine, the services beside it and
the algorithms that choose what is traded. TLA+ modules translated from the source, TLC configurations
that check them on small instances, and theorems checked by TLAPS for every value of the constants.

## 1. The system

One Python process runs the engine in an asyncio event loop; one further thread writes the database and
one runs the daily recalibration. The OBI lead-lag service is a process of its own, and the
recalibration can be started by hand in another.

| Component | Source | State it keeps | Operations | Talks to |
|---|---|---|---|---|
| Trade emulator | `emulator.py`, `risk.py` | open positions, cooldown and ban stamps, statistics, closed-trade deque | `try_open`, `try_open_dir`, `try_close`, `try_close_dir`, `estimate_close_pnl`, reload at start | called by strategies and engine; writes to storage |
| Scanner, funding loop | `engine.py`, `strategies/zscore.py`, `strategies/funding/crypto_funding.py` | locals held across awaits | `_scanner_loop`, `_scan_once`, `_funding_loop`, `_scan_funding_arbitrage`, `scan_opportunities`, `check_exits`, `on_scan_symbol` | read market state, await order books, call the emulator |
| Stream supervision | `engine.py`, `connectors/ccxt_connector.py` | tasks per exchange, restart counters, last tick | `_price_stream`, `_stream_watchdog`, `_symbols_refresh_loop`, `start`, `stop` | own the connectors; feed the market state |
| Market state | `market_state.py` | last price and funding rate per exchange and symbol | `update_price`, `update_funding`, `quotes_for` | fed by streams, read by every scan |
| Storage | `storage.py` | queue, the writer's buffers, the SQLite transaction | `save_*`, `_writer`, `flush`, `close`, start-up reads | engine thread to writer thread |
| Order-book cache | `engine.py` `_get_ob` | cache with a time to live, semaphore | `_get_ob` | awaited by scans |
| Z-score tracker | `zscore_tracker.py` | last price of the minute per exchange, bars of each pair of exchanges | `prewarm`, `on_tick`, `push_bar`, `get_z` | fed by price ticks |
| Volume/OI strategy | `strategies/volume_oi/` | candles, running volumes, spikes, whitelist with circuit breaker, virtual orders and positions | `on_price_tick`, `update_candle`, `check_signal`, `submit_signal`, `on_market_update`, `record_trade_result` | driven by ticks and scans |
| OBI lead-lag | `strategies/obi_lead_lag/` | lag books, cooldowns, a deque of paper trades | `on_depth_update`, connect and reconnect, `stop` | two WebSocket venues |
| Recalibration, cross-coin | `recalibration/`, `strategies/cross_coin.py` | the schedule, the registry file with its temporary file, the loaded pairs | `_run_loop`, `run`, hot reload | reads the candle archive, replaces a file the strategy reads |
| Candle archive | `candle_updater.py` | one parquet file per exchange and coin | `sync_candles`, `update_exchange`, `fetch_1m_safe` | called by the maintenance loop; read by tracker and recalibration |
| Sizing and pair choice | `calc.py`, `risk.py`, `emulator.py`, `strategies/funding/common.py`, `strategies/spread_arb.py` | none | walks and fills of a book, sizes, funding payments, best pair | called by strategies and emulator |
| Research | `recalibration/wfa.py`, `research/` | none | pair simulators, folds, verdicts, signal backtests and their datasets | choose what the engine trades |
| Rest | dashboard, loggers, alerts, config, `backtest/`, scripts | - | - | presentation, file and network I/O, offline numerics |

What is hard here: several asyncio tasks read shared state, await order books or connects, and then act on
what they read; a watchdog, a symbol refresh and `stop()` replace each other's tasks; a writer thread
batches rows, any statement of which may fail; the emulator's rules (cooldown, loss ban, limit) are kept
in time stamps that must stand for a whole history; ticks of several exchanges build one candle and one
bar each; files are written in place or replaced while another task or process reads them; two copies of
one algorithm must agree; and the process forgets most of its state at a restart. `PROJECT.json` lists
these hazards line by line.

## 2. The modules

| Module | Models | Kind |
|---|---|---|
| `TradeBook` | what the emulator promises its callers | abstract specification |
| `Emulator` | `Emulator` of `emulator.py` | component, implements `TradeBook` |
| `Scanner` | the two tasks that call the emulator, with their strategies | extends and implements `Emulator` |
| `StreamSupervisor` | price streams, watchdog, symbol refresh, stop | component |
| `Storage` | queue, writer thread, transaction, close, crash | component |
| `VolumeOI` | orders, cooldowns and circuit breaker of `strategies/volume_oi/` | component |
| `Feeds` | a price through market state, z-score tracker and volume/OI candles to a signal | component |
| `OBI` | the lead-lag service: two venues, one engine | component |
| `CandleArchive` | one candle file under the maintenance loop | component |
| `Recalibration` | schedule, pipelines, registry file and hot reload | extends `CandleArchive`, composes |
| `Sizing` | book walks, sizes, fills, funding payments, choice of the pair | functions |
| `PairResearch` | pair simulators, folds, efficiencies and verdicts, of the service and of the research | functions |
| `SignalBacktest` | the two backtests of volume/OI signals | functions |
| `CoinDataset` | the dataset those backtests load | functions |
| `Algorithms` | calls of these functions, and what they promise | composes the four |
| `EngineProofs` (of `Emulator` and `Scanner`), `StreamProofs`, `StorageProofs`, `VolumeOIProofs`, `OBIProofs`, `FeedsProofs`, `RecalibrationProofs` (with `CandleArchive`), `AlgorithmsProofs` (with the four modules of functions) | | proofs |
| `MCScanner`, `MCStreams`, `MCStorage`, `MCVolumeOI`, `MCFeeds`, `MCOBI`, `MCRecalibration`, `MCAlgorithms` | | instances for TLC |

### Emulator and TradeBook
Variables carry the names of the code: `open_positions`, `last_open`, `last_loss`, `stats`,
`closed_trades`; `journal` is the last record handed to the log and to the storage for each trade.
One action per public operation; calls that return early change nothing and are stuttering steps.
Data is abstracted to what the code branches on: which legs the books fill, whether |z_in| >= 4, the
sign of the realised PnL. The key of a pair is (symbol, long, short); that of a directional trade is
(symbol, exchange, side), and `CooldownActive` compares both, as the code does, with the exchange
pair of each position. `TryOpenDir` takes the time of the scan pass, which may lie in the past.
`TradeBook` has no stamps and no table: an entry is allowed when the whole history of its key allows
it. `ImplementsBook` is the refinement, with `book <- journal`.

### Scanner
Two processes, `"scanner"` and `"funding"`. Each has a program counter and the locals it holds across
awaits (the pass's `now`, the symbol, positions or pairs left, the key whose books it awaits). A step
is what a task does between two awaits or less, so that the two interleave wherever the code can be
suspended. `CheckFunding` asks the cooldown with the time the scan began, before the awaits;
`OpenFunding` calls `try_open` after them. The z-score exits raise `AttributeError` whenever an exit
is due (they pass order books for quotes, and call `close_position`, which the emulator does not
have): `ExamineArb` ends the pass, as the handler in `_scanner_loop` does. The market (which exchanges
quote a symbol, what the books hold, where z-score and rates stand) is chosen at the point where the
code reads it. The 10 s timer of the funding scan is left out: the scan may follow any pass.

### StreamSupervisor
Time goes in periods of the watchdog (30 s). Per exchange: the age of `last_price_ts`, the state of the
current connector (`open`, `sick`: its client has wedged, `closed`), the task in `_ws_tasks`, the streams
still running that `_ws_tasks` has lost (`orphans`) and `_stream_restarts`. The watchdog's rebuild awaits
`close()` and `connect()` (`StartConnecting` between them): meanwhile a symbol refresh may replace the
task it read before, and time passes (`lag`), while its `now` stays. The connector under construction is a
local variable of the watchdog; `abandoned` keeps the exchanges of which one was left open, because
`connect()` raised or `stop()` cancelled the watchdog in it. The environment ticks, wedges a client, kills
a task or refuses a connection. `stop()` is three steps, as in the code: the flag, the cancellations, the
connectors.

### Storage
The engine's thread saves rows (`Put` drops on a full queue), the writer takes, buffers and flushes
them. `FlushFails` covers every place a flush can stop: the quotes, the trades after some rows, the
commit. `txn` is the table as the open transaction sees it and `db` as committed; a crash or a closed
connection throws the difference away. The insert of a scalp statistic is made outside any handler and
may kill the writer.

### VolumeOI
`orders` holds every order ever placed, live, closed or lost with its process; `coin_to_pos`,
`cooldowns`, `last_candle_minute` and `items` are the code's dictionaries and `file` is the whitelist
on disk. `OnMarketUpdate` is the whole of `on_market_update`: expiry, touch and, in the same call, the
exits of an order just filled. Prices are ticks from the order's limit price and a side is turned so
that gains count upward (`Good`, `Bad`); an ended order keeps its dates and its outcome but not its
prices. The same update is called with the clock by every price tick (`PriceTick`) and with the time
the pass began by the scanner (`CheckExits`), however long the pass has lasted. A minute is the unit of
time, so that "once a minute" is once per pass time. `Restart` forgets everything but the file; a
process killed in the middle of a save leaves a file that does not parse, which the next one replaces
with the built-in list (`forgot` remembers since when results count). The `status` of a whitelist item
is left out: nothing reads it but the test for `BLACKLISTED`, which only `update_metrics_hysteresis`,
called by tests alone, ever sets. A signal is an input here and made in `Feeds`.

### Feeds
One symbol; a minute is the unit of time and every price carries the volume 1, as in the code.
`OnPriceUpdate` is `Engine._on_price_update`: the market state keeps the price, and a two-sided one goes
to the tracker (`OnTick`) and to the strategy (`OnPriceTick`) in one step. `OnTick` closes the bar of a
pair when the first of its exchanges leaves a minute the other is still in. `OnPriceTick` has one candle
per coin for the ticks of all exchanges, filed under the exchange of its first tick when the minute
changes; `UpdateCandle` keeps the running sum of the buffer and the spikes. `OnScanSymbol` decides on
the last candle of an exchange that quotes, with `DeltaOI` over the samples the strategy was warmed with.
The EMA of the trend filter is an input; means and deviations are functions of the bars the model keeps.
Histories (`closes`, `ticks`, `dropped`) exist for the properties only.

### OBI
Prices are ticks, an empty side of a book is 0 as in the code, and a mid price is kept doubled.
`LagUpdate` is one book of the lag venue: it expires, fills and closes every trade of its symbol in one
call; `LeadUpdate` is a book of the lead venue that signals (a book that does not is a stuttering step).
`Pushed` is `deque(maxlen)`, which forgets the oldest trade whatever its state; `lost` remembers those
that were live. The venues connect, disconnect and reconnect on their own; `Shutdown` ends both.

### CandleArchive and Recalibration
A slot is what one request brings (1000 minutes). `Sync` chooses what each request answers, `Replies`: a
failed one gives up its window of slots, and the next window is tried all the same. A file being written
is torn until `Written`, and stays so if the process is killed (`KillArchive`) or the write raises
(`WriteFails`). Three histories tell what the properties speak of: the slots at which a sync went on with
a further window, the newest slot ever written, and whether a write was cut short. `Recalibration` adds
the service's loop with the arithmetic of `_seconds_until_target_hour` (on the last day of a month after
the hour it raises: before the loop at a start, which kills the task, or inside it, which sleeps the last
delay again), the pipelines of the service and of a run by hand, each of which reads, opens the temporary
file, writes, and replaces, or fails before that, and the strategy's reload, which takes the time stamp
before it reads the file. Names and contents are kept apart: `temp` and `active` are inodes and a writer
holds an inode, so that two pipelines may write one. Which pairs pass is an input; a coin whose file is
torn is skipped.

### Sizing, PairResearch, SignalBacktest, CoinDataset and Algorithms
Pure functions, on integers: `Sizing` counts money in units of 1/10000, the backtests prices in units of
0.1 per mille. Loops over bars and levels are folds; a state of a loop is a record with the locals of the
code. Both copies of the pair simulator are instances of one step with the exits as operators, since the
copies differ there and in the last bar. A regression is replaced by its result, the z-score of a bar.
The verdicts round where the programs do (`Rounded`, half to the even): gains of a fold to three digits in
the service and four in the research, which also compares rounded in-sample gains, and efficiencies to one
digit, by fold and on the average. `Fine` and `Coarse` are units of those digits, `Trifle` the cent under
which an in-sample gain is none.
`Algorithms` calls one function with one input and keeps what it returned, so that a property relates
what two functions made of one input, or a result to a definition written independently.

## 3. Runs

| Run | Configuration | Expect | Checks | Shows |
|---|---|---|---|---|
| `scanner` | `MCScanner.cfg` | pass | `StatsBalance`, `JournalMatchesTable`, `PairLimit`, `EntriesSpaced`, `EmulatorSpec`, `ImplementsBook` | Two tasks that interleave at their awaits use the one emulator: they do so as its specification allows, although the funding scans check the cooldown before they await books, and through opens, orphan aborts, closes and time the cooldowns, the limit, the counters and the journal agree and the abstract trade book is implemented. |
| `scanner_timeout` | `MCScannerLive.cfg` | pass | `FundingTimesOut` | With funding trading alone, a position that reached its holding limit is closed. |
| `scanner_hold` | `MCScannerHold.cfg` | violation | `PositionsTimeOut` | A z-score position older than max_holding_hours stays open for ever, because its exits raise. |
| `streams` | `MCStreams.cfg` | pass | `OneLiveStream`, `StopEndsStreams`, `DeadStreamRevived` | Restarts, rebuilds, symbol refreshes and stop interleave with a stream, at every await: no double subscription, stop ends every stream and leaves open only connectors abandoned inside connect(), a dead stream is revived. |
| `storage` | `MCStorage.cfg` | pass | `PipelineKeepsLast`, `CloseKeepsAll`, `ClosedIsCommitted` | Through failing statements, half-done flushes, a full queue, close and crash, the last record of a trade is neither lost nor overtaken, and is committed at last. |
| `volume_oi` | `MCVolumeOI.cfg` | pass | `ActiveIsIndexed`, `CooldownRespected`, `LossStreakPauses`, `TrailingWins`, `OverdueEnds` | Three orders of a coin through ticks, stale scan passes and a restart, also in the middle of a save: cooldowns and pauses are kept, a trailing stop gains, no order fills late and every overdue one ends. |
| `obi` | `MCOBI.cfg` | pass | `LiveIsYoung`, `LostOnlyWhenSilent`, `LiveAreSpaced`, `OverdueEnds` | Two venues whose books interleave and whose sockets drop and return: no paper order fills late, no trade stays overdue while its venue quotes, and the bounded deque forgets a live one only when the venue is silent. |
| `feeds` | `MCFeeds.cfg` | pass | `BarsAreCommonMinutes`, `VolumeConserved` | Ticks of two exchanges in any order: the pair bars are the common minutes with their last prices, and no volume is lost between the buffers of a coin. |
| `feeds_signal` | `MCFeedsSignal.cfg` | violation | `SignalsAsDocumented` | A signal may be confirmed by one exchange only and rest on a change of open interest that is not one of five minutes, where the documents ask for two exchanges and for five minutes. |
| `recalibration` | `MCRecalibration.cfg` | pass | `HolesEndAtWindows`, `StuckIsExplained`, `ScheduleKept`, `SeesLatest`, `TornByTwoWriters` | The daily service, a pipeline run by hand, the hot reload, the maintenance of a candle file, failed requests and writes, and restarts, in every order over a month of three days and into the next. |
| `recalibration_daily` | `MCRecalibrationDaily.cfg` | violation | `DailyAtItsHour` | Around the end of a month the service does not run every day at its hour, as the documents say it does. |
| `algorithms` | `MCAlgorithms.cfg` | pass | `SizedEntriesFill`, `SpikeFoundAgain`, `FundingPaidWhileHeld`, `SimulatorsAgree`, `FoldsSpanTheData`, `VerdictsAgree`, `DatasetIsCausal`, `ContiguousExitsAreReal`, `TradesAreSpaced`, `DrawdownsReported` | The pure functions over bounded inputs: sizing against fills, two ways to name a pair, funding instants, the two pair simulators and verdicts, and the signal backtest with its dataset. |

**Bounds.** Scanner, with the emulator in it: one symbol, two exchanges (two pair keys and four
directional keys), two trades and clock 0..2 with cooldowns 1 and 2, every interleaving of both tasks: a
win or a loss and the next entry on its key, which is what a spacing or a ban is broken by. More symbols
only add independent keys, and the theorems are for any number of trades. `MaxTime` bounds the clock and
`Trades` the number of uuid4 values; both are in guards and nothing else is bounded.
StreamSupervisor: the watchdog's own limits (90 s, three restarts), a rebuild of up to two periods
(`MaxLag`) and two refreshes (`MaxRefreshes`), on one exchange: exchanges share only the watchdog's
round. Storage: a queue of two, two trades. VolumeOI: one coin (coins share nothing but the file), three
orders, two losses to a pause of two units, ticks that let a trailing stop move twice before the
take-profit and quotes at most two ticks apart or crossed, one restart, `MaxTime` three. Feeds: two
exchanges and so both directions of a pair, six ticks over four minutes, buffers and windows of two so
that both evict. OBI: two symbols that move against each other, a deque of two, the smallest that
`CapAssumption` allows for one signal per key and window, and a clock that leaves room for one trade
after the cooldown of another. Recalibration: days of two hours, months of three days, a window of three
slots and a retention of four (in the code 5 and 30 days, so that a first download spans several windows),
one run by hand or restart; the clock runs into the second month; the maintenance period bounds the number of
syncs, which come late or after a restart at any slot; `recalibration_daily` has days of four
hours and no run by hand.
Algorithms: every book of up to three levels, every list of two or three quotes, every sequence of five
bars for the pair simulators and of three for a position, every list of up to five results, one or two
folds of two candidates chosen to meet every exemption of `VerdictsAgree`, files of four
minutes with and without a hole and with samples before, between and after them; windows and limits of
the code are scaled down in the `.cfg`, in proportion.

**Deadlock** is not checked in the emulator (all trades used and the clock at its bound) and in the
storage (the process has ended), the orders of VolumeOI and the ticks of Feeds are bounded, the clock of
OBI and Recalibration ends, and a call of Algorithms returns once.

**Fairness.** Scanner: tasks that can run do run, time passes (asyncio runs every ready task); a symbol
read again and again is at some time quoted everywhere, and a position examined again and again at some
time meets quotes and depth (strong fairness: the market does not hide for ever; without it no exit can be
promised). StreamSupervisor: tasks run, time passes, `stop()` goes through, and an exchange connected to
again and again at last answers. Storage: both threads run, a second passes now and then, and the disk
does not refuse every flush for ever. VolumeOI: prices of a coin keep arriving; since there are finitely
many, one of them recurs, and which one is left open: weak fairness of "some tick that changes something"
would choose the price that ends the position. OBI: a client that is not stopped reconnects (weak
fairness, its loop), and a venue that is connected again and again at last delivers a two-sided book of
each symbol (strong fairness: a venue that drops the socket before each book is not the program's to
answer). Feeds, Recalibration and Algorithms state safety only. Nothing is assumed about ticks, wedging,
failures of a single call, refreshes, stops or crashes.

**What the violated runs show** is under "findings" in `PROJECT.json`: `scanner_hold`, where positions
that the README says are closed stay open for ever; `feeds_signal`, where a signal has neither the two
exchanges nor the change of open interest in five minutes that the documents ask for: one exchange is all
there can be (`OneConfirmation`, a theorem), and seconds are compared with milliseconds; and
`recalibration_daily`, where the service that is to run every day at its hour does not, around the last day
of a month. A further finding is of a run that passes: `FundingPaidWhileHeld` says exactly what is credited,
and that is not what the docstring says (`emulator.py:260-263`): a next payment that was past at the entry,
as the price feed may hold it for 300 s, is credited though it was paid before, and a close at the first
instant is credited with nothing.

**Seen while modelling, in the models, and asked by no run**: a connector whose `connect()` fails or is
cancelled during a rebuild is never closed (`engine.py:400-402`, where `start()` closes one that fails,
170-176; `StopEndsStreams` exempts it by the name `abandoned`); the service's `is_valid` compares the
exact average efficiency, what is traded the rounded one (`wfa.py:305`, `pipeline.py:115`); service and
research round gains to different digits, so that four folds of 0.0004 pass in one and fail in the other;
the limit on open positions never applies to directional keys (`emulator.py:169` compares a side with an
exchange); one exception in an exit ends the whole pass (`engine.py:553`); three silent restarts in a row
cannot be counted, and a failed rebuild leaves a closed connector whose stream looks alive
(`engine.py:361`, `401`); `close()` of the storage waits for ever if the writer has died and the queue is
full (`storage.py:186`); a paper BUY fills against an empty ask side, whose best price is 0.0
(`obi_lead_lag/engine.py:173`); `has_open_position` of a cross-coin pair is set nowhere, so that the
graceful exit of an open pair never happens (`cross_coin.py:152`); a spike that converges after its window
is still credited, as the convergence is tested before the window (`engine.py:797`, against its docstring
at 788); `update_metrics_hysteresis` admits at a turnover of 5M where its docstring says 10M
(`selector.py:369`, 346); `shift(5)` counts rows, not minutes, over a hole in the candles
(`volume_oi_backtest.py:119`, whose comment says minutes); the drawdown of the signal backtest leaves out
a fall from the start (`volume_oi_backtest.py:339`, the exact difference is in `DrawdownsReported`); the
screener compares the series of two coins by position, not by time (`screener.py:101`).

## 4. Proofs

For all values of the constants that satisfy the named assumptions of the modules. Every safety
property of a passing run, and both refinements, are theorems:

| Theorem | Module | What |
|---|---|---|
| `Correctness` | `EngineProofs` | The inductive invariant of the emulator: types, and journal, table and stamps agree. |
| `EntriesRespectCooldowns` | `EngineProofs` | Entries on a key are a cooldown apart and keep the loss ban (LossBan), for all cooldowns and any number of trades. |
| `PairLimitHolds` | `EngineProofs` | Never more than MaxOpenPerPair positions on a pair. |
| `StatsBalanceHolds` | `EngineProofs` | Opened minus closed is the number of open positions, per strategy. |
| `EmulatorRefinesBook` | `EngineProofs` | The emulator implements the abstract trade book. |
| `ScannerUsesEmulator` | `EngineProofs` | Every step of the two tasks is a step of the emulator's specification or leaves it alone. |
| `ScannerTypeCorrect` | `EngineProofs` | Type correctness of the scanner. |
| `EnginePairLimit` | `EngineProofs` | The pair limit in the running engine, from the refinement. |
| `NoDoubleSubscription` | `StreamProofs` | No unregistered stream watches an open connector, for any set of exchanges and any bounds. |
| `OneOrderPerCoin` | `VolumeOIProofs` | A coin never has two live orders, and none that its index misses. |
| `CooldownHolds` | `VolumeOIProofs` | The cooldown after a trade holds although its end and the next order are dated by two clocks. |
| `TrailingStopsWin` | `VolumeOIProofs` | A trailing stop ends a trade with a net gain whatever the prices, if activation minus distance exceeds the fee. |
| `FillsInTime` | `VolumeOIProofs` | No order fills after its timeout. |
| `TypeCorrect` | `OBIProofs` | Type correctness of the lead-lag engine; the deque never holds more than Cap trades. |
| `NoTradeOutlivesItsTime` | `OBIProofs` | No order fills after its timeout and no trade is live once its venue has quoted past its time, for any books, deque and timeouts. |
| `SignalsAreSpaced` | `OBIProofs` | Two live trades of one symbol and side are a cooldown apart. |
| `SignalsHaveOneConfirmation` | `FeedsProofs` | Two spikes of one minute are of one exchange, so that every signal has one confirmation, for any exchanges, prices and number of ticks: the two exchanges the documents ask for cannot occur. |
| `RegistryStaysWhole` | `RecalibrationProofs` | The registry always parses unless two pipelines have written at a time, for any calendar, pairs, failures and restarts. |
| `StrategySeesLatest` | `RecalibrationProofs` | A strategy that finds the registry no newer than what it knows has the newest pairs, however its look and its read interleave with replacements. |
| `WriterLosesNothing` | `StorageProofs` | The last record of a trade is on its way to the table or the last in it, for any capacity, rows and failures of the statements, unless the queue was full when it came. |
| `CloseCommitsAll` | `StorageProofs` | When the writer has ended at the sentinel nothing is left in the queue or its buffers, and the table agrees with the last records. |
| `DequeForgetsOnlyTheSilent` | `OBIProofs` | A deque of the assumed capacity forgets a live trade only if its venue has been silent past the trade's time: a window has room for no more than one signal per key and cooldown. |
| `LossesPause` | `VolumeOIProofs` | A coin whose last results since the file was lost are LossLimit losses in a row is paused from the last of them on, through restarts, whatever the order of results and recoveries. |
| `NoTickIsLost` | `FeedsProofs` | The running sum of a buffer is the sum of its candles, and buffers, evictions and the current candle add up to the ticks, for any exchanges, limits and number of ticks. |
| `HolesAreWindowEdges` | `RecalibrationProofs` | Where a file goes on after a hole, some sync had gone on with a further window of requests at that very slot: a sync that loses contact within a window makes no hole there, for any retention and window, any failures and restarts. |
| `StuckFilesAreExplained` | `RecalibrationProofs` | Between syncs a file cannot be read exactly if a write of it was cut short, by a kill or by an error; and one whose rows were all trimmed has its newest candle ever saved behind the retention. |
| `ServiceKeepsSchedule` | `RecalibrationProofs` | The service runs at its hour but around the last day of a month, dies only if it is started there after the hour, and while it lives leaves out no day but the first two of a month, for any length of days and months and any run shorter than the assumption allows. |
| `SizesFill` | `AlgorithmsProofs` | Every size the program chooses from two books fills on both legs within the slippage limit, at no worse than the price charged, and slices reach their target, for all books and limits. |
| `SpikeIsFoundAgain` | `AlgorithmsProofs` | The direction compute_net_edge gives for the best pair is the best pair, for any number of quotes, ties and crossed quotes included. |
| `CreditedPayments` | `AlgorithmsProofs` | What a position is credited with, for every next instant, interval, entry and close: the instants held, and those before the entry when the known one is stale, less a close at the first one; without a known instant, at most one payment off. |
| `SimulationsAgree` | `AlgorithmsProofs` | The simulators of the service and of the research make the same trades, but for a position open at the last bar. |
| `FoldsEndWithTheData` | `AlgorithmsProofs` | The folds of both programs lie in the data, test what follows the training data and, with two folds or more, leave less at the end than a bar for each fold. |
| `SameVerdict` | `AlgorithmsProofs` | Given the same folds, the service and the research rate them alike, rounding included, unless a fold is not clear (another candidate, or a training gain near either limit), the gains of the tests are nearly nothing, or the average efficiency lies near 49.95 %. |
| `NothingIsForeseen` | `AlgorithmsProofs` | A row of the backtest's dataset is the same computed from the files as they were at its time, so no value comes from the future. |
| `ExitsAreReal` | `AlgorithmsProofs` | Over bars without gaps a position leaves at a price its last bar traded at, or at a stop within the bar. |
| `RunsAreSpaced` | `AlgorithmsProofs` | The trades of a backtest are within the bars, do not overlap and keep the cooldown, for every model and any bars. |
| `DrawdownsAreReported` | `AlgorithmsProofs` | The drawdown of the pair metrics is the deepest fall; the one of the signal metrics misses at most a first loss. |
| `WindowsHoldCommonMinutes` | `FeedsProofs` | A pair's window holds one bar for each of the last minutes both exchanges quoted, in order and with the prices they left them at, for any exchanges, files, window length and order of prices. |

**Assumptions.** Each is named where the constant is declared and evaluated by TLC on the instances. Most
only type a constant. Those that ask for more: `None` is no trade and no record (`NoneAssumption`,
`StorageAssumption`); symbols and exchanges are finite (`SymbolsAssumption`, `ExchangesAssumption`); some
limits, windows and pauses are not zero; the activation of a trailing stop exceeds its distance by more
than the fee, as for every item of the built-in whitelist (`TicksAssumption`); the deque of paper trades
is as large as the signals of a window can be (`CapAssumption`: 200 in the code, for 8 keys and 30 s with
a signal per 5 s); a month has more than two days, a run takes less than a day, and with the hour and the
retry still does (`CalendarAssumption`); the sides of a book are sorted and its prices divide `Unit`, so
that the quotients of a walk are whole (`BooksAssumption`); the training window is twice the test window,
as both programs have it (`WindowsAssumption`).

**The engine** (`EngineProofs`). `TypeOK` alone is not inductive for anything interesting. The emulator's
invariant adds that journal and table agree (`JournalMatchesTable`) and that the stamps cover the journal
(`StampsCoverJournal`): no entry on a key is later than its `last_open`, no losing exit later than its
`last_loss`. Then a key that passes `CooldownActive` has a history that allows the entry, which gives
`EntriesSpaced`, `LossBan` and the refinement of `TradeBook`. The limit and the balance of the statistics
need cardinalities of the finite set of trades. For the two tasks, every step is a step of `Emulator` or
leaves its variables alone, with an invariant on the locals (a pass began no later than now; an awaited
key is a pair key), so that the emulator's theorems hold in the running engine.

**Streams.** Every orphan is on a connector already replaced: only `Reconnect` makes orphans and it
replaces the connector in the same step.

**Storage.** The last record of a trade is found by following the pipeline backwards: the queue, the
writer's buffer, the transaction. Lemmas say what the last entry of a trade is (`LastOr`) when a sequence
is extended at one end or consumed at the other. The invariant adds that the sentinel is put once and is
the last thing in the queue (`StopIsLast`), and that a writer that has stopped has an empty buffer and no
row uncommitted (`StoppedIsDone`).

**Volume/OI.** Four facts beyond the properties. `Pointed`: a coin points to its last order while that is
live. `Stamped`: no order is dated after the pass that is running, and the cooldown of a coin covers every
trade of this process; a later trade cannot shorten it, because an order's end is never dated before its
placing. `Drawn`: a trailing stop lies behind a peak beyond the activation, so it guarantees activation
minus distance, which exceeds the fee. `Reckoned`: the losses kept in the file are the streak of the
history, which the property defines by recursion over it, and the pause covers the time since the last of
`LossLimit` losses.

**OBI.** Whatever a `LagUpdate` leaves live is not past its time at that very book, and a signal is dated
after it. For `SignalsAreSpaced` no stamp lies ahead of the clock and no live trade of a key was entered
after the key's cooldown stamp. For the deque: an ended trade no longer says when it was signalled, so the
invariant asserts that such times exist, which rise along the deque and are a cooldown apart for each key.
Were a live trade forgotten within its window, all others would lie in that window, which has room for
`(Window - 1) \div Cooldown + 1` of each key: too few to fill the deque (a pigeonhole over keys and
slots).

**Feeds.** Every spike is of a minute before that of the current candle, so that the next candle's minute
is new; hence one exchange per minute. The sums: the two recursive functions of the property (over the
indices of a buffer, over the subsets of the exchanges) are shown to be what their rules say and to change
by what a filed candle adds and an evicted one takes. The bars: a window `Fits` the set of common minutes
when its live bars, counted from the end, are those with as many common minutes from theirs on; the
dropped ones, of which nothing is left, are known by being too many. A price that opens a minute adds the
minute left to the common ones exactly when the code puts a bar (`EnteredCommon`), the bar is later than
every common minute, and the prices of minutes that are over stay.

**Recalibration.** While no two pipelines have met, there is at most one writer, it holds the inode named
by the temporary name, that is not the registry's, and what it is about to rename is whole. For
`SeesLatest`, stamps rise and are given out once, and the temporary file's stamp is neither the one the
strategy knows nor the one it has just seen: a registry that was replaced is never taken for the one that
was read. The archive (`ArchiveInv`): in the file, and in the write in progress, a row without the one before
it is the oldest or a slot at which a sync went on (`Linked`); the newest row of either is the newest ever
written, so that a file is without rows only when that is behind the retention (`Fresh`); and a file is torn
exactly while it is written or since a write was cut short. The schedule: the
service sleeps until its hour or is late, after the error of a last day, by no more than the assumption
allows, and every day behind it was kept or is one of the first two of a month. The first day alone would
not do: after a long run on the last day the service may be asleep over the second too, as TLC shows with
days of three hours.

**Algorithms.** The only step is a call, so the invariant is that the result is that of the function for
an input of the assumed kind, and each theorem is one about the functions. Lemmas turn a fold over a
sequence into the states of its loop (`FoldExists`, `FoldValue`); then each loop has its own invariant.
- *Sizes*: depths grow along a side, the near levels are a prefix without a hole, and the quantity bought
  lies between size over worst and size over best price, so both legs fill and slices reach their target.
- *Best pair*: comparison of quotients by products is a weak order, and both searches return its first
  best.
- *Funding*: instants and their indices are a bijection, also for those before the entry when the known
  next one is stale; without one, the instants of any calendar in the holding time number its length in
  intervals, give or take one.
- *Simulators*: the states of the two loops agree bar by bar; they differ in what they do with a position
  open after the last one.
- *Folds*: the step is at least one bar.
- *Verdicts*: a rounded quotient is within half of the exact one; the quotients cancel because of the
  windows' ratio, so that the two efficiencies of a clear fold differ by no more than the rounding of its
  gains allows (`EfficiencyGap`); summed over the folds, two sums on different sides of a limit are then
  both near it.
- *Dataset*: the files cut at a time are prefixes of the files, and each column of a row reads only the
  prefix.
- *Backtests*: a bar held through opens the next one within its limits; the runs of trades are the states
  of one loop closed under a bar; the drawdown's state is the running peak.

**Data induction.** The library's induction rules take a predicate as a parameter, which the installed
provers do not instantiate. What is needed of it here, on naturals, is done over sets: `LeastOfNaturals`
takes a subset of the naturals from the well-founded order, and `Induct` the set of numbers of which a
statement holds. All recursion of the proved modules is by recursive functions and folds.

**Only model-checked**: the liveness properties `FundingTimesOut`, `StopEndsStreams`, `DeadStreamRevived`,
`ClosedIsCommitted` and `OverdueEnds`, since `ENABLED` and with it the fairness conditions are beyond the
prover; and the three properties that the code violates.

## 5. Plan and what is not modelled

The core (`Emulator`, `Scanner`, `StreamSupervisor`, `Storage`, `VolumeOI`), the feeds, the lead-lag
service, the recalibration and the algorithms are done. What is left, in order:

1. `Recovery`: Emulator and Storage composed over a restart (`Emulator.__init__`): what of the book
   survives, what is forgotten.
2. `OrderBookCache` (`_get_ob`): a book stamped before the fetch, failed fetches cached as None.
3. The scalp rating of `engine.py`: spikes, convergence, watchlist.
4. Theorems of these modules, and a refinement of the storage: a table of last records, of which the
   queue, the buffer and the transaction are an implementation.

**Not modelled.** The order-book cache of `_get_ob`, the scalp rating with its watchlist, and what is
read back from the database at a start: planned above. Functions that only tests call, or nothing:
`LegFailureHandler`, `check_slippage`, `plan_entry`, `plan_laddered_entry`, `score_symbol`,
`passing_signals`, `evaluate_basis_scalp`, `update_metrics_hysteresis`. Regressions, the cointegration
test, EMA and z-score arithmetic are floating point: their results are inputs. `backtest/`,
`backtest_funding.py` and the scripts are sweeps and statistics over recorded data, run by hand. Loggers,
alerts, dashboard, configuration and the socket layers are input and output.
