------------------------------ MODULE Scanner ------------------------------
(***************************************************************************)
(* The two asyncio tasks of cryptoarb/engine.py that call the emulator:    *)
(*                                                                         *)
(*   "scanner"  _scanner_loop: a pass over the symbols (exits, then        *)
(*              entries, of every strategy), then at times a scan for      *)
(*              funding entries (CryptoFundingStrategy.scan_opportunities) *)
(*   "funding"  _funding_loop: refreshes rates, then makes the engine's    *)
(*              own scan for funding entries (_scan_funding_arbitrage)     *)
(*                                                                         *)
(* They share one event loop and one Emulator, and interleave wherever     *)
(* they await an order book.  An action is what a task does between two    *)
(* awaits, or less.  The market is the environment: which exchanges quote  *)
(* a symbol, what the books hold and which way z-score and rates moved are *)
(* chosen at the point where the code reads them.                          *)
(***************************************************************************)
EXTENDS Emulator

CONSTANTS SymbolOrder,     \* Engine.symbols, sorted
          ZscoreEnabled,   \* zscore.enabled
          DirEnabled,      \* dir.enabled
          LegacyStrategies,\* what the legacy branch opens: subset of {"scalp", "arb"}
          TimeStop,        \* zscore.timestop_sec
          MaxHold          \* funding_arb.max_holding_hours

ASSUME ScannerAssumption ==
  /\ SymbolOrder \in Seq(Symbols)
  /\ ZscoreEnabled \in BOOLEAN /\ DirEnabled \in BOOLEAN
  /\ LegacyStrategies \subseteq PairStrategies \ {"funding"}
  /\ ZscoreEnabled => "arb" \in PairStrategies
  /\ "funding" \in PairStrategies
  /\ TimeStop \in Nat /\ MaxHold \in Nat

VARIABLE task  \* where each task is, and the locals it holds across awaits

scanVars == <<vars, task>>

Tasks == {"scanner", "funding"}

(* Unordered pairs of exchanges: itertools.combinations                    *)
Pairs(exchanges) == {{a, b} : a \in exchanges, b \in exchanges} \ {{a} : a \in exchanges}

Pc == {"sleep",        \* between two rounds
       "quotes",       \* pass: about to read the quotes of SymbolOrder[i]
       "arb_exits",    \* pass: ZScoreStrategy.check_exits, todo positions
       "funding_exits",\* pass: CryptoFundingStrategy.check_exits, todo positions
       "arb_entries",  \* pass: ZScoreStrategy.on_scan_symbol, pairs left
       "legacy",       \* pass: legacy scalp / dir branch
       "tail",         \* the pass is over, or was aborted by an exception
       "f_quotes",     \* funding scan: about to read the quotes of SymbolOrder[i]
       "f_pairs",      \* funding scan: pairs left
       "f_books"}      \* funding scan: awaiting the two books for key

AtSymbol == {"arb_exits", "funding_exits", "arb_entries", "legacy", "f_pairs", "f_books"}

ScannerTypeOK ==
  /\ TypeOK
  /\ task \in [Tasks -> [pc: Pc, at: Nat, i: Nat, todo: SUBSET Trades,
                         pairs: SUBSET SUBSET Exchanges, quoted: SUBSET Exchanges,
                         key: PairKeys \cup {None}]]
  /\ \A w \in Tasks :
       /\ task[w].at <= now
       /\ task[w].pc \in {"quotes", "f_quotes"} => task[w].i \in 1 .. Len(SymbolOrder) + 1
       /\ task[w].pc \in AtSymbol => task[w].i \in 1 .. Len(SymbolOrder)
       /\ task[w].pc = "f_books" => task[w].key \in PairKeys

-----------------------------------------------------------------------------
Me(w) == task[w]
Symbol(w) == SymbolOrder[Me(w).i]
Emulating == UNCHANGED vars

(* The locals of a task that holds nothing but its place in the loop.      *)
At(pc, at, i) == [pc |-> pc, at |-> at, i |-> i, todo |-> {}, pairs |-> {}, quoted |-> {},
                  key |-> None]
Idle == At("sleep", 0, 0)

Become(w, local) == task' = [task EXCEPT ![w] = local]
Goto(w, pc) == Become(w, [Me(w) EXCEPT !.pc = pc])

(* The loop variable moves on; the locals of the last symbol are dead.     *)
NextSymbol(w, pc) == Become(w, At(pc, Me(w).at, Me(w).i + 1))

OpenOf(strategy, symbol) == {t \in OpenWith(strategy) : open_positions[t].symbol = symbol}

-----------------------------------------------------------------------------
(* The pass of the scanner task: _scan_once                                *)

BeginPass ==
  /\ Me("scanner").pc = "sleep"
  /\ Become("scanner", At("quotes", now, 1))
  /\ Emulating

(* fresh: the exchanges whose quote is neither stale nor an outlier.  With *)
(* fewer than two the symbol is skipped, its exits included.               *)
ReadQuotes(fresh) ==
  /\ Me("scanner").pc = "quotes" /\ Me("scanner").i <= Len(SymbolOrder)
  /\ \/ Cardinality(fresh) < 2 /\ NextSymbol("scanner", "quotes")
     \/ /\ Cardinality(fresh) >= 2
        /\ Become("scanner", [Me("scanner") EXCEPT
             !.pc = "arb_exits", !.quoted = fresh,
             !.todo = IF ZscoreEnabled THEN OpenOf("arb", Symbol("scanner")) ELSE {}])
  /\ Emulating

EndPass ==
  /\ Me("scanner").pc = "quotes" /\ Me("scanner").i > Len(SymbolOrder)
  /\ Goto("scanner", "tail")
  /\ Emulating

(* What check_exits finds for a position after awaiting its books: no      *)
(* quotes or no depth to exit into; no reason to exit; a reason to exit.   *)
Markets == {"dark", "calm", "exit"}

Tradable(t, market) ==
  /\ {open_positions[t].exch_long, open_positions[t].exch_short} \subseteq Me("scanner").quoted
  /\ market # "dark"

Held(t, limit) == Me("scanner").at - open_positions[t].open_ts >= limit

Checked(t) == [Me("scanner") EXCEPT !.todo = @ \ {t}]

(* Every exit of check_exits calls estimate_close_pnl with order books in  *)
(* place of quotes, or Emulator.close_position, which does not exist: an   *)
(* AttributeError ends the pass, caught by _scanner_loop.                  *)
ExamineArb(t, market) ==
  /\ Me("scanner").pc = "arb_exits" /\ t \in Me("scanner").todo
  /\ IF Tradable(t, market) /\ (market = "exit" \/ Held(t, TimeStop))
     THEN Goto("scanner", "tail")
     ELSE Become("scanner", Checked(t))
  /\ Emulating

ArbExitsDone ==
  /\ Me("scanner").pc = "arb_exits" /\ Me("scanner").todo = {}
  /\ Become("scanner", [Me("scanner") EXCEPT !.pc = "funding_exits",
                                             !.todo = OpenOf("funding", Symbol("scanner"))])
  /\ Emulating

(* Mutant: the emergency time stop is gone.                                *)
ExamineFunding_NoTimeout(t, market, win) ==
  /\ Me("scanner").pc = "funding_exits" /\ t \in Me("scanner").todo
  /\ Become("scanner", Checked(t))
  /\ IF Tradable(t, market) /\ market = "exit" THEN TryClose(t, win) ELSE Emulating

(* Rates inverted or decayed, spread stop, or held for too long: close.    *)
ExamineFunding(t, market, win) ==
  /\ Me("scanner").pc = "funding_exits" /\ t \in Me("scanner").todo
  /\ Become("scanner", Checked(t))
  /\ IF Tradable(t, market) /\ (market = "exit" \/ Held(t, MaxHold))
     THEN TryClose(t, win) ELSE Emulating

FundingExitsDone ==
  /\ Me("scanner").pc = "funding_exits" /\ Me("scanner").todo = {}
  /\ Become("scanner", [Me("scanner") EXCEPT
       !.pc = "arb_entries",
       !.pairs = IF ZscoreEnabled THEN Pairs(Me("scanner").quoted) ELSE {}])
  /\ Emulating

(* One pair of exchanges in ZScoreStrategy.on_scan_symbol: a gate stops it *)
(* or, with both books checked to fill, it goes to try_open.               *)
EnterArb(a, b, z4) ==
  /\ ZscoreEnabled /\ Me("scanner").pc = "arb_entries" /\ a # b /\ {a, b} \in Me("scanner").pairs
  /\ Become("scanner", [Me("scanner") EXCEPT !.pairs = @ \ {{a, b}}])
  /\ \/ Emulating
     \/ TryOpen("arb", <<Symbol("scanner"), a, b>>, z4, TRUE, TRUE)

ArbEntriesDone ==
  /\ Me("scanner").pc = "arb_entries" /\ Me("scanner").pairs = {}
  /\ IF LegacyStrategies # {} \/ DirEnabled
     THEN Goto("scanner", "legacy") ELSE NextSymbol("scanner", "quotes")
  /\ Emulating

(* A dir trade is at the exchange whose quote is older, and dated at the   *)
(* start of the pass.                                                      *)
TryDirEntry ==
  \E a \in Me("scanner").quoted, side \in Sides :
    DirEnabled /\ TryOpenDir(Symbol("scanner"), a, side, Me("scanner").at)

(* The legacy branch tries one entry per symbol: a pair, whose legs may    *)
(* fail to fill, or a dir trade.                                           *)
Legacy ==
  /\ Me("scanner").pc = "legacy"
  /\ NextSymbol("scanner", "quotes")
  /\ \/ Emulating
     \/ \E s \in LegacyStrategies, a, b \in Me("scanner").quoted, long, short \in BOOLEAN :
          a # b /\ TryOpen(s, <<Symbol("scanner"), a, b>>, FALSE, long, short)
     \/ TryDirEntry

(* After the pass; the 10 s timer of the funding scan is not modelled.     *)
Rest == Me("scanner").pc = "tail" /\ Become("scanner", Idle) /\ Emulating

-----------------------------------------------------------------------------
(* A scan for funding entries, made by either task                         *)

BeginFundingScan(w) ==
  /\ Me(w).pc = IF w = "scanner" THEN "tail" ELSE "sleep"
  /\ Become(w, At("f_quotes", now, 1))
  /\ Emulating

ReadFundingQuotes(w, fresh) ==
  /\ Me(w).pc = "f_quotes" /\ Me(w).i <= Len(SymbolOrder)
  /\ \/ Cardinality(fresh) < 2 /\ NextSymbol(w, "f_quotes")
     \/ /\ Cardinality(fresh) >= 2
        /\ Become(w, [Me(w) EXCEPT !.pc = "f_pairs", !.pairs = Pairs(fresh)])
  /\ Emulating

(* A pair passes the gates and the cooldown, which is asked about the time *)
(* the scan began; then the task awaits the books.                         *)
CheckFunding(w, a, b) ==
  /\ Me(w).pc = "f_pairs" /\ a # b /\ {a, b} \in Me(w).pairs
  /\ LET rest == Me(w).pairs \ {{a, b}}
         key == <<Symbol(w), a, b>>
     IN  \/ Become(w, [Me(w) EXCEPT !.pairs = rest])
         \/ /\ ~CooldownActive(key, Me(w).at)
            /\ Become(w, [Me(w) EXCEPT !.pairs = rest, !.pc = "f_books", !.key = key])
  /\ Emulating

(* Mutant: the check made before the awaits is trusted.                    *)
OpenFunding_Trusting(w) ==
  /\ Me(w).pc = "f_books"
  /\ Become(w, [Me(w) EXCEPT !.pc = "f_pairs", !.key = None])
  /\ \/ Emulating
     \/ \E t \in Fresh :
          Admit(t, [strategy |-> "funding", symbol |-> Me(w).key[1],
                    exch_long |-> Me(w).key[2], exch_short |-> Me(w).key[3],
                    side |-> "long", open_ts |-> now, z4 |-> FALSE])

(* The books arrived: too thin, or both legs fill and try_open decides.    *)
OpenFunding(w) ==
  /\ Me(w).pc = "f_books"
  /\ Become(w, [Me(w) EXCEPT !.pc = "f_pairs", !.key = None])
  /\ \/ Emulating
     \/ TryOpen("funding", Me(w).key, FALSE, TRUE, TRUE)

FundingPairsDone(w) ==
  /\ Me(w).pc = "f_pairs" /\ Me(w).pairs = {}
  /\ NextSymbol(w, "f_quotes")
  /\ Emulating

EndFundingScan(w) ==
  /\ Me(w).pc = "f_quotes" /\ Me(w).i > Len(SymbolOrder)
  /\ Become(w, Idle)
  /\ Emulating

-----------------------------------------------------------------------------
ScanInit == Init /\ task = [w \in Tasks |-> Idle]

Pass ==
  \/ BeginPass
  \/ \E fresh \in SUBSET Exchanges : ReadQuotes(fresh)
  \/ EndPass
  \/ \E t \in Trades, market \in Markets : ExamineArb(t, market)
  \/ ArbExitsDone
  \/ \E t \in Trades, market \in Markets, win \in BOOLEAN : ExamineFunding(t, market, win)
  \/ FundingExitsDone
  \/ \E a, b \in Exchanges, z4 \in BOOLEAN : EnterArb(a, b, z4)
  \/ ArbEntriesDone
  \/ Legacy
  \/ Rest

FundingScan(w) ==
  \/ BeginFundingScan(w)
  \/ \E fresh \in SUBSET Exchanges : ReadFundingQuotes(w, fresh)
  \/ \E a, b \in Exchanges : CheckFunding(w, a, b)
  \/ OpenFunding(w)
  \/ FundingPairsDone(w)
  \/ EndFundingScan(w)

Clock == Tick /\ UNCHANGED task

ScanNext == Clock \/ Pass \/ \E w \in Tasks : FundingScan(w)

ScanSpec == ScanInit /\ [][ScanNext]_scanVars

(* The event loop runs every task that can run and time goes on.  The      *)
(* market does not hide for ever: a symbol read again and again is some    *)
(* time quoted everywhere, and a position examined again and again some    *)
(* time meets quotes and books deep enough to exit into.                   *)
Fairness ==
  /\ WF_scanVars(Clock)
  /\ WF_scanVars(Pass \/ FundingScan("scanner"))
  /\ WF_scanVars(FundingScan("funding"))
  /\ \A i \in 1 .. Len(SymbolOrder) :
       SF_scanVars(Me("scanner").i = i /\ ReadQuotes(Exchanges))
  /\ \A t \in Trades :
       /\ SF_scanVars(ExamineArb(t, "calm"))
       /\ SF_scanVars(\E win \in BOOLEAN : ExamineFunding(t, "calm", win))

FairScanSpec == ScanSpec /\ Fairness

-----------------------------------------------------------------------------
(* PROPERTIES                                                              *)

(* The two tasks use the emulator as its own specification allows: with    *)
(* this, everything proved of Emulator holds of the running engine.  It is *)
(* Spec, with the stutter that most steps are looked for first.            *)
EmulatorSpec == Init /\ [][UNCHANGED vars \/ Next]_vars

(* A funding position that reached max_holding_hours gets closed, though   *)
(* the pass may skip its symbol, find no depth, or be busy elsewhere.      *)
FundingTimesOut ==
  \A t \in Trades :
    (t \in OpenWith("funding") /\ now - open_positions[t].open_ts >= MaxHold) ~> t \notin Open

(* Emulator docstring, line 10: "a position older than max_holding_hours   *)
(* is closed by force", of whatever strategy.                              *)
PositionsTimeOut ==
  \A t \in Trades :
    (t \in Open /\ now - open_positions[t].open_ts >= MaxHold) ~> t \notin Open
=============================================================================
