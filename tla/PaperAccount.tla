---------------------------- MODULE PaperAccount ----------------------------
(***************************************************************************)
(* src/trading/paper.py: PaperTradingEngine, the account of one user kept  *)
(* in one JSON file.                                                       *)
(*                                                                         *)
(* A client is a process that serves the account: the API server (one      *)
(* request at a time, its handlers do not await) or a CLI command.  Every  *)
(* request makes its own engine, so _state lives for one request.  Between *)
(* the file operations of one request the other clients run.               *)
(*                                                                         *)
(* An account is its cash and the long and short quantity of each ticker.  *)
(* Average prices, margin_held, the equity history and the price cache are *)
(* left out: no decision of execute_order reads them, but for the cached   *)
(* price that stands in for a missing one.  Money is an integer, a fee of  *)
(* Fee[p] is paid per unit at price p.                                     *)
(***************************************************************************)
EXTENDS Integers

CONSTANTS
  Client,    \* processes with an engine for the account
  Ticker,
  Price,     \* prices of the orders
  Quantity,  \* quantities asked for
  Fee,       \* Fee[p]: commission and slippage of one unit at price p
  Capital,   \* initial capitals: the default and those given to reset
  Default,   \* DEFAULT_INITIAL_CAPITAL
  NoFile,    \* a path where there is no file
  Torn,      \* a file that is not a complete JSON document
  MaxOrders, \* bound: requests that write
  MaxFaults  \* bound: faults of a process, writes and renames that fail

ASSUME PaperAssumption ==
  /\ Ticker # {} /\ Price # {} /\ Quantity # {}
  /\ Price \subseteq Nat \ {0} /\ Quantity \subseteq Nat \ {0}
  /\ Fee \in [Price -> Nat] /\ \A p \in Price : Fee[p] <= p
  /\ Capital \subseteq Nat /\ Default \in Capital
  /\ NoFile # Torn
  /\ MaxOrders \in Nat /\ MaxFaults \in Nat

VARIABLES
  disk,    \* disk[f]: what is at the path f
  fd,      \* the path under which the file a client writes to is known now
  pc,      \* where each client's request is
  order,   \* the request: [side, ticker, quantity, price]
  mem,     \* _state of its engine
  owned,   \* history: net quantity of each ticker by all orders since a reset
  overlap, \* history: two requests have overlapped
  orders, faults

client == <<fd, pc, order, mem>>
history == <<owned, overlap, orders, faults>>
vars == <<disk, client, history>>

\* user_<id>.json, and what _load_state and reset rename it to.
Path == {"json", "corrupt", "bak"}
Trades == {"BUY", "SELL", "SHORT", "COVER"}
\* PRICES is update_prices, READ the calls that only load.
Side == Trades \cup {"RESET", "PRICES", "READ"}

Account == [cash : Int, long : [Ticker -> Nat], short : [Ticker -> Nat]]
ASSUME FileAssumption == NoFile \notin Account /\ Torn \notin Account

Order == [side : Side, ticker : Ticker, quantity : Quantity, price : Price]

Fresh(capital) ==
  [cash |-> capital, long |-> [t \in Ticker |-> 0], short |-> [t \in Ticker |-> 0]]

\* Is the file a complete account?
Complete(f) == disk[f] \notin {NoFile, Torn}

TypeOK ==
  /\ disk \in [Path -> Account \cup {NoFile, Torn}]
  /\ fd \in [Client -> Path \cup {"none", "gone"}]
  /\ pc \in [Client -> {"idle", "load", "replace", "ready", "save", "write"}]
  /\ order \in [Client -> Order]
  /\ mem \in [Client -> Account]
  /\ owned \in [Ticker -> Int]
  /\ overlap \in BOOLEAN
  /\ orders \in 0 .. MaxOrders
  /\ faults \in 0 .. MaxFaults

\* Placeholder of an idle client; only trades have parameters.
NoRequest ==
  [side |-> "READ", ticker |-> CHOOSE t \in Ticker : TRUE,
   quantity |-> CHOOSE q \in Quantity : TRUE, price |-> CHOOSE p \in Price : TRUE]

Request ==
  [side : Trades, ticker : Ticker, quantity : Quantity, price : Price]
    \cup {[NoRequest EXCEPT !.side = s] : s \in Side \ Trades}

Init ==
  /\ disk = [f \in Path |-> NoFile]
  /\ fd = [c \in Client |-> "none"]
  /\ pc = [c \in Client |-> "idle"]
  /\ order = [c \in Client |-> NoRequest]
  /\ mem = [c \in Client |-> Fresh(Default)]
  /\ owned = [t \in Ticker |-> 0]
  /\ overlap = FALSE
  /\ orders = 0
  /\ faults = 0

\* A fault, if there may be one more.
Fault == faults < MaxFaults /\ faults' = faults + 1

Goto(c, where) == pc' = [pc EXCEPT ![c] = where]

\* The engine goes away with the request.
Forget(c) ==
  /\ Goto(c, "idle")
  /\ mem' = [mem EXCEPT ![c] = Fresh(Default)]
  /\ order' = [order EXCEPT ![c] = NoRequest]
  /\ fd' = [fd EXCEPT ![c] = "none"]

-----------------------------------------------------------------------------
(* The file.                                                               *)

\* os.replace: the file moves with its content; a process that has it open goes
\* on writing to it under the new name.
Rename(from, to) ==
  /\ disk' = [disk EXCEPT ![to] = disk[from], ![from] = NoFile]
  /\ fd' = [c \in Client |-> IF fd[c] = from THEN to
                             ELSE IF fd[c] = to THEN "gone" ELSE fd[c]]

\* A request arrives; those that only read are not counted.
Begin(c, o) ==
  /\ pc[c] = "idle"
  /\ orders' = IF o.side = "READ" THEN orders ELSE orders + 1
  /\ orders' <= MaxOrders
  /\ order' = [order EXCEPT ![c] = o]
  /\ Goto(c, "load")
  /\ overlap' = (overlap \/ \E d \in Client : pc[d] # "idle")
  /\ UNCHANGED <<disk, fd, mem, owned, faults>>

\* Mutant: an account with a short position does not parse.
LoadStateLongOnly(c) ==
  LET good == Complete("json") /\ \A t \in Ticker : disk["json"].short[t] = 0
  IN  /\ pc[c] = "load"
      /\ order[c].side # "RESET"
      /\ \/ good /\ mem' = [mem EXCEPT ![c] = disk["json"]] /\ Goto(c, "ready")
         \/ ~ good /\ Goto(c, "replace") /\ UNCHANGED mem
      /\ UNCHANGED <<disk, fd, order, history>>

\* _load_state: a missing file or one that does not parse sends it to the
\* except branch.
LoadState(c) ==
  /\ pc[c] = "load"
  /\ order[c].side # "RESET"
  /\ \/ /\ Complete("json")
        /\ mem' = [mem EXCEPT ![c] = disk["json"]]
        /\ Goto(c, "ready")
     \/ ~ Complete("json") /\ Goto(c, "replace") /\ UNCHANGED mem
  /\ UNCHANGED <<disk, fd, order, history>>

\* The except branch moves away whatever is at the path by now, or fails to
\* (OSError is logged), and starts a new account in memory.
ReplaceCorrupt(c) ==
  /\ pc[c] = "replace"
  /\ \/ disk["json"] # NoFile /\ Rename("json", "corrupt") /\ UNCHANGED faults
     \/ disk["json"] = NoFile /\ UNCHANGED <<disk, fd, faults>>
     \/ disk["json"] # NoFile /\ Fault /\ UNCHANGED <<disk, fd>>
  /\ mem' = [mem EXCEPT ![c] = Fresh(Default)]
  /\ Goto(c, "ready")
  /\ UNCHANGED <<order, owned, overlap, orders>>

\* reset up to its save: the file becomes .bak (OSError is suppressed).
Reset(c, capital) ==
  /\ pc[c] = "load"
  /\ order[c].side = "RESET"
  /\ \/ disk["json"] # NoFile /\ Rename("json", "bak") /\ UNCHANGED faults
     \/ disk["json"] = NoFile /\ UNCHANGED <<disk, fd, faults>>
     \/ disk["json"] # NoFile /\ Fault /\ UNCHANGED <<disk, fd>>
  /\ mem' = [mem EXCEPT ![c] = Fresh(capital)]
  /\ owned' = [t \in Ticker |-> 0]
  /\ Goto(c, "save")
  /\ UNCHANGED <<order, overlap, orders>>

\* _save_state, open(.., "w"): the file is empty from here on.
OpenForSave(c) ==
  /\ pc[c] = "save"
  /\ disk' = [disk EXCEPT !["json"] = Torn]
  /\ fd' = [fd EXCEPT ![c] = "json"]
  /\ Goto(c, "write")
  /\ UNCHANGED <<order, mem, history>>

\* json.dump and close.  Over the text of a client that had the same file open
\* the longer of the two leaves its tail.
WriteState(c) ==
  /\ pc[c] = "write"
  /\ \/ fd[c] = "gone" /\ UNCHANGED disk
     \/ /\ fd[c] # "gone"
        /\ \/ disk' = [disk EXCEPT ![fd[c]] = mem[c]]
           \/ Complete(fd[c]) /\ disk' = [disk EXCEPT ![fd[c]] = Torn]
  /\ Forget(c)
  /\ UNCHANGED history

\* The process dies, or the write raises: what is on disk stays as it is.
Die(c) ==
  /\ pc[c] # "idle"
  /\ Fault
  /\ Forget(c)
  /\ UNCHANGED <<disk, owned, overlap, orders>>

-----------------------------------------------------------------------------
(* execute_order.                                                          *)

Lesser(a, b) == IF a < b THEN a ELSE b

\* Mutant: the fees are forgotten.
AffordableNoFees(cash, p) == cash \div p

\* The quantity a cash balance buys at price p.
Affordable(cash, p) == cash \div (p + Fee[p])

\* The quantity that is filled of what the order asks for; 0: an error return.
Filled(a, o) ==
  CASE o.side = "BUY" ->
         IF o.quantity * (o.price + Fee[o.price]) > a.cash
           THEN Affordable(a.cash, o.price) ELSE o.quantity
    [] o.side = "SELL" -> Lesser(o.quantity, a.long[o.ticker])
    [] o.side = "COVER" -> Lesser(o.quantity, a.short[o.ticker])
    [] o.side = "SHORT" ->
         IF 2 * a.cash < o.quantity * o.price THEN 0 ELSE o.quantity

\* The units that come in, or go out.
Units(o, n) == IF o.side \in {"BUY", "COVER"} THEN n ELSE 0 - n

\* Mutant: the fees of a capped order are those of the order as asked for.
FillWithOldFees(a, o, n) ==
  LET d == Units(o, n)
      fees == o.quantity * Fee[o.price]
  IN  [cash |-> a.cash - d * o.price - fees,
       long |-> IF o.side \in {"BUY", "SELL"}
                  THEN [a.long EXCEPT ![o.ticker] = @ + d] ELSE a.long,
       short |-> IF o.side \in {"SHORT", "COVER"}
                   THEN [a.short EXCEPT ![o.ticker] = @ - d] ELSE a.short]

\* The account after n units of order o.
Fill(a, o, n) ==
  LET d == Units(o, n)
      fees == n * Fee[o.price]
  IN  [cash |-> a.cash - d * o.price - fees,
       long |-> IF o.side \in {"BUY", "SELL"}
                  THEN [a.long EXCEPT ![o.ticker] = @ + d] ELSE a.long,
       short |-> IF o.side \in {"SHORT", "COVER"}
                   THEN [a.short EXCEPT ![o.ticker] = @ - d] ELSE a.short]

Net(a, t) == a.long[t] - a.short[t]

\* Mutant: execute_order returns without _save_state.
ExecuteOrderUnsaved(c) ==
  LET n == Filled(mem[c], order[c])
      t == order[c].ticker
      after == Fill(mem[c], order[c], n)
  IN  /\ pc[c] = "ready"
      /\ order[c].side \in Trades
      /\ n >= 1
      /\ owned' = [owned EXCEPT ![t] = @ + Net(after, t) - Net(mem[c], t)]
      /\ Forget(c)
      /\ UNCHANGED <<disk, overlap, orders, faults>>

ExecuteOrder(c) ==
  LET n == Filled(mem[c], order[c])
      t == order[c].ticker
  IN  /\ pc[c] = "ready"
      /\ order[c].side \in Trades
      /\ n >= 1
      /\ mem' = [mem EXCEPT ![c] = Fill(mem[c], order[c], n)]
      /\ owned' = [owned EXCEPT ![t] = @ + Net(mem'[c], t) - Net(mem[c], t)]
      /\ Goto(c, "save")
      /\ UNCHANGED <<disk, fd, order, overlap, orders, faults>>

\* The error returns of execute_order.
Refuse(c) ==
  /\ pc[c] = "ready"
  /\ order[c].side \in Trades
  /\ Filled(mem[c], order[c]) < 1
  /\ Forget(c)
  /\ UNCHANGED <<disk, history>>

\* update_prices appends to the history and saves; readers are done.
UpdatePrices(c) ==
  /\ pc[c] = "ready"
  /\ order[c].side = "PRICES"
  /\ Goto(c, "save")
  /\ UNCHANGED <<disk, fd, order, mem, history>>

ReturnState(c) ==
  /\ pc[c] = "ready"
  /\ order[c].side = "READ"
  /\ Forget(c)
  /\ UNCHANGED <<disk, history>>

File(c) ==
  LoadState(c) \/ ReplaceCorrupt(c) \/ OpenForSave(c) \/ WriteState(c) \/ Die(c)

Engine(c) == ExecuteOrder(c) \/ Refuse(c) \/ UpdatePrices(c) \/ ReturnState(c)

Next ==
  \E c \in Client :
    \/ \E o \in Request : Begin(c, o)
    \/ \E capital \in Capital : Reset(c, capital)
    \/ File(c) \/ Engine(c)

Spec == Init /\ [][Next]_vars

-----------------------------------------------------------------------------
(* Properties.                                                             *)

\* A client that trades in this step.
Trading(c) == pc[c] = "ready" /\ pc'[c] = "save" /\ order[c].side \in Trades

\* An order creates and destroys no money: at its own price the account is
\* worth what it was, less the fees of the units filled, also when the order
\* was cut to the cash, the position or the short there is (execute_order,
\* l.270-345).
TradeConserves ==
  [][\A c \in Client :
       Trading(c) =>
         LET o == order[c]
             d == Net(mem'[c], o.ticker) - Net(mem[c], o.ticker)
             n == IF d < 0 THEN 0 - d ELSE d
         IN  /\ mem'[c].cash + o.price * d = mem[c].cash - n * Fee[o.price]
             /\ \A t \in Ticker \ {o.ticker} : Net(mem'[c], t) = Net(mem[c], t)]_vars

\* No order but COVER takes the account below zero, or further below: BUY is cut
\* to what the cash pays for, fees included, whatever was bought, shorted or
\* covered before (execute_order, l.291-301).
OnlyCoverOverdraws ==
  [][\A c \in Client :
       Trading(c) /\ mem'[c].cash < 0 =>
         order[c].side = "COVER" \/ mem'[c].cash >= mem[c].cash]_vars

\* While requests do not overlap and nothing fails, the file is the account:
\* between requests it holds every unit bought and sold since the last reset,
\* though each request starts from the file alone (_load_state, _save_state).
QuietAccountKept ==
  ~ overlap /\ faults = 0 /\ (\A c \in Client : pc[c] = "idle") =>
    \A t \in Ticker :
      owned[t] = IF Complete("json") THEN Net(disk["json"], t) ELSE 0

\* A good account is never thrown out as corrupt, unless requests overlapped:
\* not by a death in the middle of a save and not by a failed rename
\* (_load_state, l.142-150).
GoodFileKept == Complete("corrupt") => overlap
=============================================================================
