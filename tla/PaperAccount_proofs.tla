------------------------- MODULE PaperAccount_proofs -------------------------
(***************************************************************************)
(* Proofs about PaperAccount.tla, for any clients, tickers, prices, fees   *)
(* not above the price, and quantities: an order conserves money, only     *)
(* COVER overdraws the account, and without overlapping requests a good    *)
(* file is never thrown out.                                               *)
(***************************************************************************)
EXTENDS PaperAccount, TLAPS

\* The fields of an account and of an order.
LEMMA FieldTypes ==
  ASSUME NEW a \in Account, NEW o \in Order
  PROVE  /\ o.price \in Nat /\ o.price > 0 /\ Fee[o.price] \in Nat
         /\ Fee[o.price] <= o.price
         /\ o.quantity \in Nat /\ o.ticker \in Ticker /\ a.cash \in Int
         /\ a.long[o.ticker] \in Nat /\ a.short[o.ticker] \in Nat
<1>1. o.price \in Price /\ o.quantity \in Quantity /\ o.ticker \in Ticker
  BY DEF Order
<1>2. \A p \in Price : p \in Nat /\ p > 0 /\ Fee[p] \in Nat /\ Fee[p] <= p
  BY PaperAssumption
<1>3. \A q \in Quantity : q \in Nat
  BY PaperAssumption
<1>4. a.cash \in Int /\ a.long \in [Ticker -> Nat] /\ a.short \in [Ticker -> Nat]
  BY DEF Account
<1> QED
  BY <1>1, <1>2, <1>3, <1>4

\* An order that is filled is filled by a whole number of units, and never by
\* more than the position or the short it closes.
LEMMA FilledType ==
  ASSUME NEW a \in Account, NEW o \in Order, o.side \in Trades, Filled(a, o) >= 1
  PROVE  /\ Filled(a, o) \in Nat
         /\ o.side = "SELL" => Filled(a, o) <= a.long[o.ticker]
         /\ o.side = "COVER" => Filled(a, o) <= a.short[o.ticker]
<1>0. /\ o.price \in Nat /\ o.price > 0 /\ Fee[o.price] \in Nat
      /\ o.quantity \in Nat /\ a.cash \in Int
      /\ a.long[o.ticker] \in Nat /\ a.short[o.ticker] \in Nat
  BY FieldTypes
<1>1. CASE o.side = "BUY"
  <2>1. o.price + Fee[o.price] \in Nat /\ o.price + Fee[o.price] > 0
    BY <1>0
  <2>2. Affordable(a.cash, o.price) \in Int
    BY <1>0, <2>1 DEF Affordable
  <2> QED
    BY <1>0, <1>1, <2>2 DEF Filled
<1>2. CASE o.side = "SELL"
  BY <1>0, <1>2 DEF Filled, Lesser
<1>3. CASE o.side = "COVER"
  BY <1>0, <1>3 DEF Filled, Lesser
<1>4. CASE o.side = "SHORT"
  BY <1>0, <1>4 DEF Filled
<1> QED
  BY <1>1, <1>2, <1>3, <1>4 DEF Trades

\* Filling an order leaves an account, with no negative quantity in it.
LEMMA FillType ==
  ASSUME NEW a \in Account, NEW o \in Order, o.side \in Trades, Filled(a, o) >= 1
  PROVE  Fill(a, o, Filled(a, o)) \in Account
<1> DEFINE n == Filled(a, o)
           d == Units(o, n)
<1>1. /\ n \in Nat
      /\ o.side = "SELL" => n <= a.long[o.ticker]
      /\ o.side = "COVER" => n <= a.short[o.ticker]
  BY FilledType
<1> HIDE DEF n
<1>2. /\ d \in Int
      /\ o.side \in {"BUY", "SELL"} => a.long[o.ticker] + d \in Nat
      /\ o.side \in {"SHORT", "COVER"} => a.short[o.ticker] - d \in Nat
  BY <1>1, FieldTypes DEF Units
<1> HIDE DEF d
<1>3. a.cash - d * o.price - n * Fee[o.price] \in Int
  BY <1>1, <1>2, FieldTypes
<1>4. a.long \in [Ticker -> Nat] /\ a.short \in [Ticker -> Nat]
  BY DEF Account
<1>5. /\ o.side \in {"BUY", "SELL"} =>
           [a.long EXCEPT ![o.ticker] = @ + d] \in [Ticker -> Nat]
      /\ o.side \in {"SHORT", "COVER"} =>
           [a.short EXCEPT ![o.ticker] = @ - d] \in [Ticker -> Nat]
  BY <1>2, <1>4
<1>6. Fill(a, o, n) \in Account
  BY <1>3, <1>4, <1>5 DEF Fill, Account, d
<1> QED
  BY <1>6 DEF n

\* What filling n units does to the cash and to the net quantity.
LEMMA FillEffect ==
  ASSUME NEW a \in Account, NEW o \in Order, o.side \in Trades, NEW n \in Nat
  PROVE  LET b == Fill(a, o, n)
             d == Units(o, n)
         IN  /\ b.cash = a.cash - d * o.price - n * Fee[o.price]
             /\ Net(b, o.ticker) - Net(a, o.ticker) = d
             /\ \A t \in Ticker \ {o.ticker} : Net(b, t) = Net(a, t)
<1> DEFINE d == Units(o, n)
           b == Fill(a, o, n)
<1>1. d \in Int
  BY DEF Units
<1>2. a.long \in [Ticker -> Nat] /\ a.short \in [Ticker -> Nat] /\ o.ticker \in Ticker
  BY DEF Account, Order
<1>3. b.cash = a.cash - d * o.price - n * Fee[o.price]
  BY DEF Fill
<1>4. b.long = IF o.side \in {"BUY", "SELL"}
                 THEN [a.long EXCEPT ![o.ticker] = @ + d] ELSE a.long
  BY DEF Fill
<1>5. b.short = IF o.side \in {"SHORT", "COVER"}
                  THEN [a.short EXCEPT ![o.ticker] = @ - d] ELSE a.short
  BY DEF Fill
<1> HIDE DEF b, d
<1>6. o.side \in {"BUY", "SELL"} <=> o.side \notin {"SHORT", "COVER"}
  BY DEF Trades
<1>7. Net(b, o.ticker) - Net(a, o.ticker) = d
  BY <1>1, <1>2, <1>4, <1>5, <1>6 DEF Net
<1>8. \A t \in Ticker \ {o.ticker} : Net(b, t) = Net(a, t)
  BY <1>1, <1>2, <1>4, <1>5, <1>6 DEF Net
<1> QED
  BY <1>3, <1>7, <1>8 DEF b, d

-----------------------------------------------------------------------------
(* Types.                                                                  *)

LEMMA FreshType == \A capital \in Capital : Fresh(capital) \in Account
BY PaperAssumption DEF Fresh, Account

LEMMA NoRequestType == NoRequest \in Order /\ Request \subseteq Order
<1>1. NoRequest \in Order
  BY PaperAssumption DEF NoRequest, Order, Side
<1>2. \A s \in Side : [NoRequest EXCEPT !.side = s] \in Order
  BY <1>1 DEF Order
<1> QED
  BY <1>1, <1>2 DEF Request, Order, Side

LEMMA ForgetType ==
  ASSUME TypeOK, NEW c \in Client, Forget(c)
  PROVE  /\ fd' \in [Client -> Path \cup {"none", "gone"}]
         /\ pc' \in [Client -> {"idle", "load", "replace", "ready", "save", "write"}]
         /\ order' \in [Client -> Order]
         /\ mem' \in [Client -> Account]
<1>1. Fresh(Default) \in Account /\ NoRequest \in Order
  BY FreshType, NoRequestType, PaperAssumption
<1> QED
  BY <1>1 DEF TypeOK, Forget, Goto

LEMMA RenameType ==
  ASSUME TypeOK, NEW from \in Path, NEW to \in Path, Rename(from, to)
  PROVE  /\ disk' \in [Path -> Account \cup {NoFile, Torn}]
         /\ fd' \in [Client -> Path \cup {"none", "gone"}]
BY DEF TypeOK, Rename

LEMMA TypeInit == Init => TypeOK
<1>1. Fresh(Default) \in Account /\ NoRequest \in Order
  BY FreshType, NoRequestType, PaperAssumption
<1>2. MaxOrders \in Nat /\ MaxFaults \in Nat
  BY PaperAssumption
<1> SUFFICES ASSUME Init PROVE TypeOK
  OBVIOUS
<1>3. disk \in [Path -> Account \cup {NoFile, Torn}]
  BY DEF Init
<1>4. order \in [Client -> Order] /\ mem \in [Client -> Account]
  BY <1>1 DEF Init
<1>5. owned \in [Ticker -> Int]
  BY DEF Init
<1>6. orders \in 0 .. MaxOrders /\ faults \in 0 .. MaxFaults
  BY <1>2 DEF Init
<1>7. fd \in [Client -> Path \cup {"none", "gone"}] /\ overlap \in BOOLEAN
  BY DEF Init
<1>8. pc \in [Client -> {"idle", "load", "replace", "ready", "save", "write"}]
  BY DEF Init
<1> QED
  BY <1>3, <1>4, <1>5, <1>6, <1>7, <1>8 DEF TypeOK

LEMMA TypeStep == TypeOK /\ [Next]_vars => TypeOK'
<1> SUFFICES ASSUME TypeOK, [Next]_vars PROVE TypeOK'
  OBVIOUS
<1> USE DEF Path
<1>1. ASSUME NEW c \in Client, NEW o \in Request, Begin(c, o) PROVE TypeOK'
  <2>1. o \in Order
    BY NoRequestType
  <2>2. orders' \in 0 .. MaxOrders
    <3>1. MaxOrders \in Nat /\ orders \in 0 .. MaxOrders
      BY PaperAssumption DEF TypeOK
    <3> QED
      BY <1>1, <3>1 DEF Begin
  <2> QED
    BY <1>1, <2>1, <2>2 DEF Begin, Goto, TypeOK
<1>2. ASSUME NEW c \in Client, NEW k \in Capital, Reset(c, k) PROVE TypeOK'
  <2>1. Fresh(k) \in Account
    BY FreshType
  <2>2. /\ disk' \in [Path -> Account \cup {NoFile, Torn}]
        /\ fd' \in [Client -> Path \cup {"none", "gone"}]
    BY <1>2, RenameType DEF Reset, TypeOK
  <2>3. faults' \in 0 .. MaxFaults
    BY <1>2, PaperAssumption DEF Reset, Fault, TypeOK
  <2>4. owned' \in [Ticker -> Int]
    BY <1>2 DEF Reset
  <2> QED
    BY <1>2, <2>1, <2>2, <2>3, <2>4 DEF Reset, Goto, TypeOK
<1>3. ASSUME NEW c \in Client, LoadState(c) PROVE TypeOK'
  <2>1. Complete("json") => disk["json"] \in Account
    BY DEF Complete, TypeOK
  <2> QED
    BY <1>3, <2>1 DEF LoadState, Goto, TypeOK, history
<1>4. ASSUME NEW c \in Client, ReplaceCorrupt(c) PROVE TypeOK'
  <2>1. Fresh(Default) \in Account
    BY FreshType, PaperAssumption
  <2>2. /\ disk' \in [Path -> Account \cup {NoFile, Torn}]
        /\ fd' \in [Client -> Path \cup {"none", "gone"}]
    BY <1>4, RenameType DEF ReplaceCorrupt, TypeOK
  <2>3. faults' \in 0 .. MaxFaults
    BY <1>4, PaperAssumption DEF ReplaceCorrupt, Fault, TypeOK
  <2> QED
    BY <1>4, <2>1, <2>2, <2>3 DEF ReplaceCorrupt, Goto, TypeOK
<1>5. ASSUME NEW c \in Client, OpenForSave(c) PROVE TypeOK'
  BY <1>5 DEF OpenForSave, Goto, TypeOK, history
<1>6. ASSUME NEW c \in Client, WriteState(c) PROVE TypeOK'
  <2>1. disk' \in [Path -> Account \cup {NoFile, Torn}]
    BY <1>6 DEF WriteState, TypeOK
  <2> QED
    BY <1>6, <2>1, ForgetType DEF WriteState, TypeOK, history
<1>7. ASSUME NEW c \in Client, Die(c) PROVE TypeOK'
  <2>1. faults' \in 0 .. MaxFaults
    BY <1>7, PaperAssumption DEF Die, Fault, TypeOK
  <2> QED
    BY <1>7, <2>1, ForgetType DEF Die, TypeOK
<1>8. ASSUME NEW c \in Client, ExecuteOrder(c) PROVE TypeOK'
  <2>1. mem[c] \in Account /\ order[c] \in Order
    BY DEF TypeOK
  <2>2. Fill(mem[c], order[c], Filled(mem[c], order[c])) \in Account
    BY <1>8, <2>1, FillType DEF ExecuteOrder
  <2>3. mem' \in [Client -> Account] /\ mem'[c] \in Account
    BY <1>8, <2>2 DEF ExecuteOrder, TypeOK
  <2>4. order[c].ticker \in Ticker
    BY <2>1 DEF Order
  <2>5. \A a \in Account : Net(a, order[c].ticker) \in Int
    BY <2>4 DEF Net, Account
  <2>6. owned' \in [Ticker -> Int]
    BY <1>8, <2>1, <2>3, <2>4, <2>5 DEF ExecuteOrder, TypeOK
  <2> QED
    BY <1>8, <2>3, <2>6 DEF ExecuteOrder, Goto, TypeOK
<1>9. ASSUME NEW c \in Client, Refuse(c) PROVE TypeOK'
  BY <1>9, ForgetType DEF Refuse, TypeOK, history
<1>10. ASSUME NEW c \in Client, UpdatePrices(c) PROVE TypeOK'
  BY <1>10 DEF UpdatePrices, Goto, TypeOK, history
<1>11. ASSUME NEW c \in Client, ReturnState(c) PROVE TypeOK'
  BY <1>11, ForgetType DEF ReturnState, TypeOK, history
<1>12. CASE UNCHANGED vars
  BY <1>12 DEF vars, client, history, TypeOK
<1> QED
  BY <1>1, <1>2, <1>3, <1>4, <1>5, <1>6, <1>7, <1>8, <1>9, <1>10, <1>11, <1>12
     DEF Next, File, Engine

\* Every account in memory and on disk is one: whole, no negative quantity.
THEOREM TypeCorrect == Spec => []TypeOK
BY TypeInit, TypeStep, PTL DEF Spec

-----------------------------------------------------------------------------
(* What an order does to the account.                                      *)

\* The only step that takes a request for a trade from ready to save.
LEMMA TradingIsExecuteOrder ==
  ASSUME TypeOK, [Next]_vars, NEW c \in Client, Trading(c)
  PROVE  ExecuteOrder(c)
<1>0. pc[c] = "ready" /\ pc'[c] = "save" /\ order[c].side \in Trades
  BY DEF Trading
<1>1. ASSUME NEW d \in Client, NEW o \in Request, Begin(d, o) PROVE FALSE
  BY <1>0, <1>1 DEF Begin, Goto, TypeOK
<1>2. ASSUME NEW d \in Client, NEW k \in Capital, Reset(d, k) PROVE FALSE
  BY <1>0, <1>2 DEF Reset, Goto, TypeOK
<1>3. ASSUME NEW d \in Client, File(d) PROVE FALSE
  BY <1>0, <1>3
     DEF File, LoadState, ReplaceCorrupt, OpenForSave, WriteState, Die, Forget, Goto, TypeOK
<1>4. ASSUME NEW d \in Client, Engine(d) PROVE ExecuteOrder(c)
  <2>1. d = c
    BY <1>0, <1>4
       DEF Engine, ExecuteOrder, Refuse, UpdatePrices, ReturnState, Forget, Goto, TypeOK
  <2> QED
    BY <1>0, <1>4, <2>1
       DEF Engine, Refuse, UpdatePrices, ReturnState, Forget, Goto, TypeOK, Trades
<1>5. CASE UNCHANGED vars
  BY <1>0, <1>5 DEF vars, client
<1> QED
  BY <1>1, <1>2, <1>3, <1>4, <1>5 DEF Next

\* The account and the order of a step that trades.
LEMMA TradingStep ==
  ASSUME TypeOK, [Next]_vars, NEW c \in Client, Trading(c)
  PROVE  /\ mem[c] \in Account /\ order[c] \in Order /\ order[c].side \in Trades
         /\ Filled(mem[c], order[c]) >= 1
         /\ Filled(mem[c], order[c]) \in Nat
         /\ mem'[c] = Fill(mem[c], order[c], Filled(mem[c], order[c]))
<1>1. ExecuteOrder(c)
  BY TradingIsExecuteOrder
<1>2. mem[c] \in Account /\ order[c] \in Order /\ order[c].side \in Trades
  BY DEF TypeOK, Trading
<1>3. Filled(mem[c], order[c]) >= 1 /\ Filled(mem[c], order[c]) \in Nat
  BY <1>1, <1>2, FilledType DEF ExecuteOrder
<1> QED
  BY <1>1, <1>2, <1>3 DEF ExecuteOrder, TypeOK

\* An order conserves money but for its fees: execute_order, for every price,
\* quantity, fee and account.
THEOREM MoneyConserved == Spec => TradeConserves
<1>1. TypeOK /\ [Next]_vars =>
        \A c \in Client :
          Trading(c) =>
            LET o == order[c]
                d == Net(mem'[c], o.ticker) - Net(mem[c], o.ticker)
                n == IF d < 0 THEN 0 - d ELSE d
            IN  /\ mem'[c].cash + o.price * d = mem[c].cash - n * Fee[o.price]
                /\ \A t \in Ticker \ {o.ticker} : Net(mem'[c], t) = Net(mem[c], t)
  <2> SUFFICES ASSUME TypeOK, [Next]_vars, NEW c \in Client, Trading(c)
               PROVE  LET o == order[c]
                          d == Net(mem'[c], o.ticker) - Net(mem[c], o.ticker)
                          n == IF d < 0 THEN 0 - d ELSE d
                      IN  /\ mem'[c].cash + o.price * d = mem[c].cash - n * Fee[o.price]
                          /\ \A t \in Ticker \ {o.ticker} : Net(mem'[c], t) = Net(mem[c], t)
    OBVIOUS
  <2> DEFINE o == order[c]
             m == Filled(mem[c], o)
             d == Units(o, m)
             cash == mem[c].cash
             p == o.price
             f == Fee[o.price]
  <2>1. mem[c] \in Account /\ o \in Order /\ o.side \in Trades /\ m \in Nat
    BY TradingStep
  <2>2. /\ mem'[c].cash = cash - d * p - m * f
        /\ Net(mem'[c], o.ticker) - Net(mem[c], o.ticker) = d
        /\ \A t \in Ticker \ {o.ticker} : Net(mem'[c], t) = Net(mem[c], t)
    BY <2>1, TradingStep, FillEffect
  <2>3. m = IF d < 0 THEN 0 - d ELSE d
    BY <2>1 DEF Units
  <2>4. d \in Int /\ p \in Nat /\ f \in Nat /\ cash \in Int
    BY <2>1, FieldTypes DEF Units
  <2> HIDE DEF m, d, cash, p, f
  <2>5. mem'[c].cash + p * d = cash - m * f
    BY <2>1, <2>2, <2>4
  <2> QED
    BY <2>2, <2>3, <2>5 DEF cash, p, f
<1> QED
  BY <1>1, TypeCorrect, PTL DEF Spec, TradeConserves

\* BUY never spends more than there is.
LEMMA BuyAffordable ==
  ASSUME NEW a \in Account, NEW o \in Order, o.side = "BUY", Filled(a, o) >= 1
  PROVE  Filled(a, o) * (o.price + Fee[o.price]) <= a.cash
<1> DEFINE k == o.price + Fee[o.price]
<1>1. k \in Nat /\ k > 0 /\ a.cash \in Int /\ o.quantity \in Nat
  BY FieldTypes
<1>2. Filled(a, o) = IF o.quantity * k > a.cash THEN a.cash \div k ELSE o.quantity
  BY DEF Filled, Affordable
<1> HIDE DEF k
<1>3. (a.cash \div k) * k <= a.cash
  BY <1>1
<1>4. CASE o.quantity * k > a.cash
  BY <1>2, <1>3, <1>4 DEF k
<1>5. CASE ~ o.quantity * k > a.cash
  <2>1. o.quantity * k <= a.cash
    BY <1>1, <1>5
  <2> QED
    BY <1>2, <1>5, <2>1 DEF k
<1> QED
  BY <1>4, <1>5

\* Only COVER takes the account below zero, or further below.
THEOREM OthersSolvent == Spec => OnlyCoverOverdraws
<1>1. TypeOK /\ [Next]_vars =>
        \A c \in Client :
          Trading(c) /\ mem'[c].cash < 0 =>
            order[c].side = "COVER" \/ mem'[c].cash >= mem[c].cash
  <2> SUFFICES ASSUME TypeOK, [Next]_vars, NEW c \in Client, Trading(c),
                      mem'[c].cash < 0, order[c].side # "COVER"
               PROVE  mem'[c].cash >= mem[c].cash
    OBVIOUS
  <2> DEFINE o == order[c]
             m == Filled(mem[c], o)
             cash == mem[c].cash
             p == o.price
             f == Fee[o.price]
  <2>1. mem[c] \in Account /\ o \in Order /\ o.side \in Trades /\ m \in Nat /\ m >= 1
    BY TradingStep
  <2>2. mem'[c].cash = cash - Units(o, m) * p - m * f
    BY <2>1, TradingStep, FillEffect
  <2>3. p \in Nat /\ f \in Nat /\ f <= p /\ cash \in Int
    BY <2>1, FieldTypes
  <2>4. CASE o.side = "BUY"
    <3>1. m * (p + f) <= cash
      BY <2>1, <2>4, BuyAffordable
    <3>2. mem'[c].cash = cash - m * p - m * f
      BY <2>2, <2>4 DEF Units
    <3> HIDE DEF m, p, f, cash
    <3>3. mem'[c].cash >= 0
      BY <2>1, <2>3, <3>1, <3>2
    <3> QED
      BY <2>1, <2>3, <3>2, <3>3
  <2>5. CASE o.side \in {"SELL", "SHORT"}
    <3>1. mem'[c].cash = cash - (0 - m) * p - m * f
      BY <2>2, <2>5 DEF Units
    <3> HIDE DEF m, p, f, cash
    <3>2. m * f <= m * p
      BY <2>1, <2>3
    <3>3. mem'[c].cash >= cash
      BY <2>1, <2>3, <3>1, <3>2
    <3> QED
      BY <3>3 DEF cash
  <2> QED
    BY <2>1, <2>4, <2>5 DEF Trades
<1> QED
  BY <1>1, TypeCorrect, PTL DEF Spec, OnlyCoverOverdraws

-----------------------------------------------------------------------------
(* The file.                                                               *)

\* Without overlap there is one request at a time, it has the file open only
\* while it writes, and what it is about to move away is no good.
Alone ==
  ~ overlap =>
    /\ \A c, d \in Client : pc[c] # "idle" /\ pc[d] # "idle" => c = d
    /\ \A c \in Client : fd[c] = IF pc[c] = "write" THEN "json" ELSE "none"
    /\ \A c \in Client : pc[c] = "replace" => ~ Complete("json")
    /\ ~ Complete("corrupt")

LEMMA AloneInit == Init => Alone
BY DEF Init, Alone, Complete, Path

LEMMA AloneStep == TypeOK /\ Alone /\ [Next]_vars => Alone'
<1> SUFFICES ASSUME TypeOK, Alone, [Next]_vars, ~ overlap'
             PROVE  Alone'
  BY DEF Alone
<1> USE DEF Path
<1>0. ~ overlap
  BY DEF Next, Begin, Reset, File, LoadState, ReplaceCorrupt, OpenForSave, WriteState,
         Die, Engine, ExecuteOrder, Refuse, UpdatePrices, ReturnState, vars, history
<1>1. ASSUME NEW c \in Client, NEW o \in Request, Begin(c, o) PROVE Alone'
  <2>1. \A d \in Client : pc[d] = "idle"
    BY <1>1 DEF Begin
  <2> QED
    BY <1>0, <1>1, <2>1 DEF Begin, Goto, TypeOK, Alone, Complete
<1>2. ASSUME NEW c \in Client, NEW k \in Capital, Reset(c, k) PROVE Alone'
  BY <1>0, <1>2 DEF Reset, Rename, Goto, TypeOK, Alone, Complete
<1>3. ASSUME NEW c \in Client, LoadState(c) PROVE Alone'
  BY <1>0, <1>3 DEF LoadState, Goto, TypeOK, Alone, Complete
<1>4. ASSUME NEW c \in Client, ReplaceCorrupt(c) PROVE Alone'
  BY <1>0, <1>4 DEF ReplaceCorrupt, Rename, Goto, TypeOK, Alone, Complete
<1>5. ASSUME NEW c \in Client, OpenForSave(c) PROVE Alone'
  BY <1>0, <1>5 DEF OpenForSave, Goto, TypeOK, Alone, Complete
<1>6. ASSUME NEW c \in Client, WriteState(c) PROVE Alone'
  <2>1. fd[c] = "json" /\ pc[c] = "write"
    BY <1>0, <1>6 DEF WriteState, Alone
  <2>2. disk'["corrupt"] = disk["corrupt"]
    BY <1>6, <2>1 DEF WriteState, TypeOK
  <2>3. \A d \in Client : pc'[d] = "idle" /\ fd'[d] = "none"
    BY <1>0, <1>6, <2>1 DEF WriteState, Forget, Goto, TypeOK, Alone
  <2> QED
    BY <1>0, <2>2, <2>3 DEF Alone, Complete
<1>7. ASSUME NEW c \in Client, Die(c) PROVE Alone'
  BY <1>0, <1>7 DEF Die, Forget, Goto, TypeOK, Alone, Complete
<1>8. ASSUME NEW c \in Client, ExecuteOrder(c) PROVE Alone'
  BY <1>0, <1>8 DEF ExecuteOrder, Goto, TypeOK, Alone, Complete
<1>9. ASSUME NEW c \in Client, Refuse(c) PROVE Alone'
  BY <1>0, <1>9 DEF Refuse, Forget, Goto, TypeOK, Alone, Complete, history
<1>10. ASSUME NEW c \in Client, UpdatePrices(c) PROVE Alone'
  BY <1>0, <1>10 DEF UpdatePrices, Goto, TypeOK, Alone, Complete, history
<1>11. ASSUME NEW c \in Client, ReturnState(c) PROVE Alone'
  BY <1>0, <1>11 DEF ReturnState, Forget, Goto, TypeOK, Alone, Complete, history
<1>12. CASE UNCHANGED vars
  BY <1>12 DEF vars, client, history, Alone, Complete
<1> QED
  BY <1>1, <1>2, <1>3, <1>4, <1>5, <1>6, <1>7, <1>8, <1>9, <1>10, <1>11, <1>12
     DEF Next, File, Engine

\* A good account file is renamed to .corrupt only when requests overlapped.
THEOREM GoodFileStays == Spec => []GoodFileKept
<1>1. Alone => GoodFileKept
  BY DEF Alone, GoodFileKept
<1> QED
  BY <1>1, TypeInit, TypeStep, AloneInit, AloneStep, PTL DEF Spec

\* What the file says the account holds of t.
Held(t) == IF Complete("json") THEN Net(disk["json"], t) ELSE 0

\* While nothing overlapped or failed: the file is torn while it is written, it
\* is the account except between an order and its save, and the engine of a
\* request that has loaded agrees with the orders so far.
Quiet ==
  ~ overlap /\ faults = 0 =>
    /\ disk["json"] = Torn <=> \E c \in Client : pc[c] = "write"
    /\ (\A c \in Client : pc[c] \notin {"save", "write"}) =>
         \A t \in Ticker : owned[t] = Held(t)
    /\ \A c \in Client : pc[c] \in {"ready", "save", "write"} =>
         \A t \in Ticker : owned[t] = Net(mem[c], t)

LEMMA FreshEmpty == \A k \in Capital, t \in Ticker : Net(Fresh(k), t) = 0
BY DEF Net, Fresh

LEMMA QuietInit == Init => Quiet
BY PaperAssumption DEF Init, Quiet, Complete, Path, Held

LEMMA QuietStep == TypeOK /\ Alone /\ Quiet /\ [Next]_vars => Quiet'
<1> SUFFICES ASSUME TypeOK, Alone, Quiet, [Next]_vars, ~ overlap', faults' = 0
             PROVE  Quiet'
  BY DEF Quiet
<1> USE DEF Path
<1>0. ~ overlap /\ faults = 0
  <2>1. faults \in Nat
    BY PaperAssumption DEF TypeOK
  <2>2. ~ overlap
    BY DEF Next, Begin, Reset, File, LoadState, ReplaceCorrupt, OpenForSave, WriteState,
         Die, Engine, ExecuteOrder, Refuse, UpdatePrices, ReturnState, vars, history
  <2>3. faults' = faults \/ faults' = faults + 1
    BY DEF Next, Begin, Reset, File, LoadState, ReplaceCorrupt, OpenForSave, WriteState,
         Die, Fault, Engine, ExecuteOrder, Refuse, UpdatePrices, ReturnState, vars, history
  <2> QED
    BY <2>1, <2>2, <2>3
<1>1. ASSUME NEW c \in Client, NEW o \in Request, Begin(c, o) PROVE Quiet'
  <2>1. \A d \in Client : pc[d] = "idle"
    BY <1>1 DEF Begin
  <2>2. \A d \in Client : pc'[d] \in {"idle", "load"}
    BY <1>1, <2>1 DEF Begin, Goto, TypeOK
  <2>3. \A t \in Ticker : owned[t] = Held(t)
    BY <1>0, <2>1 DEF Quiet
  <2>4. disk["json"] # Torn
    BY <1>0, <2>1 DEF Quiet
  <2> QED
    BY <1>1, <2>2, <2>3, <2>4 DEF Begin, Quiet, Complete, Held
<1>2. ASSUME NEW c \in Client, NEW k \in Capital, Reset(c, k) PROVE Quiet'
  <2>1. disk'["json"] # Torn
    <3>1. \A d \in Client : pc[d] # "write"
      BY <1>0, <1>2 DEF Reset, Alone
    <3>2. disk["json"] # Torn
      BY <1>0, <3>1 DEF Quiet
    <3> QED
      BY <1>2, <3>2, PaperAssumption DEF Reset, Rename, TypeOK
  <2>2. pc'[c] = "save" /\ \A d \in Client \ {c} : pc'[d] = "idle"
    BY <1>0, <1>2 DEF Reset, Goto, TypeOK, Alone
  <2>3. \A t \in Ticker : owned'[t] = 0 /\ Net(mem'[c], t) = 0
    BY <1>2, FreshEmpty DEF Reset, TypeOK
  <2> QED
    BY <2>1, <2>2, <2>3 DEF Quiet
<1>3. ASSUME NEW c \in Client, LoadState(c) PROVE Quiet'
  <2>1. pc[c] = "load" /\ \A d \in Client \ {c} : pc[d] = "idle"
    BY <1>0, <1>3 DEF LoadState, Alone
  <2>2. \A t \in Ticker : owned[t] = Held(t)
    BY <1>0, <2>1 DEF Quiet
  <2>3. disk["json"] # Torn
    BY <1>0, <2>1 DEF Quiet
  <2>4. UNCHANGED <<disk, owned>>
    BY <1>3 DEF LoadState, history
  <2>5. pc'[c] = "ready" => Complete("json") /\ mem'[c] = disk["json"]
    BY <1>3 DEF LoadState, Goto, TypeOK
  <2>6. pc'[c] \in {"ready", "replace"} /\ \A d \in Client \ {c} : pc'[d] = "idle"
    BY <1>3, <2>1 DEF LoadState, Goto, TypeOK
  <2> QED
    BY <2>2, <2>3, <2>4, <2>5, <2>6 DEF Quiet, Held, Complete
<1>4. ASSUME NEW c \in Client, ReplaceCorrupt(c) PROVE Quiet'
  <2>1. pc[c] = "replace" /\ \A d \in Client \ {c} : pc[d] = "idle"
    BY <1>0, <1>4 DEF ReplaceCorrupt, Alone
  <2>2. disk["json"] = NoFile
    BY <1>0, <2>1 DEF Quiet, Alone, Complete
  <2>3. UNCHANGED <<disk, owned>>
    BY <1>4, <2>2 DEF ReplaceCorrupt
  <2>4. \A t \in Ticker : owned[t] = 0 /\ Held(t) = 0
    BY <1>0, <2>1, <2>2 DEF Quiet, Held, Complete
  <2>5. pc'[c] = "ready" /\ \A d \in Client \ {c} : pc'[d] = "idle"
    BY <1>4, <2>1 DEF ReplaceCorrupt, Goto, TypeOK
  <2>6. \A t \in Ticker : Net(mem'[c], t) = 0
    BY <1>4, FreshEmpty, PaperAssumption DEF ReplaceCorrupt, TypeOK
  <2> QED
    BY <2>2, <2>3, <2>4, <2>5, <2>6, PaperAssumption DEF Quiet, Held, Complete
<1>5. ASSUME NEW c \in Client, OpenForSave(c) PROVE Quiet'
  <2>1. pc[c] = "save" /\ pc'[c] = "write" /\ \A d \in Client \ {c} : pc'[d] = "idle"
    BY <1>0, <1>5 DEF OpenForSave, Goto, TypeOK, Alone
  <2>2. \A t \in Ticker : owned[t] = Net(mem[c], t)
    BY <1>0, <2>1 DEF Quiet
  <2>3. disk'["json"] = Torn /\ UNCHANGED <<mem, owned>>
    BY <1>5 DEF OpenForSave, TypeOK, history
  <2> QED
    BY <2>1, <2>2, <2>3 DEF Quiet
<1>6. ASSUME NEW c \in Client, WriteState(c) PROVE Quiet'
  <2>1. pc[c] = "write" /\ fd[c] = "json" /\ \A d \in Client \ {c} : pc[d] = "idle"
    BY <1>0, <1>6 DEF WriteState, Alone
  <2>2. \A t \in Ticker : owned[t] = Net(mem[c], t)
    BY <1>0, <2>1 DEF Quiet
  <2>3. disk["json"] = Torn
    BY <1>0, <2>1 DEF Quiet
  <2>4. disk'["json"] = mem[c] /\ owned' = owned
    BY <1>6, <2>1, <2>3 DEF WriteState, TypeOK, Complete, history
  <2>5. mem[c] # Torn /\ mem[c] # NoFile
    BY FileAssumption DEF TypeOK
  <2>6. \A d \in Client : pc'[d] = "idle"
    BY <1>6, <2>1 DEF WriteState, Forget, Goto, TypeOK
  <2> QED
    BY <2>2, <2>4, <2>5, <2>6 DEF Quiet, Held, Complete
<1>7. ASSUME NEW c \in Client, Die(c) PROVE Quiet'
  BY <1>0, <1>7 DEF Die, Fault
<1>8. ASSUME NEW c \in Client, ExecuteOrder(c) PROVE Quiet'
  <2>1. pc[c] = "ready" /\ pc'[c] = "save" /\ \A d \in Client \ {c} : pc'[d] = "idle"
    BY <1>0, <1>8 DEF ExecuteOrder, Goto, TypeOK, Alone
  <2>2. disk["json"] # Torn
    BY <1>0, <1>8, <2>1 DEF Quiet, Alone
  <2> DEFINE o == order[c]
             m == Filled(mem[c], o)
  <2>3. mem[c] \in Account /\ o \in Order /\ o.side \in Trades /\ m \in Nat /\ m >= 1
    BY <1>8, FilledType DEF ExecuteOrder, TypeOK
  <2>4. mem'[c] = Fill(mem[c], o, m) /\ mem'[c] \in Account
    BY <1>8, <2>3, FillType DEF ExecuteOrder, TypeOK
  <2>5. \A t \in Ticker \ {o.ticker} : Net(mem'[c], t) = Net(mem[c], t)
    BY <2>3, <2>4, FillEffect
  <2>6. \A t \in Ticker : owned[t] = Net(mem[c], t)
    BY <1>0, <2>1 DEF Quiet
  <2>7. o.ticker \in Ticker /\ \A a \in Account, t \in Ticker : Net(a, t) \in Int
    BY <2>3 DEF Order, Account, Net
  <2>8. owned' = [owned EXCEPT ![o.ticker] = @ + Net(mem'[c], o.ticker) - Net(mem[c], o.ticker)]
    BY <1>8 DEF ExecuteOrder
  <2> HIDE DEF o, m
  <2>9. \A t \in Ticker : owned'[t] = Net(mem'[c], t)
    BY <2>3, <2>4, <2>5, <2>6, <2>7, <2>8 DEF TypeOK
  <2>10. UNCHANGED disk
    BY <1>8 DEF ExecuteOrder
  <2> QED
    BY <2>1, <2>2, <2>9, <2>10 DEF Quiet
<1>9. ASSUME NEW c \in Client, Refuse(c) PROVE Quiet'
  BY <1>0, <1>9 DEF Refuse, Forget, Goto, TypeOK, Alone, Quiet, Held, Complete, history
<1>10. ASSUME NEW c \in Client, UpdatePrices(c) PROVE Quiet'
  <2>1. pc[c] = "ready" /\ pc'[c] = "save" /\ \A d \in Client \ {c} : pc'[d] = "idle"
    BY <1>0, <1>10 DEF UpdatePrices, Goto, TypeOK, Alone
  <2>2. disk["json"] # Torn
    BY <1>0, <1>10, <2>1 DEF Quiet, Alone
  <2>3. UNCHANGED <<disk, mem, owned>>
    BY <1>10 DEF UpdatePrices, history
  <2>4. \A t \in Ticker : owned[t] = Net(mem[c], t)
    BY <1>0, <2>1 DEF Quiet
  <2> QED
    BY <2>1, <2>2, <2>3, <2>4 DEF Quiet
<1>11. ASSUME NEW c \in Client, ReturnState(c) PROVE Quiet'
  BY <1>0, <1>11 DEF ReturnState, Forget, Goto, TypeOK, Alone, Quiet, Held, Complete, history
<1>12. CASE UNCHANGED vars
  BY <1>12 DEF vars, client, history, Quiet, Held, Complete
<1> QED
  BY <1>1, <1>2, <1>3, <1>4, <1>5, <1>6, <1>7, <1>8, <1>9, <1>10, <1>11, <1>12
     DEF Next, File, Engine

\* While requests do not overlap and nothing fails the file holds every unit
\* bought and sold since the last reset, for any number of requests.
THEOREM NothingLostAlone == Spec => []QuietAccountKept
<1>1. Quiet => QuietAccountKept
  BY DEF Quiet, QuietAccountKept, Held
<1> QED
  BY <1>1, TypeInit, TypeStep, AloneInit, AloneStep, QuietInit, QuietStep, PTL DEF Spec
=============================================================================
