----------------------- MODULE PositionTracker_proofs -----------------------
(* Proofs about PositionTracker: the tracker's positions are well formed,  *)
(* and levels never outlive their shares.                                  *)
EXTENDS PositionTracker, TLAPS

(***************************************************************************)
(* The argument.  Every operation of the tracker keeps each position sound *)
(* (levels only on shares), so what the stop check asks to sell is at      *)
(* least one share.                                                        *)
(***************************************************************************)
SoundPosition == {p \in Position : p.shares = 0 => p.stop = "none"}
Positions == [Side -> [Ticker -> SoundPosition]]

Inv ==
  /\ TypeOK
  /\ pos \in Positions

-----------------------------------------------------------------------------
(* The operations.                                                         *)

LEMMA EmptyIsSound == Empty \in SoundPosition
BY TrackerAssumption DEF Empty, SoundPosition, Position

LEMMA BoughtIsSound ==
  ASSUME NEW p \in SoundPosition, NEW q \in Nat \ {0}, p.shares + q <= MaxShares
  PROVE  Bought(p, q) \in SoundPosition
BY TrackerAssumption DEF Bought, SoundPosition, Position

LEMMA ReducedIsSound ==
  ASSUME NEW p \in SoundPosition, NEW q \in Nat \ {0}
  PROVE  Reduced(p, q) \in SoundPosition
BY TrackerAssumption DEF Reduced, Empty, SoundPosition, Position

LEMMA ArmedIsSound ==
  ASSUME NEW p \in SoundPosition
  PROVE  Armed(p) \in SoundPosition
<1>1. CASE p = Empty
  BY <1>1 DEF Armed
<1>2. CASE p # Empty
  <2>1. p.shares # 0
    BY <1>2 DEF SoundPosition, Position, Empty
  <2> QED BY <1>2, <2>1 DEF Armed, SoundPosition, Position
<1> QED BY <1>1, <1>2

\* Booking keeps every position sound.
LEMMA BookedIsSound ==
  ASSUME pos \in Positions, NEW t \in Ticker, NEW d \in Direction,
         NEW q \in Nat \ {0}, Room(t, d, q)
  PROVE  Booked(t, d, q) \in Positions
<1> DEFINE l == pos["long"][t]
           h == pos["short"][t]
<1>0. l \in SoundPosition /\ h \in SoundPosition
  BY DEF Positions, Side
<1>1. CASE d = "BUY"
  <2>1. Bought(l, q) \in SoundPosition
    BY <1>0, <1>1, BoughtIsSound DEF Room
  <2> QED BY <1>1, <2>1 DEF Booked, Long, Positions, Side
<1>2. CASE d = "SELL"
  <2>1. Reduced(l, q) \in SoundPosition
    BY <1>0, ReducedIsSound
  <2> QED BY <1>2, <2>1 DEF Booked, Long, Positions, Side
<1>3. CASE d = "SHORT"
  <2>1. Reduced(l, q) \in SoundPosition
    BY <1>0, ReducedIsSound
  <2>2. Bought(h, q) \in SoundPosition
    BY <1>0, <1>3, BoughtIsSound DEF Room
  <2>3. Booked(t, d, q) = [pos EXCEPT !["long"][t] = Reduced(l, q),
                                      !["short"][t] = Bought(h, q)]
    BY <1>3 DEF Booked, Positions, Side
  <2> QED BY <1>3, <2>1, <2>2, <2>3 DEF Positions, Side
<1>4. CASE d = "COVER"
  <2>1. Reduced(h, q) \in SoundPosition
    BY <1>0, ReducedIsSound
  <2> QED BY <1>4, <2>1 DEF Booked, Short, Positions, Side
<1> QED BY <1>1, <1>2, <1>3, <1>4 DEF Direction

-----------------------------------------------------------------------------
(* Outcomes of an order.                                                   *)

\* What the outcome of an order keeps of the invariant.
Kept ==
  /\ pos \in Positions
  /\ rows \subseteq Ticker
  /\ seen \subseteq left \X Side

LEMMA SimulatedKeeps ==
  ASSUME Kept, NEW t \in Ticker, NEW d \in Direction, NEW q \in Nat \ {0},
         Simulated(t, d, q), left' = left
  PROVE  Kept'
<1>1. Booked(t, d, q) \in Positions
  BY BookedIsSound DEF Kept, Simulated
<1> QED BY <1>1 DEF Kept, Simulated

LEMMA FilledKeeps ==
  ASSUME Kept, NEW t \in Ticker, NEW d \in {"BUY", "SELL"}, NEW k \in Nat \ {0},
         left \subseteq Ticker, Filled(t, d, k), left' = left
  PROVE  Kept'
<1> DEFINE booked == Booked(t, d, k)
<1>1. booked \in Positions
  BY BookedIsSound DEF Kept, Direction, Filled
<1>2. pos' = [booked EXCEPT !["long"][t] = Armed(@), !["short"][t] = Armed(@)]
  BY DEF Filled
<1> HIDE DEF booked
<1>3. \A s \in Side : Armed(booked[s][t]) \in SoundPosition
  BY <1>1, ArmedIsSound DEF Positions
<1>4. pos' \in Positions
  BY <1>1, <1>2, <1>3 DEF Positions, Side
<1> QED BY <1>4 DEF Kept, Filled, SeenAnew

LEMMA SentKeeps ==
  ASSUME Kept, NEW t \in Ticker, NEW d \in Direction, NEW q \in Nat \ {0},
         left \subseteq Ticker, Sent(t, d, q), left' = left
  PROVE  Kept'
<1>1. CASE NotExecuted
  BY <1>1 DEF NotExecuted, Kept
<1>2. CASE d \in {"BUY", "SELL"} /\ Simulated(t, d, q)
  BY <1>2, SimulatedKeeps
<1>3. ASSUME NEW k \in 1 .. q, d \in {"BUY", "SELL"}, Filled(t, d, k) PROVE Kept'
  BY <1>3, FilledKeeps
<1>4. CASE Unbooked(t)
  BY <1>4 DEF Unbooked, Kept
<1> QED BY <1>1, <1>2, <1>3, <1>4 DEF Sent

-----------------------------------------------------------------------------
(* The invariant.                                                          *)

LEMMA InvInit == Init => Inv
<1> SUFFICES ASSUME Init PROVE Inv
  OBVIOUS
<1>1. pos \in Positions
  BY EmptyIsSound DEF Init, Positions
<1>2. TypeOK
  <2>1. pos \in [Side -> [Ticker -> Position]]
    BY <1>1 DEF Positions, SoundPosition
  <2>2. /\ mode \in Mode /\ halted \in BOOLEAN /\ rows \subseteq Ticker
        /\ left \subseteq Ticker /\ seen \subseteq left \X Side /\ exit = NoExit
    BY DEF Init, Mode
  <2> QED BY <2>1, <2>2 DEF TypeOK
<1> QED BY <1>1, <1>2 DEF Inv

\* The rest of the invariant, which the orders leave alone.
Rest ==
  /\ mode \in Mode
  /\ halted \in BOOLEAN
  /\ left \subseteq Ticker
  /\ exit \in [ticker : Ticker, shares : 1 .. MaxShares, mode : {"manual", "auto"}]
              \cup {NoExit}

LEMMA InvIsKeptAndRest == Inv <=> Kept /\ Rest
BY DEF Inv, TypeOK, Kept, Rest, Positions, SoundPosition

LEMMA LookAtKeeps ==
  ASSUME Kept, Rest, NEW t \in Ticker, LookAt(t)
  PROVE  Kept' /\ Rest'
<1> USE TrackerAssumption
<1>0. mode' = mode /\ halted' = halted /\ t \in left
  BY DEF LookAt
<1>1. CASE NothingTriggered(t)
  BY <1>0, <1>1 DEF NothingTriggered, Done, Kept, Rest
<1>2. CASE SimulateExit(t)
  <2>1. \E side \in Side : pos[side][t].stop # "none"
    BY <1>2 DEF SimulateExit, LongTriggered, ShortTriggered, Triggered, Side
  <2>2. \E d \in {"SELL", "COVER"}, side \in Side :
          pos' = Booked(t, d, pos[side][t].shares) /\ pos[side][t].stop # "none"
    BY <1>2 DEF SimulateExit, LongTriggered, ShortTriggered, Triggered, Side
  <2>3. PICK d \in {"SELL", "COVER"}, side \in Side :
          pos' = Booked(t, d, pos[side][t].shares) /\ pos[side][t].stop # "none"
    BY <2>2
  <2>4. pos[side][t].shares \in Nat \ {0}
    BY <2>3 DEF Kept, Positions, SoundPosition, Position
  <2>5. d \in Direction /\ Room(t, d, pos[side][t].shares)
    BY DEF Direction, Room
  <2>6. pos' \in Positions
    BY <2>3, <2>4, <2>5, BookedIsSound DEF Kept
  <2>7. rows' = rows /\ exit' = exit /\ Done(t)
    BY <1>2 DEF SimulateExit
  <2> QED BY <1>0, <2>6, <2>7 DEF Kept, Rest, Done
<1>3. CASE AskExit(t)
  <2>1. pos["long"][t].shares \in 1 .. MaxShares
    BY <1>3 DEF AskExit, LongTriggered, Triggered, Kept, Positions,
                SoundPosition, Position, Side
  <2>2. mode \in {"manual", "auto"}
    BY <1>3 DEF AskExit, Rest, Mode
  <2> QED BY <1>0, <1>3, <2>1, <2>2 DEF AskExit, Done, Kept, Rest
<1>4. CASE ExitRaises(t)
  BY <1>0, <1>4 DEF ExitRaises, Kept, Rest
<1> QED BY <1>1, <1>2, <1>3, <1>4 DEF LookAt

LEMMA InvNext ==
  ASSUME Inv, [Next]_vars
  PROVE  Inv'
<1> USE TrackerAssumption
<1>0. Kept /\ Rest
  BY InvIsKeptAndRest
<1>1. ASSUME NEW o \in Order, PlaceOrder(o) PROVE Kept' /\ Rest'
  <2>1. /\ o.ticker \in Ticker /\ o.direction \in Direction
        /\ o.quantity \in Nat \ {0}
    BY DEF Direction
  <2>2. left' = left /\ left \subseteq Ticker
    BY <1>0, <1>1 DEF PlaceOrder, Rest
  <2>3. Kept'
    <3>1. CASE Simulated(o.ticker, o.direction, o.quantity)
      BY <1>0, <2>1, <2>2, <3>1, SimulatedKeeps
    <3>2. CASE Sent(o.ticker, o.direction, o.quantity)
      BY <1>0, <2>1, <2>2, <3>2, SentKeeps
    <3> QED BY <1>1, <3>1, <3>2 DEF PlaceOrder
  <2> QED BY <1>0, <1>1, <2>3 DEF PlaceOrder, Rest
<1>2. ASSUME ReadPrices PROVE Kept' /\ Rest'
  BY <1>0, <1>2 DEF ReadPrices, Kept, Rest
<1>3. ASSUME NEW t \in Ticker, LookAt(t) PROVE Kept' /\ Rest'
  BY <1>0, <1>3, LookAtKeeps
<1>4. ASSUME ExitReturns PROVE Kept' /\ Rest'
  <2>1. left' = left /\ mode' = mode /\ halted' = halted /\ exit' = NoExit
    BY <1>4 DEF ExitReturns
  <2>2. exit.ticker \in Ticker /\ exit.shares \in Nat \ {0}
    BY <1>0, <1>4 DEF ExitReturns, Rest
  <2>3. Kept'
    <3>1. CASE NotExecuted
      BY <1>0, <2>1, <3>1 DEF NotExecuted, Kept
    <3>2. CASE Sent(exit.ticker, "SELL", exit.shares)
      BY <1>0, <2>1, <2>2, <3>2, SentKeeps DEF Rest, Direction
    <3> QED BY <1>4, <3>1, <3>2 DEF ExitReturns
  <2> QED BY <1>0, <2>1, <2>3 DEF Rest
<1>5. ASSUME NEW t \in Ticker, NEW side \in Side, Move(t, side) PROVE Kept' /\ Rest'
  <2>1. pos[side][t] \in SoundPosition /\ pos[side][t].shares # 0
    BY <1>0, <1>5 DEF Move, Kept, Positions, SoundPosition, Position
  <2>2. PICK stop \in {"armed", "hit"} :
          pos' = [pos EXCEPT ![side][t] = [pos[side][t] EXCEPT !.stop = stop]]
    BY <1>0, <1>5 DEF Move, Kept, Positions
  <2>3. [pos[side][t] EXCEPT !.stop = stop] \in SoundPosition
    BY <2>1 DEF SoundPosition, Position
  <2>4. pos' \in Positions
    BY <1>0, <2>2, <2>3 DEF Kept, Positions
  <2> QED BY <1>0, <1>5, <2>4 DEF Move, Kept, Rest, check
<1>6. ASSUME NEW m \in Mode, SetMode(m) PROVE Kept' /\ Rest'
  BY <1>0, <1>6 DEF SetMode, Kept, Rest, check
<1>7. ASSUME NEW b \in BOOLEAN, SetHalted(b) PROVE Kept' /\ Rest'
  BY <1>0, <1>7 DEF SetHalted, Kept, Rest, check
<1>8. ASSUME Restart PROVE Kept' /\ Rest'
  <2>1. pos' \in Positions
    BY <1>8, EmptyIsSound DEF Restart, Positions, Empty
  <2> QED BY <1>0, <1>8, <2>1 DEF Restart, Kept, Rest, Mode
<1>9. ASSUME UNCHANGED vars PROVE Kept' /\ Rest'
  BY <1>0, <1>9 DEF vars, Kept, Rest, check
<1>10. Kept' /\ Rest'
  BY <1>1, <1>2, <1>3, <1>4, <1>5, <1>6, <1>7, <1>8, <1>9 DEF Next, CheckStops
<1>11. (Inv <=> Kept /\ Rest)'
  BY InvIsKeptAndRest, PTL
<1> QED BY <1>10, <1>11

-----------------------------------------------------------------------------
(* Theorems.                                                               *)

LEMMA InvAlways == Spec => []Inv
<1>1. Init => Inv
  BY InvInit
<1>2. Inv /\ [Next]_vars => Inv'
  BY InvNext
<1> QED BY <1>1, <1>2, PTL DEF Spec

\* Type correctness for every set of tickers and orders: no position ever holds
\* a negative number of shares, no exit is asked for nothing.
THEOREM TrackerTypeOK == Spec => []TypeOK
<1>1. Inv => TypeOK
  BY DEF Inv
<1> QED BY <1>1, InvAlways, PTL

\* Levels never outlive the shares they were set for (stoploss.py, l.77-81).
THEOREM StopsNeedShares == Spec => []NoStopsWithoutShares
<1>1. Inv => NoStopsWithoutShares
  BY DEF Inv, NoStopsWithoutShares, Positions, SoundPosition
<1> QED BY <1>1, InvAlways, PTL
=============================================================================
