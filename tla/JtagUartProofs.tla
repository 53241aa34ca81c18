--------------------------- MODULE JtagUartProofs ---------------------------
(***************************************************************************)
(* No character is lost, doubled or overtaken on the way to the host or    *)
(* from it, for rings and FIFOs of any size.                               *)
(*                                                                         *)
(* The argument is where the characters are: the cells of a ring from its  *)
(* out to its in hold the stretch of the stream that follows what is in    *)
(* the FIFO, or precedes it; what one side has copied but not yet          *)
(* published or released lies in cells that the other side leaves alone,   *)
(* however often it runs in between; and the handler's count of the room   *)
(* in the FIFO is never too large.  The indices go round in the ring and   *)
(* the numbers of the characters round in CharCount, hence the lemmas on   *)
(* remainders.                                                             *)
(***************************************************************************)
EXTENDS JtagUart, TLAPS

---------------------------------------------------------------------------
\* Remainders

LEMMA Quotient ==
  ASSUME NEW m \in Nat \ {0}, NEW x \in Int
  PROVE  \E q \in Int : x = q * m + (x % m)
<1>1. x \div m \in Int
  OBVIOUS
<1>2. x = (x \div m) * m + (x % m)
  OBVIOUS
<1> QED
  BY <1>1, <1>2

LEMMA RemainderUnique ==
  ASSUME NEW m \in Nat \ {0}, NEW q \in Int, NEW r \in 0 .. m - 1, NEW s \in 0 .. m - 1,
         q * m + r = s
  PROVE  r = s
<1>1. CASE q = 0
  BY <1>1
<1>2. CASE q >= 1
  <2>1. q * m >= m
    BY <1>2
  <2> QED
    BY <2>1
<1>3. CASE q <= -1
  <2>1. q * m <= -m
    BY <1>3
  <2> QED
    BY <2>1
<1> QED
  BY <1>1, <1>2, <1>3

LEMMA RemainderPeriodic ==
  ASSUME NEW m \in Nat \ {0}, NEW x \in Int, NEW y \in Int, NEW q \in Int, x = q * m + y
  PROVE  x % m = y % m
<1>1. PICK a \in Int : x = a * m + (x % m)
  BY Quotient
<1>2. PICK b \in Int : y = b * m + (y % m)
  BY Quotient
<1>3. x % m \in 0 .. m - 1 /\ y % m \in 0 .. m - 1
  OBVIOUS
<1>4. (a - q - b) * m + (x % m) = y % m
  BY <1>1, <1>2, <1>3
<1>5. a - q - b \in Int
  OBVIOUS
<1> QED
  BY <1>3, <1>4, <1>5, RemainderUnique

LEMMA RemainderOfSum ==
  ASSUME NEW m \in Nat \ {0}, NEW x \in Int, NEW n \in Int
  PROVE  ((x % m) + n) % m = (x + n) % m
<1>1. PICK a \in Int : x = a * m + (x % m)
  BY Quotient
<1>2. x + n = a * m + ((x % m) + n)
  BY <1>1
<1>3. x % m \in Int /\ x + n \in Int /\ (x % m) + n \in Int
  OBVIOUS
<1> QED
  BY <1>2, <1>3, RemainderPeriodic

LEMMA LaterFacts ==
  ASSUME NEW c \in Chars, NEW m \in Nat, NEW n \in Nat
  PROVE  /\ Later(c, n) \in Chars
         /\ Later(c, 0) = c
         /\ Later(Later(c, m), n) = Later(c, m + n)
<1>1. CharCount \in Nat \ {0} /\ c + m \in Int /\ n \in Int /\ (c + m) + n = c + (m + n)
  BY UartAssumption DEF Chars
<1>2. Later(c, n) \in Chars /\ Later(c, 0) = c
  BY UartAssumption DEF Chars, Later
<1>3. (((c + m) % CharCount) + n) % CharCount = ((c + m) + n) % CharCount
  BY <1>1, RemainderOfSum, Zenon
<1> QED
  BY <1>1, <1>2, <1>3 DEF Later

---------------------------------------------------------------------------
\* The rings

\* How many cells from out to in are filled, and the k-th cell from out on.
Filled(in, out) == (in - out + BufLen) % BufLen

Cell(out, k) == (out + k) % BufLen

Wrapped(i) == i % BufLen

LEMMA WrappedFacts ==
  ASSUME NEW i \in 0 .. 2 * BufLen - 1
  PROVE  /\ Wrapped(i) = IF i < BufLen THEN i ELSE i - BufLen
         /\ Wrapped(i) \in Ring
<1>1. CASE i < BufLen
  BY <1>1, UartAssumption DEF Wrapped, Ring
<1>2. CASE i >= BufLen
  <2>1. (i - BufLen) % BufLen = i - BufLen
    BY <1>2, UartAssumption
  <2>2. i % BufLen = (i - BufLen) % BufLen
    <3>1. /\ i = 1 * BufLen + (i - BufLen) /\ 1 \in Int
          /\ BufLen \in Nat \ {0} /\ i \in Int /\ i - BufLen \in Int
      BY UartAssumption
    <3> QED
      BY <3>1, RemainderPeriodic, Zenon
  <2> QED
    BY <1>2, <2>1, <2>2, UartAssumption DEF Wrapped, Ring
<1> QED
  BY <1>1, <1>2, UartAssumption

LEMMA FilledFacts ==
  ASSUME NEW in \in Ring, NEW out \in Ring
  PROVE  /\ Filled(in, out) = IF in >= out THEN in - out ELSE in - out + BufLen
         /\ Filled(in, out) \in 0 .. BufLen - 1
         /\ Filled(in, out) = 0 <=> in = out
<1>1. in - out + BufLen \in 0 .. 2 * BufLen - 1
  BY UartAssumption DEF Ring
<1>2. Filled(in, out) = Wrapped(in - out + BufLen)
  BY DEF Filled, Wrapped
<1>3. Filled(in, out) = IF in >= out THEN in - out ELSE in - out + BufLen
  BY <1>1, <1>2, WrappedFacts, UartAssumption DEF Ring
<1> QED
  BY <1>3, UartAssumption DEF Ring

LEMMA CellFacts ==
  ASSUME NEW out \in Ring, NEW k \in 0 .. BufLen
  PROVE  /\ Cell(out, k) \in Ring
         /\ Cell(out, k) = IF out + k < BufLen THEN out + k ELSE out + k - BufLen
<1>1. PICK i \in 0 .. 2 * BufLen - 1 : i = out + k
  BY UartAssumption DEF Ring
<1>2. Cell(out, k) = Wrapped(i)
  BY <1>1 DEF Cell, Wrapped
<1> QED
  BY <1>1, <1>2, WrappedFacts, UartAssumption DEF Ring

LEMMA NextFacts ==
  ASSUME NEW i \in Ring
  PROVE  Next1(i) = Cell(i, 1) /\ Next1(i) \in Ring
  BY CellFacts, UartAssumption DEF Next1, Cell

\* n cells from in on are filled, none of them filled before.
LEMMA Advance ==
  ASSUME NEW in \in Ring, NEW out \in Ring, NEW n \in Nat,
         n <= BufLen - 1 - Filled(in, out)
  PROVE  /\ Cell(in, n) \in Ring
         /\ Filled(Cell(in, n), out) = Filled(in, out) + n
         /\ \A k \in 0 .. n - 1 : Cell(out, Filled(in, out) + k) = Cell(in, k)
<1>1. n \in 0 .. BufLen
  BY FilledFacts, UartAssumption
<1>2. Cell(in, n) \in Ring /\ Cell(in, n) = IF in + n < BufLen THEN in + n ELSE in + n - BufLen
  BY <1>1, CellFacts
<1>3. /\ Filled(in, out) = IF in >= out THEN in - out ELSE in - out + BufLen
      /\ Filled(Cell(in, n), out) =
           IF Cell(in, n) >= out THEN Cell(in, n) - out ELSE Cell(in, n) - out + BufLen
  BY <1>2, FilledFacts
<1>4. Filled(Cell(in, n), out) = Filled(in, out) + n
  BY <1>1, <1>2, <1>3, UartAssumption DEF Ring
<1>5. ASSUME NEW k \in 0 .. n - 1 PROVE Cell(out, Filled(in, out) + k) = Cell(in, k)
  <2>1. Filled(in, out) + k \in 0 .. BufLen /\ k \in 0 .. BufLen
    BY <1>1, FilledFacts, UartAssumption
  <2>2. /\ Cell(in, k) = IF in + k < BufLen THEN in + k ELSE in + k - BufLen
        /\ Cell(out, Filled(in, out) + k) =
             IF out + (Filled(in, out) + k) < BufLen THEN out + (Filled(in, out) + k)
             ELSE out + (Filled(in, out) + k) - BufLen
    BY <2>1, CellFacts
  <2> QED
    BY <1>1, <1>3, <2>1, <2>2, UartAssumption DEF Ring
<1> QED
  BY <1>2, <1>4, <1>5

\* n cells from out on are taken, all of them filled.
LEMMA Consume ==
  ASSUME NEW in \in Ring, NEW out \in Ring, NEW n \in Nat, n <= Filled(in, out)
  PROVE  /\ Cell(out, n) \in Ring
         /\ Filled(in, Cell(out, n)) = Filled(in, out) - n
         /\ \A k \in 0 .. Filled(in, out) - n - 1 : Cell(Cell(out, n), k) = Cell(out, n + k)
<1>1. n \in 0 .. BufLen
  BY FilledFacts, UartAssumption
<1>2. Cell(out, n) \in Ring /\ Cell(out, n) = IF out + n < BufLen THEN out + n ELSE out + n - BufLen
  BY <1>1, CellFacts
<1>3. /\ Filled(in, out) = IF in >= out THEN in - out ELSE in - out + BufLen
      /\ Filled(in, Cell(out, n)) =
           IF in >= Cell(out, n) THEN in - Cell(out, n) ELSE in - Cell(out, n) + BufLen
  BY <1>2, FilledFacts
<1>4. Filled(in, Cell(out, n)) = Filled(in, out) - n
  BY <1>1, <1>2, <1>3, UartAssumption DEF Ring
<1>5. ASSUME NEW k \in 0 .. Filled(in, out) - n - 1 PROVE Cell(Cell(out, n), k) = Cell(out, n + k)
  <2>1. n + k \in 0 .. BufLen /\ k \in 0 .. BufLen
    BY <1>1, FilledFacts, UartAssumption
  <2>2. /\ Cell(out, n + k) = IF out + (n + k) < BufLen THEN out + (n + k) ELSE out + (n + k) - BufLen
        /\ Cell(Cell(out, n), k) =
             IF Cell(out, n) + k < BufLen THEN Cell(out, n) + k ELSE Cell(out, n) + k - BufLen
    BY <1>2, <2>1, CellFacts
  <2> QED
    BY <1>1, <1>2, <2>1, <2>2, UartAssumption DEF Ring
<1> QED
  BY <1>2, <1>4, <1>5

\* The driver copies no more than there is room, and takes no more than there is.
LEMMA RoomFacts ==
  ASSUME NEW in \in Ring, NEW out \in Ring
  PROVE  /\ SpaceFrom(in, out) \in Nat
         /\ SpaceFrom(in, out) <= BufLen - 1 - Filled(in, out)
         /\ in + SpaceFrom(in, out) <= BufLen
         /\ FilledFrom(in, out) \in Nat
         /\ FilledFrom(in, out) <= Filled(in, out)
         /\ FilledFrom(in, out) = 0 <=> in = out
<1>1. Filled(in, out) = IF in >= out THEN in - out ELSE in - out + BufLen
  BY FilledFacts
<1> QED
  BY <1>1, UartAssumption DEF Ring, SpaceFrom, FilledFrom

LEMMA FullRing ==
  ASSUME NEW in \in Ring, NEW out \in Ring
  PROVE  Next1(in) = out <=> Filled(in, out) = BufLen - 1
<1>1. Next1(in) = IF in + 1 < BufLen THEN in + 1 ELSE in + 1 - BufLen
  BY NextFacts, CellFacts, UartAssumption
<1>2. Filled(in, out) = IF in >= out THEN in - out ELSE in - out + BufLen
  BY FilledFacts
<1> QED
  BY <1>1, <1>2, UartAssumption DEF Ring
---------------------------------------------------------------------------
\* The inductive invariant

\* Where the steps of write and close, and those of read, are.
Writing == {"copy", "publish", "kick", "wait", "recheck"}
CallStates == Writing \cup {"idle", "drain", "take", "release", "listen", "enable"}

RingTypes ==
  /\ rx_in \in Ring /\ rx_out \in Ring /\ rx_buf \in [Ring -> Chars]
  /\ tx_in \in Ring /\ tx_out \in Ring /\ tx_buf \in [Ring -> Chars]

IsrRecords ==
  [at : {"away", "check", "read", "write"}, avail : BOOLEAN, wi : BOOLEAN, space : 0 .. FifoDepth]

CallRecords ==
  [at : CallStates, left : Nat, done : Nat, n : Nat, seen : Ring, got : BOOLEAN, nonblock : BOOLEAN]

StreamTypes ==
  /\ txfifo \in Seq(Chars) /\ rxfifo \in Seq(Chars)
  /\ toWrite \in Chars /\ written \in Chars /\ toRead \in Chars /\ sent \in Chars

UartTypes ==
  /\ irq_enable \subseteq {"RE", "WE"} /\ host_inactive \in 0 .. Patience
  /\ RingTypes /\ StreamTypes /\ isr \in IsrRecords /\ call \in CallRecords

\* The handler's count of the room in the FIFO is never above the room there is.
RoomKept == isr.space + Len(txfifo) <= FifoDepth /\ Len(rxfifo) <= FifoDepth

(***************************************************************************)
(* On the way to the host: the FIFO and the ring hold the characters from  *)
(* written on, the calls that are over and this one have counted just      *)
(* those, and what has been copied but not published lies in free cells.   *)
(***************************************************************************)
TxFifoInOrder == \A i \in 1 .. Len(txfifo) : txfifo[i] = Later(written, i - 1)

TxRingInOrder ==
  \A k \in 0 .. Filled(tx_in, tx_out) - 1 :
    tx_buf[Cell(tx_out, k)] = Later(written, Len(txfifo) + k)

TxCounted ==
  /\ Later(written, Len(txfifo) + Filled(tx_in, tx_out)) = Later(toWrite, call.done)
  /\ call.at \notin Writing => call.done = 0

TxCopied ==
  call.at = "publish" =>
    /\ call.n <= call.left /\ call.n <= BufLen - 1 - Filled(tx_in, tx_out)
    /\ \A k \in 0 .. call.n - 1 : tx_buf[Cell(tx_in, k)] = Later(toWrite, call.done + k)

TxInv == TxFifoInOrder /\ TxRingInOrder /\ TxCounted /\ TxCopied

(***************************************************************************)
(* From the host: the ring and then the FIFO hold the characters from      *)
(* toRead on, and what the program has copied is still in its cells.       *)
(***************************************************************************)
RxRingInOrder ==
  \A k \in 0 .. Filled(rx_in, rx_out) - 1 : rx_buf[Cell(rx_out, k)] = Later(toRead, k)

RxFifoInOrder ==
  \A i \in 1 .. Len(rxfifo) : rxfifo[i] = Later(toRead, Filled(rx_in, rx_out) + i - 1)

RxCounted == Later(toRead, Filled(rx_in, rx_out) + Len(rxfifo)) = sent

RxCopied ==
  call.at = "release" =>
    call.n > 0 /\ call.n <= call.left /\ call.n <= Filled(rx_in, rx_out)

RxInv == RxRingInOrder /\ RxFifoInOrder /\ RxCounted /\ RxCopied

UartInv == UartTypes /\ RoomKept /\ TxInv /\ RxInv /\ ReaderWillEnable

LEMMA LaterIsChar == \A c \in Chars, n \in Int : Later(c, n) \in Chars
  BY UartAssumption DEF Chars, Later

LEMMA RemainderInRing == \A i \in Int : i % BufLen \in Ring
  BY UartAssumption DEF Ring

LEMMA RingIsNat == Ring \subseteq Int
  BY DEF Ring

LEMMA ZeroInRange == 0 \in Ring /\ 0 \in Chars
  BY UartAssumption DEF Ring, Chars

LEMMA IdleTypes == Idle \in CallRecords
  BY ZeroInRange DEF Idle, CallRecords, CallStates

LEMMA CallMoves ==
  ASSUME NEW c \in CallRecords, NEW at \in CallStates, NEW seen \in Ring
  PROVE  /\ [c EXCEPT !.at = at] \in CallRecords
         /\ [c EXCEPT !.at = at, !.seen = seen] \in CallRecords
  BY DEF CallRecords

LEMMA WritingStops ==
  ASSUME NEW i \in IsrRecords
  PROVE  [i EXCEPT !.at = "check", !.wi = FALSE, !.space = 0] \in IsrRecords
<1>1. [i EXCEPT !.at = "check"] \in IsrRecords
  BY DEF IsrRecords
<1>2. [[i EXCEPT !.at = "check"] EXCEPT !.wi = FALSE] \in IsrRecords
  BY <1>1 DEF IsrRecords
<1>3. 0 \in 0 .. FifoDepth
  BY UartAssumption
<1>4. [[[i EXCEPT !.at = "check"] EXCEPT !.wi = FALSE] EXCEPT !.space = 0] \in IsrRecords
  BY <1>2, <1>3 DEF IsrRecords
<1> QED
  BY <1>4

LEMMA InitEstablishes == UartInit => UartInv
<1> SUFFICES ASSUME UartInit PROVE UartInv
  OBVIOUS
<1>1. UartTypes /\ RoomKept
  BY ZeroInRange, UartAssumption
  DEF UartInit, UartTypes, RingTypes, IsrRecords, CallRecords, StreamTypes, RoomKept, Idle, Away, CallStates
<1>2. Filled(0, 0) = 0
  BY FilledFacts, ZeroInRange
<1>3. Later(0, 0) = 0
  BY LaterFacts, ZeroInRange
<1>4. TxInv
  BY <1>2, <1>3 DEF UartInit, TxInv, TxFifoInOrder, TxRingInOrder, TxCounted, TxCopied, Idle
<1>5. RxInv
  BY <1>2, <1>3 DEF UartInit, RxInv, RxRingInOrder, RxFifoInOrder, RxCounted, RxCopied, Idle
<1>6. ReaderWillEnable
  BY DEF UartInit, ReaderWillEnable
<1> QED
  BY <1>1, <1>4, <1>5, <1>6 DEF UartInv

---------------------------------------------------------------------------
\* Types, and the room in the FIFOs

LEMMA CallTypes == UartTypes /\ RoomKept /\ UartCall => UartTypes' /\ RoomKept'
<1> SUFFICES ASSUME UartTypes, RoomKept, UartCall PROVE UartTypes' /\ RoomKept'
  OBVIOUS
<1> USE UartAssumption, ZeroInRange
    DEF UartTypes, RingTypes, IsrRecords, CallRecords, StreamTypes, RoomKept, rings, core, stream, Idle, CallStates, Writing
<1>1. ASSUME NEW b \in BOOLEAN, Close(b) PROVE UartTypes' /\ RoomKept'
  BY <1>1 DEF Close
<1>2. ASSUME NEW b \in BOOLEAN, NEW c \in Counts, Write(c, b) PROVE UartTypes' /\ RoomKept'
  BY <1>2 DEF Write
<1>3. ASSUME NEW b \in BOOLEAN, NEW c \in Counts, Read(c, b) PROVE UartTypes' /\ RoomKept'
  BY <1>3 DEF Read
<1> QED
  BY <1>1, <1>2, <1>3 DEF UartCall

LEMMA DriverTypes == UartInv /\ UartDriver => UartTypes' /\ RoomKept'
<1> SUFFICES ASSUME UartInv, UartDriver PROVE UartTypes' /\ RoomKept'
  OBVIOUS
<1> USE UartAssumption, ZeroInRange
    DEF UartTypes, RingTypes, IsrRecords, CallRecords, StreamTypes, RoomKept, rings, core, stream, Idle, CallStates, Writing
<1>0. UartTypes /\ RoomKept
  BY DEF UartInv
<1>1. CASE CopyIn
  <2>1. Least(SpaceFrom(tx_in, tx_out), call.left) \in Nat
    BY <1>0, RoomFacts DEF Least
  <2>2. tx_buf' \in [Ring -> Chars]
    <3>1. ASSUME NEW i \in Ring PROVE call.done + i - tx_in \in Int
      BY <1>0 DEF Ring
    <3> QED
      BY <1>0, <1>1, <3>1, LaterIsChar DEF CopyIn
  <2> QED
    BY <1>0, <1>1, <2>1, <2>2 DEF CopyIn
<1>2. CASE Publish
  <2>1. call.at = "publish"
    BY <1>2 DEF Publish
  <2>2. call.left - call.n \in Nat /\ call.done + call.n \in Nat
    BY <1>0, <2>1 DEF UartInv, TxInv, TxCopied
  <2>3. tx_in' \in Ring
    <3>1. tx_in + call.n \in Int
      BY <1>0, RingIsNat
    <3> QED
      BY <1>2, <3>1, RemainderInRing DEF Publish
  <2> QED
    BY <1>0, <1>2, <2>2, <2>3 DEF Publish
<1>3. CASE Kick
  <2>1. toWrite' = toWrite \/ toWrite' = Later(toWrite, call.done)
    BY <1>3 DEF Kick, Returns
  <2>2. call' = Idle \/ call' = [call EXCEPT !.at = "wait"]
    BY <1>3 DEF Kick, Returns
  <2>3. toWrite' \in Chars
    <3>1. toWrite \in Chars /\ call.done \in Int
      BY <1>0
    <3> QED
      BY <2>1, <3>1, LaterIsChar
  <2>4. irq_enable' \subseteq {"RE", "WE"}
    BY <1>0, <1>3 DEF Kick, WithWrite
  <2>5. UNCHANGED <<rings, host_inactive, isr, core, written, toRead, sent>>
    BY <1>3 DEF Kick
  <2>6. call' \in CallRecords
    <3>1. "wait" \in CallStates /\ call \in CallRecords /\ 0 \in Ring
      BY <1>0
    <3> HIDE DEF CallRecords, Idle, CallStates
    <3>2. [call EXCEPT !.at = "wait"] \in CallRecords
      BY <3>1, CallMoves
    <3> QED
      BY <2>2, <3>2, IdleTypes
  <2> QED
    BY <1>0, <2>3, <2>4, <2>5, <2>6
<1>4. CASE AwaitSpace
  BY <1>0, <1>4 DEF AwaitSpace
<1>5. CASE Recheck
  <2>1. toWrite' = toWrite \/ toWrite' = Later(toWrite, call.done)
    BY <1>5 DEF Recheck, Returns
  <2>2. call' = Idle \/ call' = [call EXCEPT !.at = "copy", !.seen = 0]
    BY <1>5 DEF Recheck, Returns
  <2>3. toWrite' \in Chars
    <3>1. toWrite \in Chars /\ call.done \in Int
      BY <1>0
    <3> QED
      BY <2>1, <3>1, LaterIsChar
  <2>4. UNCHANGED <<irq_enable, rings, host_inactive, isr, core, written, toRead, sent>>
    BY <1>5 DEF Recheck
  <2>5. call' \in CallRecords
    <3>1. "copy" \in CallStates /\ call \in CallRecords /\ 0 \in Ring
      BY <1>0
    <3> HIDE DEF CallRecords, Idle, CallStates
    <3>2. [call EXCEPT !.at = "copy", !.seen = 0] \in CallRecords
      BY <3>1, CallMoves
    <3> QED
      BY <2>2, <3>2, IdleTypes
  <2> QED
    BY <1>0, <2>3, <2>4, <2>5
<1>6. CASE Drained
  BY <1>0, <1>6 DEF Drained
<1>7. CASE CopyOut
  <2>1. Least(FilledFrom(rx_in, rx_out), call.left) \in Nat
    BY <1>0, RoomFacts DEF Least
  <2> QED
    BY <1>0, <1>7, <2>1 DEF CopyOut
<1>8. CASE Release
  <2>1. call.at = "release"
    BY <1>8 DEF Release
  <2>2. call.left - call.n \in Nat
    BY <1>0, <2>1 DEF UartInv, RxInv, RxCopied
  <2>3. rx_out' \in Ring
    <3>1. rx_out + call.n \in Int
      BY <1>0, RingIsNat
    <3> QED
      BY <1>8, <3>1, RemainderInRing DEF Release
  <2> QED
    <3>1. toRead' \in Chars
      BY <1>0, <1>8, LaterIsChar DEF Release
    <3> QED
      BY <1>0, <1>8, <2>2, <2>3, <3>1 DEF Release
<1>9. CASE Listen
  BY <1>0, <1>9 DEF Listen
<1>10. CASE EnableRead
  BY <1>0, <1>10 DEF EnableRead, WithRead
<1> QED
  BY <1>1, <1>2, <1>3, <1>4, <1>5, <1>6, <1>7, <1>8, <1>9, <1>10 DEF UartDriver

LEMMA IsrTypes == UartInv /\ UartIsr => UartTypes' /\ RoomKept'
<1> SUFFICES ASSUME UartInv, UartIsr PROVE UartTypes' /\ RoomKept'
  OBVIOUS
<1> USE UartAssumption, ZeroInRange
    DEF UartTypes, RingTypes, IsrRecords, CallRecords, StreamTypes, RoomKept, rings, core, stream, ReadDone
<1>0. UartTypes /\ RoomKept
  BY DEF UartInv
<1>1. CASE Check
  <2>1. FifoDepth - Len(txfifo) \in 0 .. FifoDepth
    BY <1>0
  <2>2. RI \in BOOLEAN /\ WI \in BOOLEAN
    BY DEF RI, WI
  <2>3. /\ isr' \in IsrRecords
        /\ isr'.space + Len(txfifo) <= FifoDepth
    BY <1>0, <1>1, <2>1, <2>2 DEF Check, Away
  <2> QED
    BY <1>0, <1>1, <2>3 DEF Check
<1>2. CASE StopReading
  BY <1>0, <1>2 DEF StopReading
<1>3. CASE NothingToRead
  BY <1>0, <1>3 DEF NothingToRead
<1>4. CASE ReadChar
  <2>1. Head(rxfifo) \in Chars /\ Tail(rxfifo) \in Seq(Chars) /\ Len(Tail(rxfifo)) = Len(rxfifo) - 1
    BY <1>0, <1>4 DEF ReadChar
  <2>2. rx_in' \in Ring
    BY <1>0, <1>4, NextFacts DEF ReadChar
  <2> QED
    <3>1. rx_buf' \in [Ring -> Chars] /\ rxfifo' = Tail(rxfifo)
      BY <1>0, <1>4, <2>1 DEF ReadChar
    <3>2. isr' = [isr EXCEPT !.avail = rxfifo' # <<>>] /\ (rxfifo' # <<>>) \in BOOLEAN
      BY <1>4 DEF ReadChar
    <3>3. isr' \in IsrRecords /\ isr'.space = isr.space
      BY <1>0, <3>2
    <3>4. UNCHANGED <<irq_enable, rx_out, tx_in, tx_out, tx_buf, host_inactive, call, txfifo, stream>>
      BY <1>4 DEF ReadChar
    <3> QED
      BY <1>0, <2>1, <2>2, <3>1, <3>3, <3>4
<1>5. CASE WriteChar
  <2>1. tx_out' \in Ring
    BY <1>0, <1>5, NextFacts DEF WriteChar
  <2>2. tx_buf[tx_out] \in Chars
    BY <1>0
  <2>3. txfifo' \in Seq(Chars) /\ Len(txfifo') = Len(txfifo) + 1
    BY <1>0, <1>5, <2>2 DEF WriteChar
  <2> QED
    <3>1. isr' = [isr EXCEPT !.space = isr.space - 1] /\ isr.space - 1 \in 0 .. FifoDepth
      BY <1>0, <1>5 DEF WriteChar
    <3>2. isr' \in IsrRecords /\ isr'.space = isr.space - 1
      BY <1>0, <3>1
    <3>3. UNCHANGED <<irq_enable, rx_in, rx_out, rx_buf, tx_in, tx_buf, host_inactive, call, rxfifo,
                      stream>>
      BY <1>5 DEF WriteChar
    <3> QED
      BY <1>0, <2>1, <2>3, <3>2, <3>3
<1>6. CASE StopWriting
  <2>1. isr' = [isr EXCEPT !.at = "check", !.wi = FALSE, !.space = 0]
    BY <1>6 DEF StopWriting
  <2>2. irq_enable' \subseteq {"RE", "WE"}
    BY <1>0, <1>6 DEF StopWriting
  <2>3. isr' \in IsrRecords /\ isr'.space = 0
    <3>1. isr' \in IsrRecords
      BY <1>0, <2>1, WritingStops
    <3>2. isr'.space = 0
      BY <1>0, <2>1
    <3> QED
      BY <3>1, <3>2
  <2>4. UNCHANGED <<rings, host_inactive, call, core, stream>>
    BY <1>6 DEF StopWriting
  <2> QED
    BY <1>0, <2>2, <2>3, <2>4
<1> QED
  BY <1>1, <1>2, <1>3, <1>4, <1>5, <1>6 DEF UartIsr

LEMMA WorldTypes ==
  UartTypes /\ RoomKept /\ (AlarmTimeout \/ HostPoll \/ HostSend \/ HostPlug)
    => UartTypes' /\ RoomKept'
<1> SUFFICES ASSUME UartTypes, RoomKept, AlarmTimeout \/ HostPoll \/ HostSend \/ HostPlug
             PROVE  UartTypes' /\ RoomKept'
  OBVIOUS
<1> USE UartAssumption DEF UartTypes, RingTypes, IsrRecords, CallRecords, StreamTypes, RoomKept, rings, core, stream
<1>1. CASE AlarmTimeout
  <2>1. host_inactive' \in 0 .. Patience
    BY <1>1 DEF AlarmTimeout, Least
  <2> QED
    BY <1>1, <2>1 DEF AlarmTimeout
<1>2. CASE HostPoll
  <2>1. written' \in Chars
    BY <1>2, LaterIsChar DEF HostPoll
  <2>2. txfifo' \in Seq(Chars) /\ Len(txfifo') <= Len(txfifo)
    BY <1>2 DEF HostPoll
  <2> QED
    BY <1>2, <2>1, <2>2 DEF HostPoll
<1>3. CASE HostSend
  <2>1. sent' \in Chars
    BY <1>3, LaterIsChar DEF HostSend
  <2>2. rxfifo' \in Seq(Chars) /\ Len(rxfifo') = Len(rxfifo) + 1
    BY <1>3 DEF HostSend
  <2> QED
    BY <1>3, <2>1, <2>2 DEF HostSend
<1>4. CASE HostPlug
  BY <1>4 DEF HostPlug
<1> QED
  BY <1>1, <1>2, <1>3, <1>4

---------------------------------------------------------------------------
\* The characters on their way to the host

txRing == <<tx_in, tx_out, tx_buf, txfifo, written, toWrite>>

\* A step that only moves the program on, past the copying.
LEMMA TxQuiet ==
  ASSUME TxInv, UNCHANGED txRing, call'.done = call.done, call'.at # "publish",
         call'.at \in Writing \/ call.done = 0
  PROVE  TxInv'
  BY DEF txRing, TxInv, TxFifoInOrder, TxRingInOrder, TxCounted, TxCopied

LEMMA TxSame ==
  ASSUME TxInv, UNCHANGED <<txRing, call>>
  PROVE  TxInv'
  BY DEF txRing, TxInv, TxFifoInOrder, TxRingInOrder, TxCounted, TxCopied

\* What the driver copies does not touch a filled cell.
LEMMA FreeCells ==
  ASSUME NEW in \in Ring, NEW out \in Ring, NEW k \in 0 .. Filled(in, out) - 1,
         NEW i \in in .. in + SpaceFrom(in, out) - 1
  PROVE  i # Cell(out, k)
<1>1. Filled(in, out) = IF in >= out THEN in - out ELSE in - out + BufLen
  BY FilledFacts
<1>2. Cell(out, k) = IF out + k < BufLen THEN out + k ELSE out + k - BufLen
  <2>1. k \in 0 .. BufLen
    BY FilledFacts, UartAssumption
  <2> QED
    BY <2>1, CellFacts
<1>3. SpaceFrom(in, out) \in Nat
  BY RoomFacts
<1> QED
  BY <1>1, <1>2, <1>3, UartAssumption DEF Ring, SpaceFrom

LEMMA CopyInTx ==
  ASSUME UartInv, CopyIn
  PROVE  TxInv'
<1> DEFINE n == Least(SpaceFrom(tx_in, tx_out), call.left)
<1>1. /\ tx_in \in Ring /\ tx_out \in Ring /\ tx_buf \in [Ring -> Chars]
      /\ call \in CallRecords /\ call.left \in Nat /\ call.done \in Nat
  BY DEF UartInv, UartTypes, RingTypes, CallRecords
<1>2. /\ n \in Nat /\ n <= call.left /\ n <= SpaceFrom(tx_in, tx_out)
      /\ n <= BufLen - 1 - Filled(tx_in, tx_out) /\ tx_in + n <= BufLen
  <2>1. /\ SpaceFrom(tx_in, tx_out) \in Nat
        /\ SpaceFrom(tx_in, tx_out) <= BufLen - 1 - Filled(tx_in, tx_out)
        /\ tx_in + SpaceFrom(tx_in, tx_out) <= BufLen
        /\ Filled(tx_in, tx_out) \in Nat /\ tx_in \in Nat
    BY <1>1, RoomFacts, FilledFacts DEF Ring
  <2> QED
    BY <1>1, <2>1, UartAssumption DEF Least
<1>3. /\ UNCHANGED <<tx_in, tx_out, txfifo, written, toWrite>>
      /\ call'.done = call.done /\ call'.left = call.left /\ call'.n = n
      /\ call.at = "copy" /\ call'.at \in {"kick", "publish"}
  BY <1>1 DEF CopyIn, core, stream, CallRecords
<1>4. \A i \in Ring :
        tx_buf'[i] = IF i \in tx_in .. tx_in + n - 1 THEN Later(toWrite, call.done + i - tx_in)
                     ELSE tx_buf[i]
  BY DEF CopyIn
<1> HIDE DEF n
<1>5. TxFifoInOrder' /\ TxCounted'
  BY <1>3 DEF UartInv, TxInv, TxFifoInOrder, TxCounted, Writing
<1>6. TxRingInOrder'
  <2> SUFFICES ASSUME NEW k \in 0 .. Filled(tx_in, tx_out) - 1
               PROVE  tx_buf'[Cell(tx_out, k)] = tx_buf[Cell(tx_out, k)]
    BY <1>3 DEF UartInv, TxInv, TxRingInOrder
  <2>1. Cell(tx_out, k) \in Ring
    BY <1>1, FilledFacts, CellFacts, UartAssumption
  <2>2. Cell(tx_out, k) \notin tx_in .. tx_in + n - 1
    <3>1. SpaceFrom(tx_in, tx_out) \in Nat /\ tx_in \in Nat
      BY <1>1, RoomFacts DEF Ring
    <3>2. tx_in .. tx_in + n - 1 \subseteq tx_in .. tx_in + SpaceFrom(tx_in, tx_out) - 1
      BY <1>2, <3>1
    <3> QED
      BY <1>1, <3>2, FreeCells
  <2> QED
    BY <1>4, <2>1, <2>2
<1>7. TxCopied'
  <2> SUFFICES ASSUME NEW k \in 0 .. n - 1
               PROVE  tx_buf'[Cell(tx_in, k)] = Later(toWrite, call.done + k)
    BY <1>2, <1>3 DEF TxCopied
  <2>1. k \in 0 .. BufLen /\ tx_in \in Nat /\ tx_in + k < BufLen
    BY <1>1, <1>2, UartAssumption DEF Ring
  <2>2. Cell(tx_in, k) \in Ring /\ Cell(tx_in, k) = tx_in + k
    BY <1>1, <2>1, CellFacts
  <2>3. tx_in + k \in tx_in .. tx_in + n - 1 /\ call.done + (tx_in + k) - tx_in = call.done + k
    BY <1>1, <1>2, <2>1
  <2> QED
    BY <1>4, <2>2, <2>3
<1> QED
  BY <1>5, <1>6, <1>7 DEF TxInv

LEMMA PublishTx ==
  ASSUME UartInv, Publish
  PROVE  TxInv'
<1> DEFINE n == call.n
           full == Filled(tx_in, tx_out)
           len == Len(txfifo)
<1>1. /\ tx_in \in Ring /\ tx_out \in Ring /\ toWrite \in Chars /\ written \in Chars
      /\ call \in CallRecords /\ n \in Nat /\ call.done \in Nat /\ len \in Nat
      /\ full \in 0 .. BufLen - 1
  BY FilledFacts DEF UartInv, UartTypes, RingTypes, StreamTypes, CallRecords
<1>2. /\ UNCHANGED <<tx_out, tx_buf, txfifo, written, toWrite>> /\ tx_in' = Cell(tx_in, n)
      /\ call'.done = call.done + n /\ call.at = "publish" /\ call'.at = "copy"
  BY <1>1 DEF Publish, core, stream, CallRecords, Cell
<1>3. /\ n <= BufLen - 1 - full
      /\ \A k \in 0 .. n - 1 : tx_buf[Cell(tx_in, k)] = Later(toWrite, call.done + k)
  BY <1>2 DEF UartInv, TxInv, TxCopied
<1>4. /\ Filled(tx_in', tx_out) = full + n
      /\ \A k \in 0 .. n - 1 : Cell(tx_out, full + k) = Cell(tx_in, k)
  BY <1>1, <1>2, <1>3, Advance
<1>5. \A k \in Nat : Later(written, len + full + k) = Later(toWrite, call.done + k)
  <2> SUFFICES ASSUME NEW k \in Nat
               PROVE  Later(written, len + full + k) = Later(toWrite, call.done + k)
    OBVIOUS
  <2>1. Later(written, len + full) = Later(toWrite, call.done)
    BY DEF UartInv, TxInv, TxCounted
  <2>2. len + full \in Nat
    BY <1>1
  <2>3. /\ Later(Later(written, len + full), k) = Later(written, len + full + k)
        /\ Later(Later(toWrite, call.done), k) = Later(toWrite, call.done + k)
    BY <1>1, <2>2, LaterFacts
  <2> QED
    BY <2>1, <2>3
<1> HIDE DEF n, full, len
<1>6. TxFifoInOrder'
  BY <1>2 DEF UartInv, TxInv, TxFifoInOrder
<1>7. TxRingInOrder'
  <2> SUFFICES ASSUME NEW k \in 0 .. full + n - 1
               PROVE  tx_buf[Cell(tx_out, k)] = Later(written, len + k)
    BY <1>1, <1>2, <1>4 DEF TxRingInOrder, len
  <2>1. CASE k < full
    BY <1>1, <2>1 DEF UartInv, TxInv, TxRingInOrder, full, len
  <2>2. CASE k >= full
    <3>1. PICK j \in 0 .. n - 1 : k = full + j
      BY <1>1, <2>2
    <3>2. tx_buf[Cell(tx_out, k)] = Later(toWrite, call.done + j)
      BY <1>3, <1>4, <3>1
    <3>3. len + k = len + full + j /\ j \in Nat
      BY <1>1, <3>1
    <3> QED
      BY <1>5, <3>2, <3>3
  <2> QED
    BY <1>1, <2>1, <2>2
<1>8. TxCounted'
  <2>1. Later(written, len + (full + n)) = Later(toWrite, call.done + n)
    <3>1. len + (full + n) = len + full + n
      BY <1>1
    <3> QED
      BY <1>1, <1>5, <3>1
  <2> QED
    BY <1>2, <1>4, <2>1 DEF TxCounted, Writing, len
<1>9. TxCopied'
  BY <1>2 DEF TxCopied
<1> QED
  BY <1>6, <1>7, <1>8, <1>9 DEF TxInv

\* The call comes back, and what it has counted belongs to the past.
LEMMA ReturnsTx ==
  ASSUME UartInv, Returns, UNCHANGED <<tx_in, tx_out, tx_buf, txfifo, written>>
  PROVE  TxInv'
<1>1. toWrite \in Chars /\ call.done \in Nat
  BY DEF UartInv, UartTypes, StreamTypes, CallRecords
<1>2. Later(toWrite', 0) = Later(toWrite, call.done)
  <2>1. Later(Later(toWrite, call.done), 0) = Later(toWrite, call.done)
    BY <1>1, LaterFacts
  <2> QED
    BY <2>1 DEF Returns
<1>3. call'.done = 0 /\ call'.at = "idle"
  BY DEF Returns, Idle
<1> QED
  BY <1>2, <1>3 DEF UartInv, TxInv, TxFifoInOrder, TxRingInOrder, TxCounted, TxCopied

LEMMA WriteCharTx ==
  ASSUME UartInv, WriteChar
  PROVE  TxInv'
<1> DEFINE full == Filled(tx_in, tx_out)
           len == Len(txfifo)
<1>1. /\ tx_in \in Ring /\ tx_out \in Ring /\ tx_buf \in [Ring -> Chars] /\ written \in Chars
      /\ txfifo \in Seq(Chars) /\ len \in Nat /\ full \in 0 .. BufLen - 1
      /\ call.n \in Nat
  <2>1. tx_in \in Ring /\ tx_out \in Ring /\ tx_buf \in [Ring -> Chars] /\ call.n \in Nat
    BY DEF UartInv, UartTypes, RingTypes, CallRecords
  <2>2. txfifo \in Seq(Chars) /\ len \in Nat /\ written \in Chars
    BY DEF UartInv, UartTypes, StreamTypes
  <2> QED
    BY <2>1, <2>2, FilledFacts
<1>2. /\ UNCHANGED <<tx_in, tx_buf, written, toWrite, call>>
      /\ tx_out' = Cell(tx_out, 1) /\ txfifo' = Append(txfifo, tx_buf[tx_out]) /\ tx_out # tx_in
  BY <1>1, NextFacts DEF WriteChar, stream
<1>3. full >= 1
  BY <1>1, <1>2, FilledFacts
<1>4. /\ Filled(tx_in, tx_out') = full - 1
      /\ \A k \in 0 .. full - 1 - 1 : Cell(tx_out', k) = Cell(tx_out, 1 + k)
  BY <1>1, <1>2, <1>3, Consume
<1>5. \A k \in 0 .. full - 1 : tx_buf[Cell(tx_out, k)] = Later(written, len + k)
  BY DEF UartInv, TxInv, TxRingInOrder
<1>6. Len(txfifo') = len + 1 /\ txfifo'[len + 1] = Later(written, len)
  <2>1. Cell(tx_out, 0) = tx_out
    BY <1>1, CellFacts, UartAssumption DEF Ring
  <2>2. tx_buf[tx_out] = Later(written, len)
    BY <1>1, <1>3, <1>5, <2>1
  <2> QED
    BY <1>1, <1>2, <2>2
<1>7. \A i \in 1 .. len : txfifo'[i] = Later(written, i - 1)
  BY <1>1, <1>2 DEF UartInv, TxInv, TxFifoInOrder
<1> HIDE DEF full, len
<1>8. TxFifoInOrder'
  <2> SUFFICES ASSUME NEW i \in 1 .. len + 1 PROVE txfifo'[i] = Later(written, i - 1)
    BY <1>2, <1>6 DEF TxFifoInOrder
  <2> QED
    BY <1>1, <1>6, <1>7
<1>9. TxRingInOrder'
  <2> SUFFICES ASSUME NEW k \in 0 .. full - 1 - 1
               PROVE  tx_buf[Cell(tx_out, 1 + k)] = Later(written, len + 1 + k)
    BY <1>2, <1>4, <1>6 DEF TxRingInOrder
  <2>1. 1 + k \in 0 .. full - 1 /\ len + (1 + k) = len + 1 + k
    BY <1>1
  <2> QED
    BY <1>5, <2>1
<1>10. TxCounted'
  <2>1. (len + 1) + (full - 1) = len + full
    BY <1>1
  <2> QED
    BY <1>2, <1>4, <1>6, <2>1 DEF UartInv, TxInv, TxCounted, full, len
<1>11. TxCopied'
  <2>1. call.n <= BufLen - 1 - full => call.n <= BufLen - 1 - (full - 1)
    BY <1>1, UartAssumption
  <2> QED
    BY <1>2, <1>4, <2>1 DEF UartInv, TxInv, TxCopied, full
<1> QED
  BY <1>8, <1>9, <1>10, <1>11 DEF TxInv

LEMMA HostPollTx ==
  ASSUME UartInv, HostPoll
  PROVE  TxInv'
<1>1. CASE txfifo = <<>>
  BY <1>1, TxSame DEF UartInv, HostPoll, txRing, rings
<1>2. CASE txfifo # <<>>
  <2> DEFINE full == Filled(tx_in, tx_out)
             len == Len(txfifo)
  <2>1. /\ tx_in \in Ring /\ tx_out \in Ring /\ written \in Chars
        /\ txfifo \in Seq(Chars) /\ len \in Nat \ {0} /\ full \in 0 .. BufLen - 1
    BY <1>2, FilledFacts DEF UartInv, UartTypes, RingTypes, StreamTypes
  <2>2. /\ UNCHANGED <<tx_in, tx_out, tx_buf, toWrite, call>>
        /\ txfifo' = Tail(txfifo) /\ written' = Later(written, 1)
    BY <1>2 DEF HostPoll, rings
  <2>3. Len(txfifo') = len - 1 /\ \A i \in 1 .. len - 1 : txfifo'[i] = txfifo[i + 1]
    BY <2>1, <2>2
  <2>4. \A k \in Nat : Later(written', k) = Later(written, 1 + k)
    BY <2>1, <2>2, LaterFacts
  <2>5. TxFifoInOrder'
    <3> SUFFICES ASSUME NEW i \in 1 .. len - 1 PROVE txfifo[i + 1] = Later(written', i - 1)
      BY <2>3 DEF TxFifoInOrder
    <3>1. txfifo[i + 1] = Later(written, (i + 1) - 1)
      BY <2>1 DEF UartInv, TxInv, TxFifoInOrder
    <3>2. (i + 1) - 1 = 1 + (i - 1) /\ i - 1 \in Nat
      OBVIOUS
    <3> QED
      BY <2>4, <3>1, <3>2
  <2> HIDE DEF full, len
  <2>6. TxRingInOrder'
    <3> SUFFICES ASSUME NEW k \in 0 .. full - 1
                 PROVE  tx_buf[Cell(tx_out, k)] = Later(written', len - 1 + k)
      BY <2>2, <2>3 DEF TxRingInOrder, full
    <3>1. tx_buf[Cell(tx_out, k)] = Later(written, len + k)
      BY DEF UartInv, TxInv, TxRingInOrder, full, len
    <3>2. len + k = 1 + (len - 1 + k) /\ len - 1 + k \in Nat
      BY <2>1
    <3> QED
      BY <2>4, <3>1, <3>2
  <2>7. TxCounted'
    <3>1. len + full = 1 + (len - 1 + full) /\ len - 1 + full \in Nat
      BY <2>1
    <3>2. Later(written', len - 1 + full) = Later(written, len + full)
      BY <2>4, <3>1
    <3> QED
      BY <2>2, <2>3, <3>2 DEF UartInv, TxInv, TxCounted, full, len
  <2>8. TxCopied'
    BY <2>2 DEF UartInv, TxInv, TxCopied
  <2> QED
    BY <2>5, <2>6, <2>7, <2>8 DEF TxInv
<1> QED
  BY <1>1, <1>2

---------------------------------------------------------------------------
\* The characters on their way from the host

rxRing == <<rx_in, rx_out, rx_buf, rxfifo, toRead, sent>>

LEMMA RxQuiet ==
  ASSUME RxInv, UNCHANGED rxRing, call'.at # "release"
  PROVE  RxInv'
  BY DEF rxRing, RxInv, RxFifoInOrder, RxRingInOrder, RxCounted, RxCopied

LEMMA RxSame ==
  ASSUME RxInv, UNCHANGED <<rxRing, call>>
  PROVE  RxInv'
  BY DEF rxRing, RxInv, RxFifoInOrder, RxRingInOrder, RxCounted, RxCopied

LEMMA CopyOutRx ==
  ASSUME UartInv, CopyOut
  PROVE  RxInv'
<1> DEFINE n == Least(FilledFrom(rx_in, rx_out), call.left)
<1>1. /\ rx_in \in Ring /\ rx_out \in Ring /\ call \in CallRecords /\ call.left \in Nat
  BY DEF UartInv, UartTypes, RingTypes, CallRecords
<1>2. n \in Nat /\ n <= call.left /\ n <= Filled(rx_in, rx_out)
  <2>1. /\ FilledFrom(rx_in, rx_out) \in Nat /\ FilledFrom(rx_in, rx_out) <= Filled(rx_in, rx_out)
        /\ Filled(rx_in, rx_out) \in Nat
    BY <1>1, RoomFacts, FilledFacts
  <2> QED
    BY <1>1, <2>1 DEF Least
<1>3. /\ UNCHANGED <<rx_in, rx_out, rx_buf, rxfifo, toRead, sent>>
      /\ call'.at = "release" => call'.n = n /\ n > 0 /\ call'.left = call.left
  BY <1>1, <1>2 DEF CopyOut, rings, core, stream, Idle, CallRecords
<1> HIDE DEF n
<1> QED
  BY <1>2, <1>3 DEF UartInv, RxInv, RxRingInOrder, RxFifoInOrder, RxCounted, RxCopied

LEMMA ReleaseRx ==
  ASSUME UartInv, Release
  PROVE  RxInv'
<1> DEFINE n == call.n
           full == Filled(rx_in, rx_out)
           len == Len(rxfifo)
<1>1. /\ rx_in \in Ring /\ rx_out \in Ring /\ toRead \in Chars /\ rxfifo \in Seq(Chars)
      /\ call \in CallRecords /\ n \in Nat /\ len \in Nat /\ full \in 0 .. BufLen - 1
  BY FilledFacts DEF UartInv, UartTypes, RingTypes, StreamTypes, CallRecords
<1>2. /\ UNCHANGED <<rx_in, rx_buf, rxfifo, sent>>
      /\ rx_out' = Cell(rx_out, n) /\ toRead' = Later(toRead, n)
      /\ call.at = "release" /\ call'.at \in {"enable", "take"}
  BY <1>1 DEF Release, core, CallRecords, Cell
<1>3. n <= full
  BY <1>2 DEF UartInv, RxInv, RxCopied
<1>4. /\ Filled(rx_in, rx_out') = full - n
      /\ \A k \in 0 .. full - n - 1 : Cell(rx_out', k) = Cell(rx_out, n + k)
  BY <1>1, <1>2, <1>3, Consume
<1>5. \A k \in Nat : Later(toRead', k) = Later(toRead, n + k)
  BY <1>1, <1>2, LaterFacts
<1> HIDE DEF n, full, len
<1>6. RxRingInOrder'
  <2>1. ASSUME NEW k \in 0 .. full - n - 1
        PROVE  rx_buf[Cell(rx_out', k)] = Later(toRead', k)
    <3>1. n + k \in 0 .. full - 1 /\ k \in Nat
      BY <1>1
    <3>2. rx_buf[Cell(rx_out, n + k)] = Later(toRead, n + k)
      BY <3>1 DEF UartInv, RxInv, RxRingInOrder, full
    <3> QED
      BY <1>4, <1>5, <3>1, <3>2
  <2> QED
    BY <1>2, <1>4, <2>1 DEF RxRingInOrder
<1>7. RxFifoInOrder'
  <2> SUFFICES ASSUME NEW i \in 1 .. Len(rxfifo)
               PROVE  rxfifo[i] = Later(toRead', full - n + i - 1)
    BY <1>2, <1>4 DEF RxFifoInOrder
  <2>1. rxfifo[i] = Later(toRead, full + i - 1)
    BY DEF UartInv, RxInv, RxFifoInOrder, full
  <2>2. full - n + i - 1 \in Nat /\ n + (full - n + i - 1) = full + i - 1
    BY <1>1, <1>3
  <2> QED
    BY <1>5, <2>1, <2>2
<1>8. RxCounted'
  <2>1. full - n + len \in Nat /\ n + (full - n + len) = full + len
    BY <1>1, <1>3
  <2>2. Later(toRead', full - n + len) = Later(toRead, full + len)
    BY <1>5, <2>1
  <2> QED
    BY <1>2, <1>4, <2>2 DEF UartInv, RxInv, RxCounted, full, len
<1>9. RxCopied'
  BY <1>2 DEF RxCopied
<1> QED
  BY <1>6, <1>7, <1>8, <1>9 DEF RxInv

LEMMA ReadCharRx ==
  ASSUME UartInv, ReadChar
  PROVE  RxInv'
<1> DEFINE full == Filled(rx_in, rx_out)
           len == Len(rxfifo)
<1>1. /\ rx_in \in Ring /\ rx_out \in Ring /\ rx_buf \in [Ring -> Chars]
      /\ rxfifo \in Seq(Chars) /\ len \in Nat \ {0} /\ full \in 0 .. BufLen - 1 /\ call.n \in Nat
  <2>1. rx_in \in Ring /\ rx_out \in Ring /\ rx_buf \in [Ring -> Chars] /\ call.n \in Nat
    BY DEF UartInv, UartTypes, RingTypes, CallRecords
  <2>2. rxfifo \in Seq(Chars) /\ len \in Nat \ {0}
    BY DEF UartInv, UartTypes, StreamTypes, ReadChar
  <2> QED
    BY <2>1, <2>2, FilledFacts
<1>2. /\ UNCHANGED <<rx_out, toRead, sent, call>> /\ rx_in' = Cell(rx_in, 1)
      /\ rxfifo' = Tail(rxfifo) /\ rx_buf' = [rx_buf EXCEPT ![rx_in] = Head(rxfifo)]
  BY <1>1, NextFacts DEF ReadChar, stream
<1>3. full <= BufLen - 1 - 1
  BY <1>1, FullRing, UartAssumption DEF ReadChar, RxFull
<1>4. Filled(rx_in', rx_out) = full + 1 /\ Cell(rx_out, full) = rx_in
  <2>1. Filled(rx_in', rx_out) = full + 1
    BY <1>1, <1>2, <1>3, Advance, UartAssumption
  <2>2. Cell(rx_out, full + 0) = Cell(rx_in, 0)
    BY <1>1, <1>3, Advance, UartAssumption
  <2>3. Cell(rx_in, 0) = rx_in
    BY <1>1, CellFacts, UartAssumption DEF Ring
  <2> QED
    BY <1>1, <2>1, <2>2, <2>3
<1>5. \A k \in 0 .. full - 1 : Cell(rx_out, k) # rx_in
  <2> SUFFICES ASSUME NEW k \in 0 .. full - 1 PROVE Cell(rx_out, k) # rx_in
    OBVIOUS
  <2>1. /\ Cell(rx_out, k) = IF rx_out + k < BufLen THEN rx_out + k ELSE rx_out + k - BufLen
        /\ Cell(rx_out, full) =
             IF rx_out + full < BufLen THEN rx_out + full ELSE rx_out + full - BufLen
    BY <1>1, CellFacts, UartAssumption
  <2> QED
    BY <1>1, <1>4, <2>1, UartAssumption DEF Ring
<1>6. Len(rxfifo') = len - 1 /\ \A i \in 1 .. len - 1 : rxfifo'[i] = rxfifo[i + 1]
  BY <1>1, <1>2
<1>7. rx_buf'[rx_in] = Later(toRead, full)
  <2>1. rxfifo[1] = Later(toRead, full + 1 - 1)
    BY <1>1 DEF UartInv, RxInv, RxFifoInOrder
  <2> QED
    BY <1>1, <1>2, <2>1
<1> HIDE DEF full, len
<1>8. RxRingInOrder'
  <2> SUFFICES ASSUME NEW k \in 0 .. full
               PROVE  rx_buf'[Cell(rx_out, k)] = Later(toRead, k)
    BY <1>1, <1>2, <1>4 DEF RxRingInOrder
  <2>1. CASE k = full
    BY <1>4, <1>7, <2>1
  <2>2. CASE k # full
    <3>1. k \in 0 .. full - 1
      BY <1>1, <2>2
    <3>2. rx_buf[Cell(rx_out, k)] = Later(toRead, k)
      BY <3>1 DEF UartInv, RxInv, RxRingInOrder, full
    <3>3. Cell(rx_out, k) \in Ring
      BY <1>1, <3>1, CellFacts, UartAssumption
    <3> QED
      BY <1>1, <1>2, <1>5, <3>1, <3>2, <3>3
  <2> QED
    BY <2>1, <2>2
<1>9. RxFifoInOrder'
  <2> SUFFICES ASSUME NEW i \in 1 .. len - 1
               PROVE  rxfifo[i + 1] = Later(toRead, full + 1 + i - 1)
    BY <1>1, <1>2, <1>4, <1>6 DEF RxFifoInOrder
  <2>1. i + 1 \in 1 .. len /\ full + (i + 1) - 1 = full + 1 + i - 1
    BY <1>1
  <2>2. rxfifo[i + 1] = Later(toRead, full + (i + 1) - 1)
    BY <2>1 DEF UartInv, RxInv, RxFifoInOrder, full, len
  <2> QED
    BY <2>1, <2>2
<1>10. RxCounted'
  <2>1. (full + 1) + (len - 1) = full + len
    BY <1>1
  <2> QED
    BY <1>2, <1>4, <1>6, <2>1 DEF UartInv, RxInv, RxCounted, full, len
<1>11. RxCopied'
  <2>1. call.n <= full => call.n <= full + 1
    BY <1>1
  <2> QED
    BY <1>2, <1>4, <2>1 DEF UartInv, RxInv, RxCopied, full
<1> QED
  BY <1>8, <1>9, <1>10, <1>11 DEF RxInv

LEMMA HostSendRx ==
  ASSUME UartInv, HostSend
  PROVE  RxInv'
<1> DEFINE full == Filled(rx_in, rx_out)
           len == Len(rxfifo)
<1>1. /\ rx_in \in Ring /\ rx_out \in Ring /\ toRead \in Chars /\ sent \in Chars
      /\ rxfifo \in Seq(Chars) /\ len \in Nat /\ full \in 0 .. BufLen - 1
  BY FilledFacts DEF UartInv, UartTypes, RingTypes, StreamTypes
<1>2. /\ UNCHANGED <<rx_in, rx_out, rx_buf, toRead, call>>
      /\ rxfifo' = Append(rxfifo, sent) /\ sent' = Later(sent, 1)
  BY DEF HostSend, rings
<1>3. /\ Len(rxfifo') = len + 1 /\ rxfifo'[len + 1] = sent
      /\ \A i \in 1 .. len : rxfifo'[i] = rxfifo[i]
  BY <1>1, <1>2
<1>4. sent = Later(toRead, full + len) /\ full + len \in Nat
  BY <1>1 DEF UartInv, RxInv, RxCounted
<1>5. sent' = Later(toRead, full + len + 1)
  BY <1>1, <1>2, <1>4, LaterFacts
<1> HIDE DEF full, len
<1>6. RxFifoInOrder'
  <2> SUFFICES ASSUME NEW i \in 1 .. len + 1 PROVE rxfifo'[i] = Later(toRead, full + i - 1)
    BY <1>2, <1>3 DEF RxFifoInOrder, full
  <2>1. CASE i = len + 1
    <3>1. full + i - 1 = full + len
      BY <1>1, <2>1
    <3> QED
      BY <1>3, <1>4, <2>1, <3>1
  <2>2. CASE i # len + 1
    <3>1. i \in 1 .. len
      BY <1>1, <2>2
    <3> QED
      BY <1>3, <3>1 DEF UartInv, RxInv, RxFifoInOrder, full, len
  <2> QED
    BY <2>1, <2>2
<1>7. RxCounted'
  <2>1. full + (len + 1) = full + len + 1
    BY <1>1
  <2> QED
    BY <1>2, <1>3, <1>5, <2>1 DEF RxCounted, full
<1>8. RxRingInOrder' /\ RxCopied'
  BY <1>2 DEF UartInv, RxInv, RxRingInOrder, RxCopied
<1> QED
  BY <1>6, <1>7, <1>8 DEF RxInv

---------------------------------------------------------------------------
\* The receive interrupt

\* A step that enables nothing, takes nothing and is not one of a reader about to enable.
LEMMA EnableQuiet ==
  ASSUME ReaderWillEnable, UNCHANGED <<rx_in, rx_out>>,
         "RE" \in irq_enable => "RE" \in irq_enable',
         call.at \in {"take", "enable"} => call' = call
  PROVE  ReaderWillEnable'
  BY DEF ReaderWillEnable

LEMMA CopyOutEnable ==
  ASSUME UartInv, CopyOut
  PROVE  ReaderWillEnable'
<1> DEFINE n == Least(FilledFrom(rx_in, rx_out), call.left)
<1>1. /\ rx_in \in Ring /\ rx_out \in Ring /\ call \in CallRecords /\ call.left \in Nat
  BY DEF UartInv, UartTypes, RingTypes, CallRecords
<1>2. n > 0 => rx_in # rx_out
  BY <1>1, RoomFacts DEF Least
<1>3. UNCHANGED <<irq_enable, rx_in, rx_out>>
  BY DEF CopyOut, rings
<1>4. CASE n > 0
  BY <1>2, <1>3, <1>4 DEF ReaderWillEnable
<1>5. CASE ~(n > 0) /\ call.got
  <2>1. call'.at = "enable" /\ call'.got
    BY <1>1, <1>5 DEF CopyOut, CallRecords
  <2> QED
    BY <2>1 DEF ReaderWillEnable
<1>6. CASE ~(n > 0) /\ ~call.got
  BY <1>3, <1>6 DEF UartInv, ReaderWillEnable
<1> QED
  BY <1>4, <1>5, <1>6

LEMMA ReleaseEnable ==
  ASSUME UartInv, Release
  PROVE  ReaderWillEnable'
<1>1. call \in CallRecords
  BY DEF UartInv, UartTypes
<1>2. call'.got = TRUE /\ call'.at \in {"take", "enable"}
  BY <1>1 DEF Release, CallRecords
<1> QED
  BY <1>2 DEF ReaderWillEnable

LEMMA ReadCharEnable ==
  ASSUME UartInv, ReadChar
  PROVE  ReaderWillEnable'
<1>1. rx_in \in Ring /\ rx_out \in Ring
  BY DEF UartInv, UartTypes, RingTypes
<1>2. rx_in' # rx_out'
  BY DEF ReadChar, RxFull
<1> QED
  BY <1>2 DEF ReaderWillEnable

LEMMA StopReadingEnable ==
  ASSUME UartInv, StopReading
  PROVE  ReaderWillEnable'
<1>1. rx_in \in Ring /\ rx_out \in Ring
  BY DEF UartInv, UartTypes, RingTypes
<1>2. rx_in # rx_out
  BY <1>1, FullRing, FilledFacts, UartAssumption DEF StopReading, RxFull
<1> QED
  BY <1>2 DEF StopReading, rings, ReaderWillEnable

---------------------------------------------------------------------------
\* Every step

LEMMA CallStep == UartInv /\ UartCall => UartInv'
<1> SUFFICES ASSUME UartInv, UartCall PROVE UartInv'
  OBVIOUS
<1>1. UNCHANGED <<irq_enable, txRing, rxRing>> /\ call.at = "idle"
  BY DEF UartCall, Close, Write, Read, rings, core, stream, txRing, rxRing
<1>2. call'.done = 0 /\ call'.at \in {"drain", "copy", "take"}
  BY DEF UartCall, Close, Write, Read, Idle
<1>3. call.done = 0
  BY <1>1 DEF UartInv, TxInv, TxCounted, Writing
<1>4. TxInv'
  BY <1>1, <1>2, <1>3, TxQuiet DEF UartInv
<1>5. RxInv'
  BY <1>1, <1>2, RxQuiet DEF UartInv
<1>6. ReaderWillEnable'
  BY <1>1, EnableQuiet DEF UartInv, rxRing
<1> QED
  BY <1>4, <1>5, <1>6, CallTypes DEF UartInv

LEMMA DriverTx == UartInv /\ UartDriver => TxInv'
<1> SUFFICES ASSUME UartInv, UartDriver PROVE TxInv'
  OBVIOUS
<1>0. TxInv /\ call \in CallRecords /\ (call.at \notin Writing => call.done = 0)
  BY DEF UartInv, UartTypes, TxInv, TxCounted
<1>1. CASE CopyIn
  BY <1>1, CopyInTx
<1>2. CASE Publish
  BY <1>2, PublishTx
<1>3. CASE Kick
  <2>1. CASE Returns
    BY <1>3, <2>1, ReturnsTx DEF Kick, rings, core
  <2>2. CASE call' = [call EXCEPT !.at = "wait"] /\ UNCHANGED toWrite
    <3>1. call'.done = call.done /\ call'.at = "wait"
      BY <1>0, <2>2 DEF CallRecords
    <3> QED
      BY <1>0, <1>3, <2>2, <3>1, TxQuiet DEF Kick, rings, core, txRing, Writing
  <2> QED
    BY <1>3, <2>1, <2>2 DEF Kick
<1>4. CASE AwaitSpace
  <2>1. call'.done = call.done /\ call'.at = "recheck"
    BY <1>0, <1>4 DEF AwaitSpace, CallRecords
  <2> QED
    BY <1>0, <1>4, <2>1, TxQuiet DEF AwaitSpace, rings, core, stream, txRing, Writing
<1>5. CASE Recheck
  <2>1. CASE Returns
    BY <1>5, <2>1, ReturnsTx DEF Recheck, rings, core
  <2>2. CASE call' = [call EXCEPT !.at = "copy", !.seen = 0] /\ UNCHANGED toWrite
    <3>1. call'.done = call.done /\ call'.at = "copy"
      BY <1>0, <2>2 DEF CallRecords
    <3> QED
      BY <1>0, <1>5, <2>2, <3>1, TxQuiet DEF Recheck, rings, core, txRing, Writing
  <2> QED
    BY <1>5, <2>1, <2>2 DEF Recheck
<1>6. CASE Drained
  <2>1. call.done = 0 /\ call'.done = 0 /\ call'.at = "idle"
    BY <1>0, <1>6 DEF Drained, Idle, Writing
  <2> QED
    BY <1>0, <1>6, <2>1, TxQuiet DEF Drained, rings, core, stream, txRing
<1>7. CASE CopyOut
  <2>1. call.done = 0
    BY <1>0, <1>7 DEF CopyOut, Writing
  <2>2. call'.done = 0 /\ call'.at \in {"release", "enable", "idle", "listen"}
    BY <1>0, <1>7, <2>1 DEF CopyOut, Idle, CallRecords
  <2> QED
    BY <1>0, <1>7, <2>1, <2>2, TxQuiet DEF CopyOut, rings, core, stream, txRing
<1>8. CASE Release
  <2>1. call.done = 0
    BY <1>0, <1>8 DEF Release, Writing
  <2>2. call'.done = 0 /\ call'.at \in {"enable", "take"}
    BY <1>0, <1>8, <2>1 DEF Release, CallRecords
  <2> QED
    BY <1>0, <1>8, <2>1, <2>2, TxQuiet DEF Release, core, txRing
<1>9. CASE Listen
  <2>1. call.done = 0
    BY <1>0, <1>9 DEF Listen, Writing
  <2>2. call'.done = 0 /\ call'.at \in {"idle", "take"}
    BY <1>0, <1>9, <2>1 DEF Listen, Idle, CallRecords
  <2> QED
    BY <1>0, <1>9, <2>1, <2>2, TxQuiet DEF Listen, rings, core, stream, txRing
<1>10. CASE EnableRead
  <2>1. call.done = 0 /\ call'.done = 0 /\ call'.at = "idle"
    BY <1>0, <1>10 DEF EnableRead, Idle, Writing
  <2> QED
    BY <1>0, <1>10, <2>1, TxQuiet DEF EnableRead, rings, core, stream, txRing
<1> QED
  BY <1>1, <1>2, <1>3, <1>4, <1>5, <1>6, <1>7, <1>8, <1>9, <1>10 DEF UartDriver

LEMMA DriverRx == UartInv /\ UartDriver => RxInv'
<1> SUFFICES ASSUME UartInv, UartDriver PROVE RxInv'
  OBVIOUS
<1>0. RxInv /\ call \in CallRecords
  BY DEF UartInv, UartTypes
<1>1. CASE CopyIn \/ Publish \/ Kick \/ AwaitSpace \/ Recheck \/ Drained \/ Listen \/ EnableRead
  <2>1. UNCHANGED rxRing
    BY <1>1 DEF CopyIn, Publish, Kick, AwaitSpace, Recheck, Drained, Listen, EnableRead,
       rings, core, stream, rxRing, Returns
  <2>2. call'.at # "release"
    <3>1. CASE CopyIn \/ Publish \/ AwaitSpace
      BY <1>0, <3>1 DEF CopyIn, Publish, AwaitSpace, CallRecords
    <3>2. CASE Kick \/ Recheck
      <4>1. \/ call' = Idle
            \/ call' = [call EXCEPT !.at = "wait"]
            \/ call' = [call EXCEPT !.at = "copy", !.seen = 0]
        BY <3>2 DEF Kick, Recheck, Returns
      <4>2. CASE call' = Idle
        BY <4>2 DEF Idle
      <4>3. CASE call' = [call EXCEPT !.at = "wait"]
        BY <1>0, <4>3 DEF CallRecords
      <4>4. CASE call' = [call EXCEPT !.at = "copy", !.seen = 0]
        BY <1>0, <4>4 DEF CallRecords
      <4> QED
        BY <4>1, <4>2, <4>3, <4>4
    <3>3. CASE Drained \/ Listen \/ EnableRead
      <4>1. \/ call' = Idle
            \/ call' = [call EXCEPT !.at = "take", !.seen = 0]
        BY <3>3 DEF Drained, Listen, EnableRead
      <4>2. CASE call' = Idle
        BY <4>2 DEF Idle
      <4>3. CASE call' = [call EXCEPT !.at = "take", !.seen = 0]
        BY <1>0, <4>3 DEF CallRecords
      <4> QED
        BY <4>1, <4>2, <4>3
    <3> QED
      BY <1>1, <3>1, <3>2, <3>3
  <2> QED
    BY <1>0, <2>1, <2>2, RxQuiet
<1>2. CASE CopyOut
  BY <1>2, CopyOutRx
<1>3. CASE Release
  BY <1>3, ReleaseRx
<1> QED
  BY <1>1, <1>2, <1>3 DEF UartDriver

LEMMA DriverEnable == UartInv /\ UartDriver => ReaderWillEnable'
<1> SUFFICES ASSUME UartInv, UartDriver PROVE ReaderWillEnable'
  OBVIOUS
<1>1. CASE CopyIn \/ Publish \/ Kick \/ AwaitSpace \/ Recheck \/ Drained \/ Listen
  <2>1. /\ UNCHANGED <<rx_in, rx_out>> /\ ("RE" \in irq_enable => "RE" \in irq_enable')
        /\ call.at \notin {"take", "enable"}
    BY <1>1 DEF CopyIn, Publish, Kick, AwaitSpace, Recheck, Drained, Listen, rings, WithWrite
  <2> QED
    BY <2>1, EnableQuiet DEF UartInv
<1>2. CASE CopyOut
  BY <1>2, CopyOutEnable
<1>3. CASE Release
  BY <1>3, ReleaseEnable
<1>4. CASE EnableRead
  BY <1>4 DEF EnableRead, WithRead, ReaderWillEnable
<1> QED
  BY <1>1, <1>2, <1>3, <1>4 DEF UartDriver

LEMMA DriverStep == UartInv /\ UartDriver => UartInv'
  BY DriverTypes, DriverTx, DriverRx, DriverEnable DEF UartInv

LEMMA IsrStep == UartInv /\ UartIsr => UartInv'
<1> SUFFICES ASSUME UartInv, UartIsr PROVE TxInv' /\ RxInv' /\ ReaderWillEnable'
  BY IsrTypes DEF UartInv
<1>0. TxInv /\ RxInv /\ ReaderWillEnable
  BY DEF UartInv
<1>1. CASE Check \/ NothingToRead \/ StopWriting
  <2>1. UNCHANGED <<txRing, rxRing, call>> /\ ("RE" \in irq_enable => "RE" \in irq_enable')
    BY <1>1 DEF Check, NothingToRead, StopWriting, rings, core, stream, txRing, rxRing
  <2> QED
    BY <1>0, <2>1, TxSame, RxSame, EnableQuiet DEF rxRing
<1>2. CASE StopReading
  <2>1. UNCHANGED <<txRing, rxRing, call>>
    BY <1>2 DEF StopReading, rings, core, stream, txRing, rxRing
  <2> QED
    BY <1>0, <1>2, <2>1, TxSame, RxSame, StopReadingEnable
<1>3. CASE ReadChar
  <2>1. UNCHANGED <<txRing, call>>
    BY <1>3 DEF ReadChar, stream, txRing
  <2> QED
    BY <1>0, <1>3, <2>1, TxSame, ReadCharRx, ReadCharEnable
<1>4. CASE WriteChar
  <2>1. UNCHANGED <<rxRing, call, irq_enable>>
    BY <1>4 DEF WriteChar, stream, rxRing
  <2> QED
    BY <1>0, <1>4, <2>1, WriteCharTx, RxSame, EnableQuiet DEF rxRing
<1> QED
  BY <1>1, <1>2, <1>3, <1>4 DEF UartIsr

LEMMA WorldStep == UartInv /\ (AlarmTimeout \/ HostPoll \/ HostSend \/ HostPlug) => UartInv'
<1> SUFFICES ASSUME UartInv, AlarmTimeout \/ HostPoll \/ HostSend \/ HostPlug
             PROVE  TxInv' /\ RxInv' /\ ReaderWillEnable'
  BY WorldTypes DEF UartInv
<1>0. TxInv /\ RxInv /\ ReaderWillEnable
  BY DEF UartInv
<1>1. ReaderWillEnable'
  <2>1. UNCHANGED <<irq_enable, rx_in, rx_out, call>>
    BY DEF AlarmTimeout, HostPoll, HostSend, HostPlug, rings
  <2> QED
    BY <1>0, <2>1, EnableQuiet
<1>2. CASE AlarmTimeout \/ HostPlug
  <2>1. UNCHANGED <<txRing, rxRing, call>>
    BY <1>2 DEF AlarmTimeout, HostPlug, rings, core, stream, txRing, rxRing
  <2> QED
    BY <1>0, <1>1, <2>1, TxSame, RxSame
<1>3. CASE HostPoll
  <2>1. UNCHANGED <<rxRing, call>>
    BY <1>3 DEF HostPoll, rings, rxRing
  <2> QED
    BY <1>0, <1>1, <1>3, <2>1, HostPollTx, RxSame
<1>4. CASE HostSend
  <2>1. UNCHANGED <<txRing, call>>
    BY <1>4 DEF HostSend, rings, txRing
  <2> QED
    BY <1>0, <1>1, <1>4, <2>1, HostSendRx, TxSame
<1> QED
  BY <1>2, <1>3, <1>4

LEMMA UartStep == UartInv /\ [UartNext]_uart => UartInv'
<1> SUFFICES ASSUME UartInv, [UartNext]_uart PROVE UartInv'
  OBVIOUS
<1>1. CASE UNCHANGED uart
  BY <1>1 DEF uart, rings, core, stream, UartInv, UartTypes, RingTypes, StreamTypes, RoomKept,
     TxInv, TxFifoInOrder, TxRingInOrder, TxCounted, TxCopied,
     RxInv, RxFifoInOrder, RxRingInOrder, RxCounted, RxCopied, ReaderWillEnable
<1> QED
  BY <1>1, CallStep, DriverStep, IsrStep, WorldStep DEF UartNext

\* The handler and the program share the rings without ever being in each other's cells
\* (altera_avalon_jtag_uart_read.c, _write.c, _init.c).
THEOREM UartInvariant == UartSpec => []UartInv
  BY InitEstablishes, UartStep, PTL DEF UartSpec

\* The interrupt for the host's characters is never off for good.
THEOREM UartReaderWillEnable == UartSpec => []ReaderWillEnable
<1>1. UartInv => ReaderWillEnable
  BY DEF UartInv
<1> QED
  BY <1>1, UartInvariant, PTL

\* Indices stay in the rings, and the FIFOs of the core are not overrun.
THEOREM UartTypeCorrect == UartSpec => []UartTypeOK
<1>1. UartInv => UartTypeOK
  <2> SUFFICES ASSUME UartInv PROVE UartTypeOK
    OBVIOUS
  <2>1. isr.at \in {"away", "check", "read", "write"} /\ isr.space \in 0 .. FifoDepth
    BY DEF UartInv, UartTypes, IsrRecords
  <2>2. Len(txfifo) <= FifoDepth /\ Len(rxfifo) <= FifoDepth
    <3>1. Len(txfifo) \in Nat
      BY DEF UartInv, UartTypes, StreamTypes
    <3> QED
      BY <2>1, <3>1, UartAssumption DEF UartInv, RoomKept
  <2> QED
    BY <2>1, <2>2 DEF UartInv, UartTypes, RingTypes, UartTypeOK
<1> QED
  BY <1>1, UartInvariant, PTL

---------------------------------------------------------------------------
\* The invariant in terms of sequences

LEMMA ContentFacts ==
  ASSUME NEW buf \in [Ring -> Chars], NEW in \in Ring, NEW out \in Ring
  PROVE  /\ Content(buf, in, out) \in Seq(Chars)
         /\ Len(Content(buf, in, out)) = Filled(in, out)
         /\ \A k \in 1 .. Filled(in, out) : Content(buf, in, out)[k] = buf[Cell(out, k - 1)]
<1>1. Filled(in, out) \in 0 .. BufLen - 1
  BY FilledFacts
<1>2. ASSUME NEW k \in 1 .. Filled(in, out)
      PROVE  (out + k - 1) % BufLen = Cell(out, k - 1) /\ Cell(out, k - 1) \in Ring
  <2>1. k - 1 \in 0 .. BufLen /\ out + k - 1 = out + (k - 1)
    BY <1>1, UartAssumption DEF Ring
  <2> QED
    BY <2>1, CellFacts DEF Cell
<1>3. Content(buf, in, out) = [k \in 1 .. Filled(in, out) |-> buf[Cell(out, k - 1)]]
  BY <1>2 DEF Content, Filled
<1>4. Content(buf, in, out) \in [1 .. Filled(in, out) -> Chars]
  BY <1>2, <1>3
<1>5. Content(buf, in, out) \in Seq(Chars)
  BY <1>1, <1>4
<1> QED
  BY <1>1, <1>3, <1>5

LEMMA ConsecutiveConcat ==
  ASSUME NEW s \in Seq(Chars), NEW t \in Seq(Chars), NEW from \in Chars, NEW to,
         \A i \in 1 .. Len(s) : s[i] = Later(from, i - 1),
         \A i \in 1 .. Len(t) : t[i] = Later(from, Len(s) + i - 1),
         Later(from, Len(s) + Len(t)) = to
  PROVE  Consecutive(s \o t, from, to)
<1>1. /\ Len(s) \in Nat /\ Len(t) \in Nat /\ Len(s \o t) = Len(s) + Len(t)
      /\ DOMAIN (s \o t) = 1 .. Len(s) + Len(t)
  OBVIOUS
<1>2. ASSUME NEW i \in 1 .. Len(s) + Len(t) PROVE (s \o t)[i] = Later(from, i - 1)
  <2>1. CASE i <= Len(s)
    BY <1>1, <2>1
  <2>2. CASE i > Len(s)
    <3>1. i - Len(s) \in 1 .. Len(t) /\ Len(s) + (i - Len(s)) - 1 = i - 1
      BY <1>1, <2>2
    <3>2. (s \o t)[i] = t[i - Len(s)]
      BY <1>1, <2>2
    <3>3. t[i - Len(s)] = Later(from, Len(s) + (i - Len(s)) - 1)
      BY <3>1
    <3> QED
      BY <3>1, <3>2, <3>3
  <2> QED
    BY <1>1, <2>1, <2>2
<1> QED
  BY <1>1, <1>2 DEF Consecutive

LEMMA ToHostFollows == UartInv => NothingLostToHost
<1> SUFFICES ASSUME UartInv PROVE NothingLostToHost
  OBVIOUS
<1> DEFINE c == Content(tx_buf, tx_in, tx_out)
<1>1. /\ tx_buf \in [Ring -> Chars] /\ tx_in \in Ring /\ tx_out \in Ring
      /\ txfifo \in Seq(Chars) /\ written \in Chars
  BY DEF UartInv, UartTypes, RingTypes, StreamTypes
<1>2. /\ c \in Seq(Chars) /\ Len(c) = Filled(tx_in, tx_out)
      /\ \A k \in 1 .. Filled(tx_in, tx_out) : c[k] = tx_buf[Cell(tx_out, k - 1)]
  BY <1>1, ContentFacts
<1>3. Filled(tx_in, tx_out) \in Nat /\ Len(txfifo) \in Nat
  BY <1>1, FilledFacts
<1>4. ASSUME NEW k \in 1 .. Len(c) PROVE c[k] = Later(written, Len(txfifo) + k - 1)
  <2>1. k - 1 \in 0 .. Filled(tx_in, tx_out) - 1 /\ Len(txfifo) + (k - 1) = Len(txfifo) + k - 1
    BY <1>2, <1>3
  <2>2. tx_buf[Cell(tx_out, k - 1)] = Later(written, Len(txfifo) + (k - 1))
    BY <2>1 DEF UartInv, TxInv, TxRingInOrder
  <2> QED
    BY <1>2, <2>1, <2>2
<1>5. \A i \in 1 .. Len(txfifo) : txfifo[i] = Later(written, i - 1)
  BY DEF UartInv, TxInv, TxFifoInOrder
<1>6. Later(written, Len(txfifo) + Len(c)) = Later(toWrite, call.done)
  BY <1>2 DEF UartInv, TxInv, TxCounted
<1> HIDE DEF c
<1>7. Consecutive(txfifo \o c, written, Later(toWrite, call.done))
  BY <1>1, <1>2, <1>4, <1>5, <1>6, ConsecutiveConcat
<1> QED
  BY <1>7 DEF NothingLostToHost, UnderWay, c

LEMMA FromHostFollows == UartInv => NothingLostFromHost
<1> SUFFICES ASSUME UartInv PROVE NothingLostFromHost
  OBVIOUS
<1> DEFINE c == Content(rx_buf, rx_in, rx_out)
<1>1. /\ rx_buf \in [Ring -> Chars] /\ rx_in \in Ring /\ rx_out \in Ring
      /\ rxfifo \in Seq(Chars) /\ toRead \in Chars
  BY DEF UartInv, UartTypes, RingTypes, StreamTypes
<1>2. /\ c \in Seq(Chars) /\ Len(c) = Filled(rx_in, rx_out)
      /\ \A k \in 1 .. Filled(rx_in, rx_out) : c[k] = rx_buf[Cell(rx_out, k - 1)]
  BY <1>1, ContentFacts
<1>3. Filled(rx_in, rx_out) \in Nat
  BY <1>1, FilledFacts
<1>4. ASSUME NEW k \in 1 .. Len(c) PROVE c[k] = Later(toRead, k - 1)
  <2>1. k - 1 \in 0 .. Filled(rx_in, rx_out) - 1
    BY <1>2, <1>3
  <2> QED
    BY <1>2, <2>1 DEF UartInv, RxInv, RxRingInOrder
<1>5. \A i \in 1 .. Len(rxfifo) : rxfifo[i] = Later(toRead, Len(c) + i - 1)
  BY <1>2 DEF UartInv, RxInv, RxFifoInOrder
<1>6. Later(toRead, Len(c) + Len(rxfifo)) = sent
  BY <1>2 DEF UartInv, RxInv, RxCounted
<1> HIDE DEF c
<1>7. Consecutive(c \o rxfifo, toRead, sent)
  BY <1>1, <1>2, <1>4, <1>5, <1>6, ConsecutiveConcat
<1> QED
  BY <1>7 DEF NothingLostFromHost, c

\* What a write has counted reaches the host, once and in order.
THEOREM UartNothingLostToHost == UartSpec => []NothingLostToHost
  BY UartInvariant, ToHostFollows, PTL

\* What the host sends reaches the program, once and in order.
THEOREM UartNothingLostFromHost == UartSpec => []NothingLostFromHost
  BY UartInvariant, FromHostFollows, PTL
============================================================================
