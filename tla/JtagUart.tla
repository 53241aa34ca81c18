------------------------------ MODULE JtagUart ------------------------------
(***************************************************************************)
(* The driver of the JTAG UART, which carries the program's printf to the  *)
(* host.  The program, the interrupt handler and the once a second alarm   *)
(* share two ring buffers; the handler moves characters between them and   *)
(* the FIFOs of the core, and the host empties and fills those whenever it *)
(* likes, or goes away.  A step is what one of them does between two       *)
(* accesses to what they share; the program stands still in the handler.   *)
(*                                                                         *)
(* Characters are numbered in the order they are sent, round and round.    *)
(***************************************************************************)
EXTENDS Integers, Sequences

CONSTANTS
  BufLen,       \* ALTERA_AVALON_JTAG_UART_BUF_LEN
  FifoDepth,    \* of each FIFO of the core
  Threshold,    \* the core asks for characters when its FIFO holds no more
  Patience,     \* sp->timeout, in seconds
  CharCount,    \* more than can be under way
  Counts        \* how many characters one call writes or reads at most

ASSUME UartAssumption ==
  /\ BufLen \in Nat /\ BufLen >= 2
  /\ FifoDepth \in Nat \ {0} /\ Threshold \in Nat /\ Patience \in Nat \ {0}
  /\ CharCount \in Nat /\ CharCount > BufLen + FifoDepth
  /\ Counts \subseteq Nat \ {0}

VARIABLES
  irq_enable,                   \* of "RE" and "WE", also the control register
  rx_in, rx_out, rx_buf,        \* from the host
  tx_in, tx_out, tx_buf,        \* to the host
  host_inactive,
  isr,                          \* the interrupt handler
  call,                         \* the program's call of the driver
  txfifo, rxfifo, activity,     \* the core, with the AC bit of its control register
  connected,                    \* the host looks at the core
  toWrite, written, toRead, sent,
  way                           \* the program writes, "tx", or reads, "rx"

rings == <<rx_in, rx_out, rx_buf, tx_in, tx_out, tx_buf>>
core == <<txfifo, rxfifo, activity>>

(***************************************************************************)
(* toWrite: the next character the program will write, written: the next   *)
(* the host will get, sent: the next the host will send, toRead: the next  *)
(* the program will read.                                                  *)
(***************************************************************************)
stream == <<toWrite, written, toRead, sent>>

uart == <<irq_enable, rings, host_inactive, isr, call, core, connected, stream, way>>

Chars == 0 .. CharCount - 1
Later(c, n) == (c + n) % CharCount
Ring == 0 .. BufLen - 1
\* Mutant: an index runs off the end of its buffer.
Next1_Unwrapped(i) == i + 1

Next1(i) == (i + 1) % BufLen
Least(a, b) == IF a < b THEN a ELSE b

Idle == [at |-> "idle", left |-> 0, done |-> 0, n |-> 0, seen |-> 0, got |-> FALSE, nonblock |-> FALSE]
Away == [at |-> "away", avail |-> FALSE, wi |-> FALSE, space |-> 0]

\* altera_avalon_jtag_uart_init
UartInit ==
  /\ irq_enable = {"RE"} /\ host_inactive = 0
  /\ rx_in = 0 /\ rx_out = 0 /\ rx_buf = [i \in Ring |-> 0]
  /\ tx_in = 0 /\ tx_out = 0 /\ tx_buf = [i \in Ring |-> 0]
  /\ isr = Away /\ call = Idle
  /\ txfifo = <<>> /\ rxfifo = <<>> /\ activity = FALSE
  /\ connected \in BOOLEAN
  /\ toWrite = 0 /\ written = 0 /\ toRead = 0 /\ sent = 0
  /\ way \in {"rx", "tx"}

RunsProgram == isr = Away

---------------------------------------------------------------------------
\* altera_avalon_jtag_uart_write

\* Mutant: the buffer is filled to the last cell, and a full one looks empty.
SpaceFrom_Full(in, out) == IF in < out THEN out - in ELSE BufLen - in

\* The free cells from in on, up to the end of the buffer; one cell stays free.
SpaceFrom(in, out) ==
  IF in < out THEN out - 1 - in ELSE IF out > 0 THEN BufLen - in ELSE BufLen - 1 - in

Write(count, nonblock) ==
  /\ RunsProgram /\ call.at = "idle" /\ way = "tx"
  /\ call' = [Idle EXCEPT !.at = "copy", !.left = count, !.nonblock = nonblock]
  /\ UNCHANGED <<irq_enable, rings, host_inactive, isr, core, connected, stream, way>>

\* memcpy into the free cells, which the handler does not look at.
CopyIn ==
  /\ RunsProgram /\ call.at = "copy"
  /\ LET n == Least(SpaceFrom(tx_in, tx_out), call.left) IN
       /\ tx_buf' = [i \in Ring |->
            IF i \in tx_in .. tx_in + n - 1 THEN Later(toWrite, call.done + i - tx_in) ELSE tx_buf[i]]
       /\ call' = [call EXCEPT
            !.seen = IF call.left > 0 THEN tx_out ELSE @,
            !.n = n,
            !.at = IF n = 0 THEN "kick" ELSE "publish"]
  /\ UNCHANGED <<irq_enable, rx_in, rx_out, rx_buf, tx_in, tx_out, host_inactive, isr, core,
                 connected, stream, way>>

Publish ==
  /\ RunsProgram /\ call.at = "publish"
  /\ tx_in' = (tx_in + call.n) % BufLen
  /\ call' = [call EXCEPT !.at = "copy", !.left = @ - call.n, !.done = @ + call.n, !.n = 0]
  /\ UNCHANGED <<irq_enable, rx_in, rx_out, rx_buf, tx_out, tx_buf, host_inactive, isr, core,
                 connected, stream, way>>

\* Mutant: the transmit interrupt is only enabled when the buffer is full.
WithWrite_IfFull == IF call.left > 0 THEN irq_enable \cup {"WE"} ELSE irq_enable

\* "For now kick the interrupt routine every time to make it transmit the data"
WithWrite == irq_enable \cup {"WE"}

\* return ptr - start, or an error when nothing was copied
Returns == call' = Idle /\ toWrite' = Later(toWrite, call.done)

Kick ==
  /\ RunsProgram /\ call.at = "kick"
  /\ irq_enable' = WithWrite
  /\ IF call.left = 0 \/ call.nonblock
     THEN Returns
     ELSE call' = [call EXCEPT !.at = "wait"] /\ UNCHANGED toWrite
  /\ UNCHANGED <<rings, host_inactive, isr, core, connected, written, toRead, sent, way>>

\* Mutant: the program waits for space, whether the host is there or not.
GivesUp_Never == FALSE

GivesUp == host_inactive >= Patience

\* The spin, which the handler or the alarm ends.
AwaitSpace ==
  /\ RunsProgram /\ call.at = "wait"
  /\ call.seen # tx_out \/ GivesUp
  /\ call' = [call EXCEPT !.at = "recheck"]
  /\ UNCHANGED <<irq_enable, rings, host_inactive, isr, core, connected, stream, way>>

\* A host that has been inactive for a second ends the call with what was written.
Recheck ==
  /\ RunsProgram /\ call.at = "recheck"
  /\ IF host_inactive # 0
     THEN Returns
     ELSE call' = [call EXCEPT !.at = "copy", !.seen = 0] /\ UNCHANGED toWrite
  /\ UNCHANGED <<irq_enable, rings, host_inactive, isr, core, connected, written, toRead, sent,
                 way>>

\* altera_avalon_jtag_uart_close: wait until all is sent, unless nobody takes it.
Close(nonblock) ==
  /\ RunsProgram /\ call.at = "idle" /\ way = "tx"
  /\ call' = [Idle EXCEPT !.at = "drain", !.nonblock = nonblock]
  /\ UNCHANGED <<irq_enable, rings, host_inactive, isr, core, connected, stream, way>>

Drained ==
  /\ RunsProgram /\ call.at = "drain"
  /\ tx_out = tx_in \/ GivesUp \/ call.nonblock
  /\ call' = Idle
  /\ UNCHANGED <<irq_enable, rings, host_inactive, isr, core, connected, stream, way>>

---------------------------------------------------------------------------
\* altera_avalon_jtag_uart_read

\* The characters from out on, up to the end of the buffer.
FilledFrom(in, out) == IF in >= out THEN in - out ELSE BufLen - out

Read(space, nonblock) ==
  /\ RunsProgram /\ call.at = "idle" /\ way = "rx"
  /\ call' = [Idle EXCEPT !.at = "take", !.left = space, !.nonblock = nonblock]
  /\ UNCHANGED <<irq_enable, rings, host_inactive, isr, core, connected, stream, way>>

\* memcpy of the filled cells, which the handler does not write to; or, with
\* none filled, on to what follows.
CopyOut ==
  /\ RunsProgram /\ call.at = "take"
  /\ LET n == Least(FilledFrom(rx_in, rx_out), call.left) IN
       call' =
         IF n > 0 THEN [call EXCEPT !.at = "release", !.n = n]
         ELSE IF call.got THEN [call EXCEPT !.at = "enable"]
         ELSE IF call.nonblock THEN Idle
         ELSE [call EXCEPT !.at = "listen", !.seen = rx_in]
  /\ UNCHANGED <<irq_enable, rings, host_inactive, isr, core, connected, stream, way>>

Release ==
  /\ RunsProgram /\ call.at = "release"
  /\ rx_out' = (rx_out + call.n) % BufLen
  /\ toRead' = Later(toRead, call.n)
  /\ call' = [call EXCEPT
       !.left = @ - call.n, !.n = 0, !.got = TRUE,
       !.at = IF call.left = call.n THEN "enable" ELSE "take"]
  /\ UNCHANGED <<irq_enable, rx_in, rx_buf, tx_in, tx_out, tx_buf, host_inactive, isr, core,
                 connected, toWrite, written, sent, way>>

\* The spin until a character comes; without one the call fails.
Listen ==
  /\ RunsProgram /\ call.at = "listen"
  /\ call.seen # rx_in \/ GivesUp
  /\ call' = IF call.seen = rx_in THEN Idle ELSE [call EXCEPT !.at = "take", !.seen = 0]
  /\ UNCHANGED <<irq_enable, rings, host_inactive, isr, core, connected, stream, way>>

\* Mutant: the receive interrupt is left as it is.
WithRead_Forgotten == irq_enable

\* "If we read any data then there is space in the buffer so enable interrupts"
WithRead == irq_enable \cup {"RE"}

EnableRead ==
  /\ RunsProgram /\ call.at = "enable"
  /\ irq_enable' = WithRead
  /\ call' = Idle
  /\ UNCHANGED <<rings, host_inactive, isr, core, connected, stream, way>>

---------------------------------------------------------------------------
\* altera_avalon_jtag_uart_irq

\* RI and WI of the control register.
RI == "RE" \in irq_enable /\ rxfifo # <<>>
WI == "WE" \in irq_enable /\ Len(txfifo) <= Threshold

\* The interrupt, and every further reading of the control register.
Check ==
  /\ isr.at = "check" \/ (RunsProgram /\ (RI \/ WI))
  /\ isr' = IF RI \/ WI
            THEN [at |-> IF RI THEN "read" ELSE "write", avail |-> RI, wi |-> WI,
                  space |-> FifoDepth - Len(txfifo)]
            ELSE Away
  /\ UNCHANGED <<irq_enable, rings, host_inactive, call, core, connected, stream, way>>

ReadDone == [isr EXCEPT !.at = IF isr.wi THEN "write" ELSE "check", !.avail = FALSE]

\* Mutant: the character is taken before the buffer is found to be full.
RxFull_Unchecked == FALSE

RxFull == Next1(rx_in) = rx_out

\* "If there is still data available here then the buffer is full so turn off
\* receive interrupts until some space becomes available."
StopReading ==
  /\ isr.at = "read"
  /\ RxFull
  /\ irq_enable' = IF isr.avail THEN irq_enable \ {"RE"} ELSE irq_enable
  /\ isr' = ReadDone
  /\ UNCHANGED <<rings, host_inactive, call, core, connected, stream, way>>

\* RVALID is 0: the FIFO is empty.
NothingToRead ==
  /\ isr.at = "read"
  /\ ~RxFull
  /\ rxfifo = <<>>
  /\ isr' = ReadDone
  /\ UNCHANGED <<irq_enable, rings, host_inactive, call, core, connected, stream, way>>

ReadChar ==
  /\ isr.at = "read"
  /\ ~RxFull
  /\ rxfifo # <<>>
  /\ rx_buf' = [rx_buf EXCEPT ![rx_in] = Head(rxfifo)]
  /\ rx_in' = Next1(rx_in)
  /\ rxfifo' = Tail(rxfifo)
  /\ isr' = [isr EXCEPT !.avail = rxfifo' # <<>>]
  /\ UNCHANGED <<irq_enable, rx_out, tx_in, tx_out, tx_buf, host_inactive, call, txfifo, activity,
                 connected, stream, way>>

WriteChar ==
  /\ isr.at = "write"
  /\ isr.space > 0 /\ tx_out # tx_in
  /\ txfifo' = Append(txfifo, tx_buf[tx_out])
  /\ tx_out' = Next1(tx_out)
  /\ isr' = [isr EXCEPT !.space = @ - 1]
  /\ UNCHANGED <<irq_enable, rx_in, rx_out, rx_buf, tx_in, tx_buf, host_inactive, call, rxfifo,
                 activity, connected, stream, way>>

\* "If we don't have any more data available then turn off the TX interrupt"
StopWriting ==
  /\ isr.at = "write"
  /\ isr.space = 0 \/ tx_out = tx_in
  /\ irq_enable' = IF isr.space > 0 THEN irq_enable \ {"WE"} ELSE irq_enable
  /\ isr' = [isr EXCEPT !.at = "check", !.wi = FALSE, !.space = 0]
  /\ UNCHANGED <<rings, host_inactive, call, core, connected, stream, way>>

\* altera_avalon_jtag_uart_timeout.  Counts beyond the timeout make no difference.
AlarmTimeout ==
  /\ RunsProgram
  /\ host_inactive' = IF activity THEN 0 ELSE Least(host_inactive + 1, Patience)
  /\ activity' = FALSE
  /\ UNCHANGED <<irq_enable, rings, isr, call, txfifo, rxfifo, connected, stream, way>>

---------------------------------------------------------------------------
\* The host

HostPoll ==
  /\ connected
  /\ activity' = TRUE
  /\ txfifo' = IF txfifo = <<>> THEN txfifo ELSE Tail(txfifo)
  /\ written' = IF txfifo = <<>> THEN written ELSE Later(written, 1)
  /\ UNCHANGED <<irq_enable, rings, host_inactive, isr, call, rxfifo, connected, toWrite, toRead,
                 sent, way>>

HostSend ==
  /\ connected /\ Len(rxfifo) < FifoDepth /\ way = "rx"
  /\ activity' = TRUE
  /\ rxfifo' = Append(rxfifo, sent)
  /\ sent' = Later(sent, 1)
  /\ UNCHANGED <<irq_enable, rings, host_inactive, isr, call, txfifo, connected, toWrite, written,
                 toRead, way>>

HostPlug ==
  /\ connected' = ~connected
  /\ UNCHANGED <<irq_enable, rings, host_inactive, isr, call, core, stream, way>>

---------------------------------------------------------------------------

UartCall ==
  \E nonblock \in BOOLEAN :
    \/ Close(nonblock)
    \/ \E count \in Counts : Write(count, nonblock) \/ Read(count, nonblock)

\* The program in a call, and the handler.
UartDriver ==
  \/ CopyIn \/ Publish \/ Kick \/ AwaitSpace \/ Recheck \/ Drained
  \/ CopyOut \/ Release \/ Listen \/ EnableRead

UartIsr == Check \/ StopReading \/ NothingToRead \/ ReadChar \/ WriteChar \/ StopWriting

UartNext ==
  UartCall \/ UartDriver \/ UartIsr \/ AlarmTimeout \/ HostPoll \/ HostSend \/ HostPlug

(***************************************************************************)
(* The handler runs when it is called for, the alarm goes off every second *)
(* and a connected host polls; the program gets on with its call, because  *)
(* the handler, which stops it again and again, ends when the receive      *)
(* buffer is full or the transmit buffer empty.                            *)
(***************************************************************************)
UartFairness ==
  /\ WF_uart(UartIsr) /\ WF_uart(HostPoll)
  /\ SF_uart(UartDriver) /\ SF_uart(AlarmTimeout)

UartSpec == UartInit /\ [][UartNext]_uart /\ UartFairness

---------------------------------------------------------------------------
\* Properties

UartTypeOK ==
  /\ irq_enable \subseteq {"RE", "WE"}
  /\ {rx_in, rx_out, tx_in, tx_out} \subseteq Ring
  /\ rx_buf \in [Ring -> Chars] /\ tx_buf \in [Ring -> Chars]
  /\ host_inactive \in 0 .. Patience
  /\ isr.at \in {"away", "check", "read", "write"} /\ isr.space \in 0 .. FifoDepth
  /\ Len(txfifo) <= FifoDepth /\ Len(rxfifo) <= FifoDepth

\* The characters of a ring from out to in.
Content(buf, in, out) ==
  [i \in 1 .. (in - out + BufLen) % BufLen |-> buf[(out + i - 1) % BufLen]]

Consecutive(chars, from, to) ==
  /\ \A i \in DOMAIN chars : chars[i] = Later(from, i - 1)
  /\ Later(from, Len(chars)) = to

(***************************************************************************)
(* Every character a call of write has counted is on its way to the host,  *)
(* once and in order, whatever the interrupt did between the steps of the  *)
(* call and although the call may have been cut short; and the FIFO of the *)
(* core is never given more than it has room for.                          *)
(***************************************************************************)
UnderWay == txfifo \o Content(tx_buf, tx_in, tx_out)

NothingLostToHost == Consecutive(UnderWay, written, Later(toWrite, call.done))

(***************************************************************************)
(* Every character of the host is read by the program once and in order,   *)
(* also those that come while the buffer is full.                          *)
(***************************************************************************)
NothingLostFromHost == Consecutive(Content(rx_buf, rx_in, rx_out) \o rxfifo, toRead, sent)

(***************************************************************************)
(* The receive interrupt is off only while there are characters to read,   *)
(* whose reader will enable it: the host's characters are never stuck      *)
(* behind a program that waits for them.                                   *)
(***************************************************************************)
ReaderWillEnable ==
  "RE" \notin irq_enable =>
    \/ rx_in # rx_out
    \/ call.at \in {"take", "enable"} /\ call.got

(***************************************************************************)
(* printf comes back: a write or a close ends, also when nobody takes the  *)
(* characters, and when the host goes away in the middle of it.            *)
(***************************************************************************)
WriteReturns ==
  call.at \in {"copy", "publish", "kick", "wait", "recheck", "drain"} ~> call.at = "idle"

(***************************************************************************)
(* What was written is sent: with a host that stays, every character that  *)
(* waits in the buffer or in the FIFO gets there, though the transmit      *)
(* interrupt is switched off whenever the buffer was found empty.          *)
(***************************************************************************)
SentToHost ==
  (<>[]connected) => []<>(UnderWay = <<>>) \/ []<><<written' # written>>_uart
============================================================================
