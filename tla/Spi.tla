-------------------------------- MODULE Spi --------------------------------
(***************************************************************************)
(* The SPI master with which the registers of the MAX3421E are read and    *)
(* written: alt_avalon_spi_command, and the core it drives, which clocks   *)
(* bytes out and in by itself while the program polls its status.  Every   *)
(* byte out brings one in, so the bytes that come in while the command is  *)
(* sent are thrown away and zeros are sent to fetch the answer.  The other *)
(* modules take such an exchange for one step.                             *)
(***************************************************************************)
EXTENDS Integers, Sequences

CONSTANT Requests       \* pairs of write_length and read_length

ASSUME SpiAssumption == \A q \in Requests : q[1] \in Nat \ {0} /\ q[2] \in Nat

VARIABLES
  spi,                  \* where alt_avalon_spi_command is, and its local variables
  read_data,
  txdata, shift, rxdata,    \* the registers of the core, each empty or with a byte
  exchanged             \* what the chip has been sent since it was selected

spiCore == <<txdata, shift, rxdata, exchanged>>
master == <<spi, read_data, spiCore>>

Empty == -1
Stale == -2

(***************************************************************************)
(* The bytes of a command are numbered from 1 and followed by zeros; the   *)
(* chip answers the n-th byte it gets with the byte n.                     *)
(***************************************************************************)
WriteLength == spi.request[1]
ReadLength == spi.request[2]

Trdy == txdata = Empty
Rrdy == rxdata # Empty
Tmt == txdata = Empty /\ shift = Empty

Resting == [at |-> "idle", request |-> <<0, 0>>, sent |-> 0, ignored |-> 0, credits |-> 0,
            trdy |-> FALSE, rrdy |-> FALSE]

\* The core may hold a byte of a program that was stopped before this one.
SpiInit ==
  /\ spi = Resting /\ read_data = <<>>
  /\ txdata = Empty /\ shift = Empty /\ rxdata \in {Empty, Stale}
  /\ exchanged = <<>>

\* Mutant: the receive register is not read before the exchange.
Discarded_Never == rxdata

\* "Discard any stale data present in the RXDATA register"
Discarded == Empty

Command(request) ==
  /\ spi.at = "idle"
  /\ spi' = [Resting EXCEPT !.at = "poll", !.request = request, !.credits = 1]
  /\ rxdata' = Discarded
  /\ read_data' = <<>> /\ exchanged' = <<>>
  /\ UNCHANGED <<txdata, shift>>

\* The status is read until there is something to do, and acted upon later.
PollStatus ==
  /\ spi.at = "poll"
  /\ (Trdy /\ spi.credits # 0) \/ Rrdy
  /\ spi' = [spi EXCEPT !.at = "send", !.trdy = Trdy, !.rrdy = Rrdy]
  /\ UNCHANGED <<read_data, spiCore>>

MaySend == spi.trdy /\ spi.credits > 0

\* The next byte of the command, then the zeros; after the last of them no
\* credit is ever to be had again.
SendByte ==
  /\ spi.at = "send" /\ MaySend
  /\ txdata' = IF spi.sent < WriteLength THEN spi.sent + 1
               ELSE IF spi.sent < WriteLength + ReadLength THEN 0
               ELSE txdata
  /\ spi' = [spi EXCEPT
       !.at = "receive", !.sent = @ + 1,
       !.credits = IF spi.sent < WriteLength + ReadLength THEN @ - 1 ELSE -1024]
  /\ UNCHANGED <<read_data, shift, rxdata, exchanged>>

SendNothing ==
  /\ spi.at = "send" /\ ~MaySend
  /\ spi' = [spi EXCEPT !.at = "receive"]
  /\ UNCHANGED <<read_data, spiCore>>

\* Mutant: the credit is not given back for a byte that is thrown away.
Credited_ByAnswer == IF spi.ignored < WriteLength THEN spi.credits ELSE spi.credits + 1

Credited == spi.credits + 1

ReceiveByte ==
  /\ spi.at = "receive" /\ spi.rrdy
  /\ rxdata' = Empty
  /\ read_data' = IF spi.ignored < WriteLength THEN read_data ELSE Append(read_data, rxdata)
  /\ LET ignored == IF spi.ignored < WriteLength THEN spi.ignored + 1 ELSE WriteLength
     IN  spi' = [spi EXCEPT
           !.at = IF ignored = WriteLength /\ Len(read_data') = ReadLength THEN "finish" ELSE "poll",
           !.ignored = ignored, !.credits = Credited]
  /\ UNCHANGED <<txdata, shift, exchanged>>

ReceiveNothing ==
  /\ spi.at = "receive" /\ ~spi.rrdy
  /\ spi' = [spi EXCEPT !.at = "poll"]
  /\ UNCHANGED <<read_data, spiCore>>

\* "Wait until the interface has finished transmitting", and release the chip.
Finish ==
  /\ spi.at = "finish" /\ Tmt
  /\ spi' = [spi EXCEPT !.at = "idle"]
  /\ UNCHANGED <<read_data, spiCore>>

\* The core: a byte moves to the shift register, and is exchanged for one of the chip.
Load ==
  /\ txdata # Empty /\ shift = Empty
  /\ shift' = txdata /\ txdata' = Empty
  /\ UNCHANGED <<spi, read_data, rxdata, exchanged>>

Shift ==
  /\ shift # Empty
  /\ exchanged' = Append(exchanged, shift)
  /\ rxdata' = Len(exchanged')
  /\ shift' = Empty
  /\ UNCHANGED <<spi, read_data, txdata>>

SpiStep ==
  PollStatus \/ SendByte \/ SendNothing \/ ReceiveByte \/ ReceiveNothing \/ Finish

SpiNext == (\E request \in Requests : Command(request)) \/ SpiStep \/ Load \/ Shift

\* The program is alone, and the core has its own clock.
SpiSpec == SpiInit /\ [][SpiNext]_master /\ WF_master(SpiStep) /\ WF_master(Load \/ Shift)

---------------------------------------------------------------------------
\* Properties

(***************************************************************************)
(* A command that has returned has sent the chip its bytes and as many     *)
(* zeros as it reads, no byte more, though the core is always ready for    *)
(* one; and what it has read up to now is the answer from its first byte   *)
(* on, none of it lost and no byte of an earlier exchange before it.       *)
(***************************************************************************)
ExchangeExact ==
  /\ \A i \in DOMAIN read_data : read_data[i] = WriteLength + i
  /\ spi.at = "idle" =>
       /\ Len(read_data) = ReadLength
       /\ exchanged = [i \in 1 .. WriteLength + ReadLength |-> IF i <= WriteLength THEN i ELSE 0]

\* Every register access of the USB stack comes to an end.
CommandReturns == spi.at # "idle" ~> spi.at = "idle"
============================================================================
