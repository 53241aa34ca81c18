---------------------------- MODULE UsbTransfer ----------------------------
(***************************************************************************)
(* The transfers of transfer.c and the polls of HID.c, against a device    *)
(* and a bus that may refuse, lose or garble any packet in either          *)
(* direction.  A session starts with control requests and goes on with     *)
(* polls for reports for ever.  Data packets alternate between DATA0 and   *)
(* DATA1: the chip keeps the next one it expects, the program saves it per *)
(* endpoint.                                                               *)
(***************************************************************************)
EXTENDS Integers, Sequences

CONSTANTS
  USB_NAK_LIMIT, USB_RETRY_LIMIT,
  USB_XFER_TIMEOUT, ClockPeriod,   \* in units of time
  Kinds,        \* of devices: the size of a report, the packet size of its endpoint
  Script,       \* the requests of a session: TRUE gets an answer, FALSE sets something
  AnswerParts,  \* packets of an answer
  Reports       \* reports a device makes in a session

ASSUME TransferAssumption ==
  /\ USB_NAK_LIMIT \in Nat \ {0} /\ USB_RETRY_LIMIT \in Nat \ {0}
  /\ USB_XFER_TIMEOUT \in Nat \ {0} /\ ClockPeriod \in Nat \ {0}
  /\ Kinds \subseteq [size : Nat \ {0}, max : Nat \ {0}]
  /\ \A kind \in Kinds : kind.size <= kind.max
  /\ Script \in Seq(BOOLEAN) /\ Script # <<>> /\ Script[Len(Script)]
  /\ AnswerParts \in Nat \ {0} /\ Reports \in Nat

VARIABLES
  \* the device
  kind,
  offered, devToggle,     \* the report it sends next, and as DATA0 or DATA1
  request, part,          \* the last request it has seen, and the part it sends next
  \* the MAX3421E
  chipToggle,             \* the packet it expects next
  hxfrdn, hrsl, fifo,     \* transfer done, its result, the packets received
  dead,                   \* it has stopped answering
  \* the program
  now,                    \* the millisecond clock
  pc,                     \* "idle", "launch" or "wait"
  step, ep, token,        \* the last request of Script begun, and the packet dispatched
  timeout, nak_count, retry_count,
  xfrlen, buffer,         \* what the transfer has received
  rcvToggle,              \* hid_ep[1].rcvToggle
  rcode,                  \* of the last transfer
  \* history: the reports main() has got in this session
  stream

device == <<kind, offered, devToggle, request, part>>
chip == <<chipToggle, hxfrdn, hrsl, fifo, dead>>
attempts == <<timeout, nak_count, retry_count>>
transfer == <<step, ep, token, xfrlen, buffer, rcvToggle, rcode>>
vars == <<device, chip, now, pc, attempts, transfer, stream>>

MaxPktSize0 == 8
NBytes == IF ep = 0 THEN MaxPktSize0 * AnswerParts ELSE 8
MaxPktSize == IF ep = 0 THEN MaxPktSize0 ELSE kind.max
PacketSize == IF ep = 0 THEN MaxPktSize0 ELSE kind.size

\* A report ends the transfer that brings it.
Whole == kind.size < kind.max \/ kind.size >= 8

Init ==
  /\ kind \in Kinds /\ offered = 1 /\ devToggle = 0 /\ request = 0 /\ part = 1
  /\ chipToggle = 0 /\ hxfrdn = FALSE /\ hrsl = "SUCCESS" /\ fifo = <<>> /\ dead = FALSE
  /\ now = 0 /\ pc = "idle"
  /\ step = 0 /\ ep = 0 /\ token = "SETUP"
  /\ timeout = 0 /\ nak_count = 0 /\ retry_count = 0
  /\ xfrlen = 0 /\ buffer = <<>> /\ rcvToggle = 0 /\ rcode = "SUCCESS"
  /\ stream = <<>>

---------------------------------------------------------------------------
\* The bus.  A transfer that has been launched ends with one of these.

Transmitted(result) ==
  /\ pc = "wait" /\ ~hxfrdn /\ ~dead
  /\ hxfrdn' = TRUE /\ hrsl' = result
  /\ UNCHANGED <<dead, now, pc, attempts, transfer, stream>>

\* The device answers NAK, which it may not do to a SETUP, or nothing useful arrives.
Refused ==
  /\ \E result \in {"NAK", "TIMEOUT", "ERROR"} : Transmitted(result)
  /\ token = "SETUP" => hrsl' # "NAK"
  /\ UNCHANGED <<device, chipToggle, fifo>>

\* SETUP starts a new request, whatever became of the last one.  The device's
\* acknowledgement may be lost.
Setup ==
  /\ token = "SETUP"
  /\ \E result \in {"SUCCESS", "TIMEOUT"} : Transmitted(result)
  /\ request' = step /\ part' = 1
  /\ UNCHANGED <<kind, offered, devToggle, chipToggle, fifo>>

\* The status stage: the device has done what it was asked.
Status ==
  /\ token \in {"INHS", "OUTHS"}
  /\ \E result \in {"SUCCESS", "TIMEOUT"} : Transmitted(result)
  /\ UNCHANGED <<device, chipToggle, fifo>>

\* The chip acknowledges every data packet but takes only the one it expects.
Receives(packet, toggle) ==
  IF toggle = chipToggle
  THEN /\ Transmitted("SUCCESS")
       /\ fifo' = Append(fifo, packet) /\ chipToggle' = 1 - chipToggle
  ELSE /\ Transmitted("TOGERR")
       /\ UNCHANGED <<fifo, chipToggle>>

\* An answer goes out as DATA1, DATA0, ...  A lost acknowledgement has it sent again.
Answer ==
  /\ token = "IN" /\ ep = 0 /\ request # 0 /\ part <= AnswerParts
  /\ Receives([of |-> request, part |-> part], part % 2)
  /\ part' \in {part, part + 1}
  /\ UNCHANGED <<kind, offered, devToggle, request>>

Report(acknowledged) ==
  /\ token = "IN" /\ ep = 1 /\ offered <= Reports
  /\ Receives(offered, devToggle)
  /\ IF acknowledged THEN offered' = offered + 1 /\ devToggle' = 1 - devToggle
                     ELSE UNCHANGED <<offered, devToggle>>
  /\ UNCHANGED <<kind, request, part>>

\* The chip stops answering on SPI, and stays so.
Hang ==
  /\ ~dead
  /\ dead' = TRUE
  /\ UNCHANGED <<device, chipToggle, hxfrdn, hrsl, fifo, now, pc, attempts, transfer, stream>>

\* USB_NAK_LIMIT attempts take a fraction of USB_XFER_TIMEOUT: while a transfer goes on
\* the clock matters only if the chip does not answer.  The program then looks at it many
\* times in a unit.
Tick ==
  /\ pc = "idle" \/ dead
  /\ ~(pc = "wait" /\ now >= timeout)
  /\ now' = (now + 1) % ClockPeriod
  /\ UNCHANGED <<device, chip, pc, attempts, transfer, stream>>

Bus == Refused \/ Setup \/ Status \/ Answer \/ \E acknowledged \in BOOLEAN : Report(acknowledged)
---------------------------------------------------------------------------
\* XferDispatchPkt

\* Mutant: the refusals are not counted.
CountNak_Never == nak_count

Dispatch(endpoint, packet) ==
  /\ ep' = endpoint /\ token' = packet
  /\ timeout' = now + USB_XFER_TIMEOUT
  /\ nak_count' = 0 /\ retry_count' = 0
  /\ pc' = "launch"

Launch ==
  /\ pc = "launch"
  /\ pc' = "wait"
  /\ UNCHANGED <<device, chip, now, attempts, transfer, stream>>

\* The result of an attempt is in.  (The clock is looked at first.)
Done(result) ==
  /\ pc = "wait" /\ now < timeout /\ hxfrdn /\ ~dead
  /\ hrsl = result
  /\ hxfrdn' = FALSE

Finish(code) ==
  /\ pc' = "idle"
  /\ rcode' = code

CountNak == nak_count + 1

\* Mutant: a retry counts twice, and the counter may step over its limit.
CountRetry_Twice == retry_count + 2

CountRetry == retry_count + 1

Nak ==
  /\ Done("NAK")
  /\ nak_count' = CountNak
  /\ IF nak_count' = USB_NAK_LIMIT THEN Finish("NAK") ELSE pc' = "launch" /\ UNCHANGED rcode
  /\ UNCHANGED <<device, chipToggle, hrsl, fifo, dead, now, timeout, retry_count, step, ep,
                 token, xfrlen, buffer, rcvToggle, stream>>

NoResponse ==
  /\ Done("TIMEOUT")
  /\ retry_count' = CountRetry
  /\ IF retry_count' = USB_RETRY_LIMIT THEN Finish("TIMEOUT")
                                       ELSE pc' = "launch" /\ UNCHANGED rcode
  /\ UNCHANGED <<device, chipToggle, hrsl, fifo, dead, now, timeout, nak_count, step, ep,
                 token, xfrlen, buffer, rcvToggle, stream>>

\* A toggle error also ends the transfer, and with it the packet that was sent twice.
Failed ==
  /\ \E code \in {"TOGERR", "ERROR"} : Done(code) /\ Finish(code)
  /\ UNCHANGED <<device, chipToggle, hrsl, fifo, dead, now, attempts, step, ep, token, xfrlen,
                 buffer, rcvToggle, stream>>

\* Nothing within USB_XFER_TIMEOUT: 0xff.
DeadlineMissed ==
  /\ pc = "wait" /\ now >= timeout
  /\ Finish("0xff")
  /\ UNCHANGED <<device, chip, now, attempts, step, ep, token, xfrlen, buffer, rcvToggle, stream>>

---------------------------------------------------------------------------
\* XferInTransfer

\* Mutants: the packet that does not end the transfer does, or the toggle is not saved.
Complete_AnyPacket == PacketSize <= MaxPktSize
SavedToggle_Never == rcvToggle

\* A short packet, or all that was asked for.
Complete == PacketSize < MaxPktSize \/ xfrlen + PacketSize >= NBytes

\* bmRCVTOGRD of HRSL, in the record of the endpoint.
SavedToggle == chipToggle

\* Taking a packet: a success always comes with RCVDAVIRQ (that 0xf0 would be returned
\* without one is not modelled).
Received == buffer \o fifo

InTransferGoesOn ==
  /\ Done("SUCCESS") /\ token = "IN" /\ ~Complete
  /\ buffer' = Received /\ fifo' = <<>>
  /\ xfrlen' = xfrlen + PacketSize
  /\ Dispatch(ep, "IN")
  /\ UNCHANGED <<device, chipToggle, hrsl, dead, now, step, rcvToggle, rcode, stream>>

\* kbdPoll, mousePoll: the report is in main()'s buffer.
ReportComplete ==
  /\ Done("SUCCESS") /\ token = "IN" /\ ep = 1 /\ Complete
  /\ buffer' = Received /\ fifo' = <<>>
  /\ xfrlen' = xfrlen + PacketSize
  /\ rcvToggle' = SavedToggle
  /\ Finish("SUCCESS")
  /\ stream' = stream \o Received
  /\ UNCHANGED <<device, chipToggle, hrsl, dead, now, attempts, step, ep, token>>

---------------------------------------------------------------------------
\* XferCtrlReq: SETUP, the data stage if there is one, the status stage.

\* Something that could not be set ends the session in USB_STATE_ERROR; an answer that
\* could not be got is only reported.
Usable == step # 0 /\ ~Script[step] => rcode = "SUCCESS"

Request ==
  /\ pc = "idle" /\ Usable /\ step < Len(Script)
  /\ step' = step + 1
  /\ xfrlen' = 0 /\ buffer' = <<>>
  /\ Dispatch(0, "SETUP")
  /\ UNCHANGED <<device, chip, now, rcvToggle, rcode, stream>>

\* XferCtrlData: an answer starts with DATA1.
DataStage ==
  /\ Done("SUCCESS") /\ token = "SETUP" /\ Script[step]
  /\ chipToggle' = 1
  /\ Dispatch(0, "IN")
  /\ UNCHANGED <<device, hrsl, fifo, dead, now, step, xfrlen, buffer, rcvToggle, rcode, stream>>

AnswerComplete ==
  /\ Done("SUCCESS") /\ token = "IN" /\ ep = 0 /\ Complete
  /\ buffer' = Received /\ fifo' = <<>>
  /\ xfrlen' = xfrlen + PacketSize
  /\ Dispatch(0, "OUTHS")
  /\ UNCHANGED <<device, chipToggle, hrsl, dead, now, step, rcvToggle, rcode, stream>>

\* XferCtrlND
NoDataStage ==
  /\ Done("SUCCESS") /\ token = "SETUP" /\ ~Script[step]
  /\ Dispatch(0, "INHS")
  /\ UNCHANGED <<device, chipToggle, hrsl, fifo, dead, now, step, xfrlen, buffer, rcvToggle,
                 rcode, stream>>

RequestComplete ==
  /\ Done("SUCCESS") /\ token \in {"INHS", "OUTHS"}
  /\ Finish("SUCCESS")
  /\ UNCHANGED <<device, chipToggle, hrsl, fifo, dead, now, attempts, step, ep, token, xfrlen,
                 buffer, rcvToggle, stream>>

---------------------------------------------------------------------------
\* main()

\* Once the requests are through.  The chip expects what the endpoint's record says.
Poll ==
  /\ pc = "idle" /\ step = Len(Script)
  /\ chipToggle' = rcvToggle
  /\ xfrlen' = 0 /\ buffer' = <<>>
  /\ Dispatch(1, "IN")
  /\ UNCHANGED <<device, hxfrdn, hrsl, fifo, dead, now, step, rcvToggle, rcode, stream>>

\* Mutant: the record keeps the toggle of the device before.
HID_init_Missing == rcvToggle

HID_init == 0

\* Another device is plugged in, or the same again: it starts with DATA0, and the
\* enumeration ends with HID_init.
NewSession ==
  /\ pc = "idle" /\ ~dead
  /\ kind' \in Kinds /\ offered' = 1 /\ devToggle' = 0 /\ request' = 0 /\ part' = 1
  /\ step' = 0 /\ rcvToggle' = HID_init
  /\ stream' = <<>>
  /\ UNCHANGED <<chip, now, pc, attempts, ep, token, xfrlen, buffer, rcode>>

Program ==
  \/ Launch \/ Nak \/ NoResponse \/ Failed \/ DeadlineMissed
  \/ InTransferGoesOn \/ ReportComplete
  \/ Request \/ DataStage \/ AnswerComplete \/ NoDataStage \/ RequestComplete
  \/ Poll

Next == Bus \/ Hang \/ Tick \/ Program \/ NewSession

(***************************************************************************)
(* The main loop polls for ever, the chip ends every transfer unless it is *)
(* dead, and the bus does not lose every packet.                           *)
(***************************************************************************)
Fairness ==
  /\ WF_vars(Program) /\ WF_vars(Bus) /\ WF_vars(dead /\ Tick)
  /\ SF_vars(Report(TRUE))

Spec == Init /\ [][Next]_vars /\ Fairness

---------------------------------------------------------------------------
\* Properties

\* nak_count is a byte and retry_count a char: neither gets past its limit.
TypeOK ==
  /\ kind \in Kinds /\ offered \in 1 .. Reports + 1 /\ devToggle \in {0, 1}
  /\ request \in 0 .. Len(Script) /\ part \in 1 .. AnswerParts + 1
  /\ chipToggle \in {0, 1} /\ hxfrdn \in BOOLEAN /\ dead \in BOOLEAN
  /\ hrsl \in {"SUCCESS", "NAK", "TIMEOUT", "TOGERR", "ERROR"}
  /\ Len(fifo) <= 1
  /\ now \in 0 .. ClockPeriod - 1 /\ pc \in {"idle", "launch", "wait"}
  /\ step \in 0 .. Len(Script) /\ ep \in {0, 1} /\ token \in {"SETUP", "IN", "INHS", "OUTHS"}
  /\ timeout \in 0 .. ClockPeriod - 1 + USB_XFER_TIMEOUT
  /\ nak_count \in 0 .. USB_NAK_LIMIT /\ retry_count \in 0 .. USB_RETRY_LIMIT
  /\ rcvToggle \in {0, 1}
  /\ rcode \in {"SUCCESS", "NAK", "TIMEOUT", "TOGERR", "ERROR", "0xff"}
  /\ Len(stream) <= Reports

(***************************************************************************)
(* A request that succeeds has the whole answer, of this request and in    *)
(* order, although its SETUP may have reached the device several times and *)
(* earlier requests may have been given up halfway.                        *)
(***************************************************************************)
AnswerWhole ==
  pc = "idle" /\ ep = 0 /\ step # 0 /\ Script[step] /\ rcode = "SUCCESS" =>
    buffer = [i \in 1 .. AnswerParts |-> [of |-> step, part |-> i]]

(***************************************************************************)
(* The polls are a ReportStream: lost packets, lost acknowledgements, the  *)
(* retries for them and the transfers to other endpoints in between lose   *)
(* or double no report.  The exception are devices whose full packets are  *)
(* shorter than what is asked for: then the transfer goes on, a NAK throws *)
(* away what it has, and as the toggle is only saved at the end of a       *)
(* transfer (transfer.c:218) the report after that is taken for a          *)
(* repetition.                                                             *)
(***************************************************************************)
Polls == INSTANCE ReportStream WITH whole <- Whole

StreamSpec == Polls!Spec

\* The chip is dead and the clock starts again at 0 before it gets to the deadline.
NeverTimesOut == dead /\ pc = "wait" /\ timeout >= ClockPeriod

\* Every transfer returns, however the bus and the device behave, also if the chip
\* hangs, unless that happens shortly before the millisecond clock starts again.
TransferReturns == pc # "idle" ~> pc = "idle" \/ NeverTimesOut

\* In a session that lasts every report gets through, as often as it may have to be sent.
ReportsGetThrough == <>[](step = Len(Script) /\ Whole /\ ~dead) => <>[](Len(stream) = Reports)
============================================================================
