-------------------------- MODULE UsbTransferProofs --------------------------
(***************************************************************************)
(* No report is lost or doubled and no answer is mixed up, for any limits, *)
(* reports, requests and packet sizes, whatever the bus loses.             *)
(*                                                                         *)
(* The argument is the parity of what was taken last: the toggle the chip  *)
(* expects and the one the program has saved are that of the report taken  *)
(* last, the device's is that of the one it offers, and it never offers an *)
(* earlier one; so if the toggles agree, the report is a new one.          *)
(***************************************************************************)
EXTENDS UsbTransfer, TLAPS

\* A transfer is under way.
Underway == pc # "idle"

DeviceTypes ==
  /\ kind \in Kinds /\ offered \in 1 .. Reports + 1 /\ devToggle \in {0, 1}
  /\ request \in 0 .. Len(Script) /\ part \in 1 .. AnswerParts + 1

ChipTypes ==
  /\ chipToggle \in {0, 1} /\ hxfrdn \in BOOLEAN /\ dead \in BOOLEAN
  /\ hrsl \in {"SUCCESS", "NAK", "TIMEOUT", "TOGERR", "ERROR"}
  /\ Len(fifo) <= 1

ProgramTypes ==
  /\ now \in 0 .. ClockPeriod - 1 /\ pc \in {"idle", "launch", "wait"}
  /\ step \in 0 .. Len(Script) /\ ep \in {0, 1} /\ token \in {"SETUP", "IN", "INHS", "OUTHS"}
  /\ timeout \in 0 .. ClockPeriod - 1 + USB_XFER_TIMEOUT
  /\ nak_count \in 0 .. USB_NAK_LIMIT /\ retry_count \in 0 .. USB_RETRY_LIMIT
  /\ rcvToggle \in {0, 1}
  /\ rcode \in {"SUCCESS", "NAK", "TIMEOUT", "TOGERR", "ERROR", "0xff"}
  /\ xfrlen \in Nat

Types == DeviceTypes /\ ChipTypes /\ ProgramTypes

\* A counter at its limit has ended the transfer; which transfers there are.
Attempts ==
  Underway =>
    /\ nak_count < USB_NAK_LIMIT /\ retry_count < USB_RETRY_LIMIT
    /\ IF ep = 0 THEN step \in 1 .. Len(Script) ELSE step = Len(Script) /\ token = "IN"

\* A chip that answers has a packet just when it says so, and never misses the deadline.
ChipWorks ==
  ~dead =>
    /\ Underway => now < timeout
    /\ hxfrdn => pc = "wait"
    /\ fifo # <<>> <=> hxfrdn /\ hrsl = "SUCCESS" /\ token = "IN"

\* The first n parts of the answer to the request under way.
Parts(n) == [i \in 1 .. n |-> [of |-> step, part |-> i]]

(***************************************************************************)
(* The stages of a request.  A device that has acknowledged the SETUP of   *)
(* this request stays with it, and offers the part that was taken last or  *)
(* the one after it, of which the chip's toggle tells the new one.         *)
(***************************************************************************)
AnswerSoFar ==
  /\ Script[step] /\ request = step
  /\ buffer = Parts(Len(buffer)) /\ Len(buffer) \in 0 .. AnswerParts - 1
  /\ xfrlen = MaxPktSize0 * Len(buffer)
  /\ IF fifo = <<>>
     THEN part \in {Len(buffer), Len(buffer) + 1} /\ chipToggle = (Len(buffer) + 1) % 2
     ELSE /\ fifo = <<[of |-> step, part |-> Len(buffer) + 1]>>
          /\ part \in {Len(buffer) + 1, Len(buffer) + 2} /\ chipToggle = Len(buffer) % 2

Control ==
  ~dead /\ Underway /\ ep = 0 =>
    /\ token = "SETUP" => buffer = <<>> /\ xfrlen = 0
    /\ token = "SETUP" /\ hxfrdn /\ hrsl = "SUCCESS" => request = step /\ part = 1
    /\ token = "IN" => AnswerSoFar
    /\ token = "OUTHS" => buffer = Parts(AnswerParts)
    /\ token = "INHS" => ~Script[step]

\* The report taken last; reports that came in order, each at most once.
Last(s) == IF s = <<>> THEN 0 ELSE s[Len(s)]

Ascending(s) ==
  s \in Seq(Int) /\ Polls!Increasing(s) /\ \A i \in 1 .. Len(s) : s[i] >= i /\ s[i] <= Reports

\* Between the polls.
Gapless == Whole => Last(stream) = Len(stream)

StreamInv ==
  /\ Ascending(stream)
  /\ ~dead =>
       /\ Last(stream) <= offered /\ Gapless
       /\ rcvToggle = Last(stream) % 2 /\ devToggle = (offered - 1) % 2
       /\ Whole /\ (fifo = <<>> \/ ep = 0) => offered <= Len(stream) + 1

\* During a poll: what was taken before it and in its earlier packets, and the packet
\* the chip has.
Got == stream \o buffer

PollInv ==
  ~dead /\ Underway /\ ep = 1 =>
    /\ buffer \in Seq(Int) /\ Ascending(Got) /\ Last(Got) <= offered
    /\ Whole => buffer = <<>>
    /\ IF fifo = <<>>
       THEN chipToggle = Last(Got) % 2
       ELSE /\ fifo = <<fifo[1]>> /\ fifo[1] \in Last(Got) + 1 .. Reports
            /\ fifo[1] <= offered /\ chipToggle = fifo[1] % 2
            /\ Whole => fifo[1] = Len(stream) + 1 /\ offered <= Len(stream) + 2

IInv == Types /\ Attempts /\ ChipWorks /\ Control /\ StreamInv /\ PollInv /\ AnswerWhole

---------------------------------------------------------------------------
\* Parity, and sequences of reports

LEMMA Parity ==
  ASSUME NEW n \in Nat
  PROVE  n % 2 \in {0, 1} /\ (n + 1) % 2 = 1 - (n % 2) /\ (n + 2) % 2 = n % 2
  OBVIOUS

LEMMA LastFacts ==
  ASSUME NEW s, Ascending(s)
  PROVE  Last(s) \in Nat /\ Last(s) >= Len(s) /\ Len(s) <= Reports /\ Last(s) <= Reports
<1>1. CASE s = <<>>
  BY <1>1, TransferAssumption DEF Last
<1>2. CASE s # <<>>
  <2>1. Len(s) \in 1 .. Len(s)
    BY <1>2 DEF Ascending
  <2>2. s[Len(s)] \in Int /\ s[Len(s)] >= Len(s) /\ s[Len(s)] <= Reports
    BY <2>1 DEF Ascending
  <2> QED
    BY <1>2, <2>1, <2>2, TransferAssumption DEF Last
<1> QED
  BY <1>1, <1>2

\* One more report, later than the last.
LEMMA OneMore ==
  ASSUME NEW s, Ascending(s), NEW r \in Last(s) + 1 .. Reports
  PROVE  Ascending(Append(s, r)) /\ Last(Append(s, r)) = r /\ Len(Append(s, r)) = Len(s) + 1
<1> DEFINE t == Append(s, r)
<1>0. s \in Seq(Int) /\ Last(s) \in Nat /\ Last(s) >= Len(s) /\ r \in Int /\ r > Last(s) /\ r <= Reports
  BY LastFacts, TransferAssumption DEF Ascending
<1>1. /\ t \in Seq(Int) /\ Len(t) = Len(s) + 1 /\ t[Len(t)] = r
      /\ \A i \in 1 .. Len(s) : t[i] = s[i]
  BY <1>0
<1>2. \A i \in 1 .. Len(s) : s[i] \in Int /\ s[i] <= Last(s)
  <2> SUFFICES ASSUME NEW i \in 1 .. Len(s) PROVE s[i] \in Int /\ s[i] <= Last(s)
    OBVIOUS
  <2>1. s # <<>> /\ Len(s) \in 1 .. Len(s) /\ s[i] \in Int /\ s[Len(s)] \in Int
    BY <1>0
  <2>2. i < Len(s) => s[i] < s[Len(s)]
    BY <2>1 DEF Ascending, Polls!Increasing
  <2> QED
    BY <2>1, <2>2 DEF Last
<1>3. Polls!Increasing(t)
  <2> SUFFICES ASSUME NEW i \in 1 .. Len(t), NEW j \in 1 .. Len(t), i < j PROVE t[i] < t[j]
    BY DEF Polls!Increasing
  <2>1. CASE j = Len(t)
    BY <1>0, <1>1, <1>2, <2>1
  <2>2. CASE j # Len(t)
    <3>1. i \in 1 .. Len(s) /\ j \in 1 .. Len(s)
      BY <1>0, <1>1, <2>2
    <3> QED
      BY <1>1, <3>1 DEF Ascending, Polls!Increasing
  <2> QED
    BY <2>1, <2>2
<1>4. \A i \in 1 .. Len(t) : t[i] >= i /\ t[i] <= Reports
  <2> SUFFICES ASSUME NEW i \in 1 .. Len(t) PROVE t[i] >= i /\ t[i] <= Reports
    OBVIOUS
  <2>1. CASE i = Len(t)
    BY <1>0, <1>1, <2>1
  <2>2. CASE i # Len(t)
    BY <1>0, <1>1, <2>2 DEF Ascending
  <2> QED
    BY <2>1, <2>2
<1>5. t # <<>>
  BY <1>0, <1>1
<1> QED
  BY <1>1, <1>3, <1>4, <1>5 DEF Ascending, Last

\* The packets of a transfer follow what was taken before, one by one.
LEMMA GotOneMore ==
  ASSUME NEW s \in Seq(Int), NEW b \in Seq(Int), NEW r \in Int
  PROVE  s \o (b \o <<r>>) = Append(s \o b, r) /\ b \o <<r>> \in Seq(Int) /\ b \o <<r>> = Append(b, r)
<1>1. b \o <<r>> = Append(b, r)
  OBVIOUS
<1>2. s \o Append(b, r) = Append(s \o b, r)
  OBVIOUS
<1> QED
  BY <1>1, <1>2

---------------------------------------------------------------------------
\* Types and attempts

\* What the program dispatches.
LEMMA DispatchTypes ==
  ASSUME ProgramTypes, NEW endpoint \in {0, 1}, NEW packet \in {"SETUP", "IN", "INHS", "OUTHS"},
         Dispatch(endpoint, packet), UNCHANGED <<now, rcvToggle, rcode>>,
         step' \in 0 .. Len(Script), xfrlen' \in Nat
  PROVE  ProgramTypes' /\ pc' = "launch" /\ now' < timeout'
  BY TransferAssumption DEF ProgramTypes, Dispatch

\* What a transfer ends with.
LEMMA FinishTypes ==
  ASSUME ProgramTypes, UNCHANGED <<now, step, ep, token, timeout>>,
         nak_count' \in 0 .. USB_NAK_LIMIT, retry_count' \in 0 .. USB_RETRY_LIMIT,
         rcvToggle' \in {0, 1}, xfrlen' \in Nat, pc' \in {"idle", "launch"},
         rcode' \in {rcode, "SUCCESS", "NAK", "TIMEOUT", "TOGERR", "ERROR", "0xff"}
  PROVE  ProgramTypes'
  BY DEF ProgramTypes

\* The sizes of packets are numbers.
LEMMA PacketSizes ==
  ASSUME Types
  PROVE  PacketSize \in Nat \ {0} /\ MaxPktSize \in Nat \ {0} /\ PacketSize <= MaxPktSize
         /\ kind.size \in Nat \ {0} /\ kind.max \in Nat \ {0} /\ xfrlen + PacketSize \in Nat
<1>1. kind.size \in Nat \ {0} /\ kind.max \in Nat \ {0} /\ kind.size <= kind.max
  BY TransferAssumption DEF Types, DeviceTypes
<1> QED
  BY <1>1 DEF PacketSize, MaxPktSize, MaxPktSize0, Types, ProgramTypes

LEMMA DeviceTypesStep == IInv /\ [Next]_vars => DeviceTypes'
<1> SUFFICES ASSUME IInv, [Next]_vars PROVE DeviceTypes'
  OBVIOUS
<1>0. DeviceTypes
  BY DEF IInv, Types
<1>1. CASE Setup
  BY <1>0, <1>1, TransferAssumption DEF Setup, IInv, Types, DeviceTypes, ProgramTypes
<1>2. CASE Answer
  BY <1>0, <1>2, TransferAssumption DEF Answer, DeviceTypes
<1>3. ASSUME NEW acknowledged \in BOOLEAN, Report(acknowledged) PROVE DeviceTypes'
  BY <1>0, <1>3, TransferAssumption DEF Report, DeviceTypes
<1>4. CASE NewSession
  BY <1>0, <1>4, TransferAssumption DEF NewSession, DeviceTypes
<1>5. CASE UNCHANGED device
  BY <1>0, <1>5 DEF device, DeviceTypes
<1>6. CASE Refused \/ Status \/ Hang \/ Tick
  BY <1>5, <1>6 DEF Refused, Status, Hang, Tick
<1>7. CASE Launch \/ Nak \/ NoResponse \/ Failed \/ DeadlineMissed \/ Request \/ Poll
  BY <1>5, <1>7 DEF Launch, Nak, NoResponse, Failed, DeadlineMissed, Request, Poll
<1>8. CASE InTransferGoesOn \/ ReportComplete \/ DataStage \/ AnswerComplete \/ NoDataStage \/ RequestComplete
  BY <1>5, <1>8 DEF InTransferGoesOn, ReportComplete, DataStage, AnswerComplete, NoDataStage,
     RequestComplete
<1> QED
  BY <1>1, <1>2, <1>3, <1>4, <1>5, <1>6, <1>7, <1>8 DEF Next, Bus, Program, vars

\* The chip has no packet when it is about to receive one.
LEMMA NothingReceived ==
  ASSUME IInv, NEW result, Transmitted(result)
  PROVE  fifo = <<>> /\ ~dead /\ pc = "wait" /\ ~hxfrdn
  BY DEF IInv, ChipWorks, Transmitted

LEMMA ChipTypesStep == IInv /\ [Next]_vars => ChipTypes'
<1> SUFFICES ASSUME IInv, [Next]_vars PROVE ChipTypes'
  OBVIOUS
<1>0. ChipTypes
  BY DEF IInv, Types
<1>1. CASE Refused \/ Setup \/ Status
  BY <1>0, <1>1 DEF Refused, Setup, Status, Transmitted, ChipTypes
<1>2. ASSUME NEW packet, NEW toggle, Receives(packet, toggle) PROVE ChipTypes'
  <2>1. CASE toggle = chipToggle
    <3>1. fifo' = Append(<<>>, packet)
      BY <1>2, <2>1, NothingReceived DEF Receives
    <3>2. Len(fifo') = 1
      BY <3>1
    <3> QED
      BY <1>0, <1>2, <2>1, <3>2 DEF Receives, Transmitted, ChipTypes
  <2>2. CASE toggle # chipToggle
    BY <1>0, <1>2, <2>2 DEF Receives, Transmitted, ChipTypes
  <2> QED
    BY <2>1, <2>2
<1>3. CASE Answer \/ \E acknowledged \in BOOLEAN : Report(acknowledged)
  BY <1>2, <1>3 DEF Answer, Report
<1>4. CASE Hang
  BY <1>0, <1>4 DEF Hang, ChipTypes
<1>5. CASE Nak \/ NoResponse \/ Failed
  BY <1>0, <1>5 DEF Nak, NoResponse, Failed, Done, ChipTypes
<1>6. CASE InTransferGoesOn \/ ReportComplete \/ AnswerComplete
  <2>1. fifo' = <<>> /\ hxfrdn' = FALSE /\ UNCHANGED <<chipToggle, hrsl, dead>>
    BY <1>6 DEF InTransferGoesOn, ReportComplete, AnswerComplete, Done
  <2>2. Len(fifo') <= 1
    BY <2>1
  <2> QED
    BY <1>0, <2>1, <2>2 DEF ChipTypes
<1>7. CASE DataStage \/ NoDataStage \/ RequestComplete
  <2>1. /\ chipToggle' = chipToggle \/ chipToggle' = 1
        /\ hxfrdn' = FALSE
        /\ UNCHANGED <<hrsl, fifo, dead>>
    BY <1>7 DEF DataStage, NoDataStage, RequestComplete, Done
  <2>2. chipToggle' \in {0, 1}
    BY <1>0, <2>1 DEF ChipTypes
  <2> QED
    BY <1>0, <2>1, <2>2 DEF ChipTypes
<1>8. CASE Poll
  BY <1>0, <1>8 DEF Poll, ChipTypes, IInv, Types, ProgramTypes
<1>9. CASE UNCHANGED chip
  BY <1>0, <1>9 DEF chip, ChipTypes
<1>10. CASE Tick \/ Launch \/ DeadlineMissed \/ Request \/ NewSession
  BY <1>9, <1>10 DEF Tick, Launch, DeadlineMissed, Request, NewSession
<1> QED
  BY <1>1, <1>3, <1>4, <1>5, <1>6, <1>7, <1>8, <1>9, <1>10 DEF Next, Bus, Program, vars

\* The bus leaves the program alone.
LEMMA BusLeavesProgram ==
  ASSUME Bus
  PROVE  UNCHANGED <<dead, now, pc, attempts, transfer, stream>>
  BY DEF Bus, Refused, Setup, Status, Answer, Report, Receives, Transmitted

\* There is room for one more attempt.
LEMMA CountersBelow ==
  ASSUME IInv, pc = "wait"
  PROVE  /\ nak_count + 1 \in 0 .. USB_NAK_LIMIT /\ retry_count + 1 \in 0 .. USB_RETRY_LIMIT
         /\ nak_count \in Nat /\ retry_count \in Nat
<1>1. nak_count < USB_NAK_LIMIT /\ retry_count < USB_RETRY_LIMIT
  BY DEF IInv, Attempts, Underway
<1>2. nak_count \in 0 .. USB_NAK_LIMIT /\ retry_count \in 0 .. USB_RETRY_LIMIT
  BY DEF IInv, Types, ProgramTypes
<1> QED
  BY <1>1, <1>2, TransferAssumption

LEMMA ProgramTypesStep == IInv /\ [Next]_vars => ProgramTypes'
<1> SUFFICES ASSUME IInv, [Next]_vars PROVE ProgramTypes'
  OBVIOUS
<1>0. ProgramTypes /\ Types /\ chipToggle \in {0, 1}
  BY DEF IInv, Types, ChipTypes
<1>1. xfrlen + PacketSize \in Nat
  BY <1>0, PacketSizes
<1>2. CASE UNCHANGED <<now, pc, attempts, transfer>>
  BY <1>0, <1>2 DEF ProgramTypes, attempts, transfer
<1>3. CASE Bus \/ Hang
  BY <1>2, <1>3, BusLeavesProgram DEF Hang
<1>4. CASE Tick
  BY <1>0, <1>4, TransferAssumption DEF Tick, ProgramTypes, attempts, transfer
<1>5. CASE Launch
  BY <1>0, <1>5 DEF Launch, ProgramTypes, attempts, transfer
<1>6. CASE Nak
  <2>1. nak_count + 1 \in 0 .. USB_NAK_LIMIT
    BY <1>6, CountersBelow DEF Nak, Done
  <2>2. pc' \in {"idle", "launch"} /\ rcode' \in {rcode, "NAK"}
    BY <1>6 DEF Nak, Finish
  <2> QED
    BY <1>0, <1>6, <2>1, <2>2, FinishTypes DEF Nak, CountNak, ProgramTypes
<1>7. CASE NoResponse
  <2>1. retry_count + 1 \in 0 .. USB_RETRY_LIMIT
    BY <1>7, CountersBelow DEF NoResponse, Done
  <2>2. pc' \in {"idle", "launch"} /\ rcode' \in {rcode, "TIMEOUT"}
    BY <1>7 DEF NoResponse, Finish
  <2> QED
    BY <1>0, <1>7, <2>1, <2>2, FinishTypes DEF NoResponse, CountRetry, ProgramTypes
<1>8. CASE Failed \/ DeadlineMissed \/ RequestComplete
  <2>1. /\ UNCHANGED <<now, attempts, step, ep, token, xfrlen, rcvToggle>>
        /\ pc' = "idle" /\ rcode' \in {"SUCCESS", "TOGERR", "ERROR", "0xff"}
    BY <1>8 DEF Failed, DeadlineMissed, RequestComplete, Finish
  <2> QED
    BY <1>0, <2>1, FinishTypes DEF ProgramTypes, attempts
<1>9. CASE ReportComplete
  BY <1>0, <1>1, <1>9, FinishTypes DEF ReportComplete, Finish, SavedToggle, ProgramTypes, attempts
<1>10. CASE InTransferGoesOn
  BY <1>0, <1>1, <1>10, DispatchTypes DEF InTransferGoesOn, ProgramTypes
<1>11. CASE DataStage
  BY <1>0, <1>11, DispatchTypes DEF DataStage, ProgramTypes
<1>12. CASE AnswerComplete
  BY <1>0, <1>1, <1>12, DispatchTypes DEF AnswerComplete, ProgramTypes
<1>13. CASE NoDataStage
  BY <1>0, <1>13, DispatchTypes DEF NoDataStage, ProgramTypes
<1>14. CASE Request
  BY <1>0, <1>14, DispatchTypes, TransferAssumption DEF Request, ProgramTypes
<1>15. CASE Poll
  BY <1>0, <1>15, DispatchTypes DEF Poll, ProgramTypes
<1>16. CASE NewSession
  BY <1>0, <1>16, TransferAssumption DEF NewSession, HID_init, ProgramTypes, attempts
<1> QED
  BY <1>2, <1>3, <1>4, <1>5, <1>6, <1>7, <1>8, <1>9, <1>10, <1>11, <1>12, <1>13, <1>14, <1>15, <1>16
     DEF Next, Program, vars

LEMMA AttemptsStep == IInv /\ [Next]_vars => Attempts'
<1> SUFFICES ASSUME IInv, [Next]_vars PROVE Attempts'
  OBVIOUS
<1>0. Attempts /\ ProgramTypes
  BY DEF IInv, Types
<1>1. CASE UNCHANGED <<pc, attempts, step, ep, token>>
  BY <1>0, <1>1 DEF Attempts, Underway, attempts
<1>2. CASE Bus \/ Hang \/ Tick
  BY <1>1, <1>2, BusLeavesProgram DEF Hang, Tick, transfer
<1>3. CASE Launch
  BY <1>0, <1>3 DEF Launch, Attempts, Underway, attempts, transfer
<1>4. CASE pc' = "idle"
  BY <1>4 DEF Attempts, Underway
<1>5. CASE Failed \/ DeadlineMissed \/ RequestComplete \/ ReportComplete
  BY <1>4, <1>5 DEF Failed, DeadlineMissed, RequestComplete, ReportComplete, Finish
<1>6. CASE NewSession
  BY <1>4, <1>6 DEF NewSession
<1>7. CASE Nak
  <2>1. /\ pc = "wait" /\ pc' \in {"idle", "launch"} /\ nak_count' = nak_count + 1
        /\ nak_count' = USB_NAK_LIMIT => pc' = "idle"
        /\ UNCHANGED <<retry_count, step, ep, token>>
    BY <1>7 DEF Nak, Done, Finish, CountNak
  <2>2. nak_count' = USB_NAK_LIMIT \/ nak_count' < USB_NAK_LIMIT
    BY <2>1, CountersBelow, TransferAssumption
  <2> QED
    BY <1>0, <2>1, <2>2 DEF Attempts, Underway
<1>8. CASE NoResponse
  <2>1. /\ pc = "wait" /\ pc' \in {"idle", "launch"} /\ retry_count' = retry_count + 1
        /\ retry_count' = USB_RETRY_LIMIT => pc' = "idle"
        /\ UNCHANGED <<nak_count, step, ep, token>>
    BY <1>8 DEF NoResponse, Done, Finish, CountRetry
  <2>2. retry_count' = USB_RETRY_LIMIT \/ retry_count' < USB_RETRY_LIMIT
    BY <2>1, CountersBelow, TransferAssumption
  <2> QED
    BY <1>0, <2>1, <2>2 DEF Attempts, Underway
<1>9. CASE InTransferGoesOn
  BY <1>0, <1>9, TransferAssumption DEF InTransferGoesOn, Done, Dispatch, Attempts, Underway
<1>10. CASE DataStage \/ AnswerComplete \/ NoDataStage
  <2>1. step' = step /\ ep' = 0 /\ nak_count' = 0 /\ retry_count' = 0 /\ Underway
    BY <1>10 DEF DataStage, AnswerComplete, NoDataStage, Done, Dispatch, Underway
  <2>2. ep = 0
    BY <1>0, <1>10, <2>1 DEF DataStage, AnswerComplete, NoDataStage, Attempts, ProgramTypes
  <2> QED
    BY <1>0, <2>1, <2>2, TransferAssumption DEF Attempts
<1>11. CASE Request
  BY <1>0, <1>11, TransferAssumption DEF Request, Dispatch, Attempts, Underway, ProgramTypes
<1>12. CASE Poll
  BY <1>12, TransferAssumption DEF Poll, Dispatch, Attempts, Underway
<1> QED
  BY <1>1, <1>2, <1>3, <1>5, <1>6, <1>7, <1>8, <1>9, <1>10, <1>11, <1>12 DEF Next, Program, vars, transfer

---------------------------------------------------------------------------
\* The chip

\* When a result is in, the chip has a packet just if the result says so.
LEMMA ResultIsIn ==
  ASSUME IInv, NEW result, Done(result)
  PROVE  /\ ~dead /\ pc = "wait" /\ now < timeout /\ Underway /\ hxfrdn /\ hxfrdn' = FALSE
         /\ hrsl = result
         /\ fifo # <<>> <=> result = "SUCCESS" /\ token = "IN"
  BY DEF IInv, ChipWorks, Done, Underway

\* Between two transfers it has none.
LEMMA NothingPending ==
  ASSUME IInv, pc = "idle", ~dead
  PROVE  ~hxfrdn /\ fifo = <<>>
  BY DEF IInv, ChipWorks

\* A control transfer that was dispatched had no packet, or its own.
LEMMA ControlHasEndpoint0 ==
  ASSUME IInv, Underway, token # "IN"
  PROVE  ep = 0
  BY DEF IInv, Attempts, Types, ProgramTypes

LEMMA ChipWorksStep == IInv /\ [Next]_vars => ChipWorks'
<1> SUFFICES ASSUME IInv, [Next]_vars PROVE ChipWorks'
  OBVIOUS
<1>0. ChipWorks
  BY DEF IInv
<1>1. CASE Refused \/ Setup \/ Status
  <2>1. PICK result : Transmitted(result) /\ ~(result = "SUCCESS" /\ token = "IN")
    BY <1>1 DEF Refused, Setup, Status
  <2>2. UNCHANGED fifo
    BY <1>1 DEF Refused, Setup, Status
  <2> QED
    BY <1>0, <2>1, <2>2, NothingReceived DEF Transmitted, attempts, transfer, ChipWorks, Underway
<1>2. ASSUME token = "IN", NEW packet, NEW toggle, Receives(packet, toggle) PROVE ChipWorks'
  <2>1. CASE toggle = chipToggle
    <3>1. Transmitted("SUCCESS") /\ fifo' = Append(fifo, packet)
      BY <1>2, <2>1 DEF Receives
    <3>2. fifo' # <<>>
      BY <3>1, NothingReceived
    <3> QED
      BY <1>0, <1>2, <3>1, <3>2, NothingReceived DEF Transmitted, attempts, transfer, ChipWorks, Underway
  <2>2. CASE toggle # chipToggle
    <3>1. Transmitted("TOGERR") /\ UNCHANGED fifo
      BY <1>2, <2>2 DEF Receives
    <3> QED
      BY <1>0, <3>1, NothingReceived DEF Transmitted, attempts, transfer, ChipWorks, Underway
  <2> QED
    BY <2>1, <2>2
<1>3. CASE Answer \/ \E acknowledged \in BOOLEAN : Report(acknowledged)
  BY <1>2, <1>3 DEF Answer, Report
<1>4. CASE Hang
  BY <1>4 DEF Hang, ChipWorks
<1>5. CASE Tick
  BY <1>0, <1>5 DEF Tick, ChipWorks, chip, transfer, attempts, Underway
<1>6. CASE Launch
  BY <1>0, <1>6 DEF Launch, ChipWorks, chip, transfer, attempts, Underway
<1>7. CASE Nak \/ NoResponse \/ Failed
  <2>1. PICK result : Done(result) /\ result # "SUCCESS"
    BY <1>7 DEF Nak, NoResponse, Failed
  <2>2. UNCHANGED <<fifo, dead, now, timeout>>
    BY <1>7 DEF Nak, NoResponse, Failed, attempts
  <2> QED
    BY <2>1, <2>2, ResultIsIn DEF ChipWorks
<1>8. CASE DeadlineMissed
  <2>1. dead
    BY <1>0, <1>8, TransferAssumption DEF DeadlineMissed, ChipWorks, Underway, IInv, Types, ProgramTypes
  <2> QED
    BY <1>8, <2>1 DEF DeadlineMissed, chip, ChipWorks
<1>9. CASE InTransferGoesOn \/ AnswerComplete \/ DataStage \/ NoDataStage
  <2>1. Done("SUCCESS") /\ UNCHANGED now /\ timeout' = now + USB_XFER_TIMEOUT
    BY <1>9 DEF InTransferGoesOn, AnswerComplete, DataStage, NoDataStage, Dispatch
  <2>2. fifo' = <<>>
    BY <1>9, ResultIsIn DEF InTransferGoesOn, AnswerComplete, DataStage, NoDataStage
  <2>3. now < timeout' /\ now' < timeout'
    BY <2>1, TransferAssumption DEF IInv, Types, ProgramTypes
  <2> QED
    BY <2>1, <2>2, <2>3, ResultIsIn DEF ChipWorks
<1>10. CASE ReportComplete \/ RequestComplete
  <2>1. Done("SUCCESS") /\ pc' = "idle" /\ fifo' = <<>>
    BY <1>10, ResultIsIn DEF ReportComplete, RequestComplete, Finish
  <2> QED
    BY <2>1, ResultIsIn DEF ChipWorks, Underway
<1>11. CASE Request \/ Poll
  <2>1. UNCHANGED <<hxfrdn, hrsl, fifo, dead, now>> /\ timeout' = now + USB_XFER_TIMEOUT /\ pc = "idle"
    BY <1>11 DEF Request, Poll, Dispatch, chip
  <2>2. now' < timeout'
    BY <2>1, TransferAssumption DEF IInv, Types, ProgramTypes
  <2> QED
    BY <2>1, <2>2, NothingPending DEF ChipWorks
<1>12. CASE NewSession
  BY <1>12, NothingPending DEF NewSession, chip, ChipWorks, Underway
<1>13. CASE UNCHANGED vars
  BY <1>0, <1>13 DEF vars, chip, attempts, transfer, ChipWorks, Underway
<1> QED
  BY <1>1, <1>3, <1>4, <1>5, <1>6, <1>7, <1>8, <1>9, <1>10, <1>11, <1>12, <1>13 DEF Next, Bus, Program

---------------------------------------------------------------------------
\* Control transfers

\* The toggle the chip expects tells the next part from the last one.
LEMMA PartIsNext ==
  ASSUME NEW k \in Nat, NEW p \in {k, k + 1}, p % 2 = (k + 1) % 2
  PROVE  p = k + 1
  OBVIOUS

LEMMA PartsFacts ==
  ASSUME NEW k \in Nat, NEW b, b = Parts(k)
  PROVE  b \in Seq([of : {step}, part : Nat]) /\ Len(b) = k
         /\ b \o <<[of |-> step, part |-> k + 1]>> = Parts(k + 1)
         /\ Len(Parts(k + 1)) = k + 1
<1>1. b \in Seq([of : {step}, part : Nat]) /\ Len(b) = k
  BY DEF Parts
<1>2. Len(Parts(k + 1)) = k + 1
  BY DEF Parts
<1>3. b \o <<[of |-> step, part |-> k + 1]>> = Append(b, [of |-> step, part |-> k + 1])
  BY <1>1
<1>4. Append(b, [of |-> step, part |-> k + 1]) = Parts(k + 1)
  BY <1>1 DEF Parts
<1> QED
  BY <1>1, <1>2, <1>3, <1>4

\* A step in which the control transfer stands still.
LEMMA ControlQuiet ==
  ASSUME Control, UNCHANGED <<ep, token, step, xfrlen, buffer, request, part, chipToggle, fifo>>,
         ~dead' => ~dead, Underway' => Underway,
         hxfrdn' /\ hrsl' = "SUCCESS" /\ token = "SETUP" => hxfrdn /\ hrsl = "SUCCESS"
  PROVE  Control'
  BY DEF Control, AnswerSoFar, Parts

\* A part the chip takes is the next one, and one it does not take changes nothing.
LEMMA AnswerControl == IInv /\ Answer => Control'
<1> SUFFICES ASSUME IInv, Answer PROVE Control'
  OBVIOUS
<1> DEFINE k == Len(buffer)
<1>0. /\ token = "IN" /\ ep = 0 /\ UNCHANGED <<ep, token, step, xfrlen, buffer, request>>
      /\ part' \in {part, part + 1}
      /\ Receives([of |-> request, part |-> part], part % 2)
  BY DEF Answer, Receives, Transmitted, transfer
<1>1. fifo = <<>> /\ ~dead /\ pc = "wait"
  BY <1>0, NothingReceived DEF Receives
<1>2. AnswerSoFar
  BY <1>0, <1>1 DEF IInv, Control, Underway
<1>3. k \in Nat /\ part \in {k, k + 1} /\ chipToggle = (k + 1) % 2
  BY <1>1, <1>2 DEF AnswerSoFar
<1>4. CASE part % 2 = chipToggle
  <2>1. part = k + 1 /\ chipToggle' = 1 - chipToggle /\ fifo' = Append(fifo, [of |-> request, part |-> part])
    BY <1>0, <1>3, <1>4, PartIsNext DEF Receives
  <2>2. fifo' = <<[of |-> step, part |-> k + 1]>>
    BY <1>1, <1>2, <2>1 DEF AnswerSoFar
  <2>3. chipToggle' = k % 2
    BY <1>3, <2>1
  <2>4. part' \in {k + 1, k + 2}
    BY <1>0, <1>3, <2>1
  <2>5. AnswerSoFar'
    BY <1>0, <1>2, <2>2, <2>3, <2>4 DEF AnswerSoFar, Parts
  <2> QED
    BY <1>0, <2>5 DEF Control
<1>5. CASE part % 2 # chipToggle
  <2>1. part = k
    BY <1>3, <1>5
  <2>2. UNCHANGED <<fifo, chipToggle>>
    BY <1>0, <1>5 DEF Receives
  <2>3. part' \in {k, k + 1}
    BY <1>0, <1>3, <2>1
  <2>4. AnswerSoFar'
    BY <1>0, <1>1, <1>2, <2>2, <2>3 DEF AnswerSoFar, Parts
  <2> QED
    BY <1>0, <2>4 DEF Control
<1> QED
  BY <1>4, <1>5

\* A packet of the answer is in: the answer goes on, or is whole.
LEMMA PacketTaken ==
  ASSUME IInv, Done("SUCCESS"), token = "IN", ep = 0
  PROVE  /\ Received = Parts(Len(buffer) + 1) /\ Len(Received) = Len(buffer) + 1
         /\ part \in {Len(Received), Len(Received) + 1}
         /\ chipToggle = (Len(Received) + 1) % 2
         /\ Len(buffer) \in Nat /\ Script[step] /\ request = step
         /\ xfrlen + PacketSize = MaxPktSize0 * Len(Received)
         /\ Complete <=> Len(Received) = AnswerParts
         /\ Len(Received) <= AnswerParts
<1> DEFINE k == Len(buffer)
<1>1. AnswerSoFar /\ fifo # <<>>
  BY ResultIsIn DEF IInv, Control
<1>2. buffer = Parts(k) /\ k \in 0 .. AnswerParts - 1 /\ xfrlen = 8 * k
  BY <1>1 DEF AnswerSoFar, MaxPktSize0
<1>3. k \in Nat
  BY <1>2
<1>4. Received = Parts(k + 1) /\ Len(Received) = k + 1
  BY <1>1, <1>2, <1>3, PartsFacts DEF AnswerSoFar, Received
<1>5. /\ part \in {k + 1, k + 2} /\ chipToggle = k % 2 /\ Script[step] /\ request = step
  BY <1>1 DEF AnswerSoFar
<1>6. chipToggle = (k + 2) % 2
  BY <1>3, <1>5
<1>7. PacketSize = 8 /\ MaxPktSize = 8 /\ NBytes = 8 * AnswerParts
  BY DEF PacketSize, MaxPktSize, NBytes, MaxPktSize0
<1>8. Complete <=> k + 1 = AnswerParts
  BY <1>2, <1>3, <1>7, TransferAssumption DEF Complete
<1> QED
  BY <1>2, <1>3, <1>4, <1>5, <1>6, <1>7, <1>8, TransferAssumption DEF MaxPktSize0

LEMMA ControlStep == IInv /\ [Next]_vars => Control'
<1> SUFFICES ASSUME IInv, [Next]_vars PROVE Control'
  OBVIOUS
<1>0. Control
  BY DEF IInv
<1>1. CASE Refused
  <2>1. hrsl' # "SUCCESS"
    BY <1>1 DEF Refused, Transmitted
  <2> QED
    BY <1>0, <1>1, <2>1, ControlQuiet DEF Refused, Transmitted, device, transfer, Underway
<1>2. CASE Setup
  <2>1. /\ token = "SETUP" /\ request' = step /\ part' = 1
        /\ UNCHANGED <<token, step, xfrlen, buffer, ep, dead, pc>>
    BY <1>2 DEF Setup, Transmitted, transfer
  <2> QED
    BY <1>0, <2>1 DEF Control, Underway
<1>3. CASE Status
  BY <1>0, <1>3, ControlQuiet DEF Status, Transmitted, device, transfer, Underway
<1>4. CASE Answer
  BY <1>4, AnswerControl
<1>5. ASSUME NEW acknowledged \in BOOLEAN, Report(acknowledged) PROVE Control'
  <2>1. ep' = 1
    BY <1>5 DEF Report, Receives, Transmitted, transfer
  <2> QED
    BY <2>1 DEF Control
<1>6. CASE Hang
  BY <1>6 DEF Hang, Control
<1>7. CASE Tick
  BY <1>0, <1>7, ControlQuiet DEF Tick, device, chip, transfer, Underway
<1>8. CASE Launch
  BY <1>0, <1>8, ControlQuiet DEF Launch, device, chip, transfer, Underway
<1>9. CASE Nak
  BY <1>0, <1>9, ControlQuiet, ResultIsIn DEF Nak, device
<1>10. CASE NoResponse
  BY <1>0, <1>10, ControlQuiet, ResultIsIn DEF NoResponse, device
<1>11. CASE Failed \/ DeadlineMissed \/ RequestComplete \/ ReportComplete \/ NewSession
  <2>1. pc' = "idle"
    BY <1>11 DEF Failed, DeadlineMissed, RequestComplete, ReportComplete, NewSession, Finish
  <2> QED
    BY <2>1 DEF Control, Underway
<1>12. CASE InTransferGoesOn
  <2>1. CASE ep = 1
    BY <1>12, <2>1 DEF InTransferGoesOn, Dispatch, Control
  <2>2. CASE ep = 0
    <3>1. /\ Done("SUCCESS") /\ token = "IN" /\ ~Complete /\ buffer' = Received /\ fifo' = <<>>
          /\ xfrlen' = xfrlen + PacketSize /\ token' = "IN"
          /\ UNCHANGED <<part, request, chipToggle, step>>
      BY <1>12 DEF InTransferGoesOn, Dispatch, device
    <3>2. buffer' = Parts(Len(buffer')) /\ Len(buffer') \in 0 .. AnswerParts - 1
      BY <2>2, <3>1, PacketTaken, TransferAssumption
    <3>3. AnswerSoFar'
      BY <2>2, <3>1, <3>2, PacketTaken DEF AnswerSoFar, Parts, MaxPktSize0
    <3> QED
      BY <3>1, <3>3 DEF Control
  <2> QED
    BY <2>1, <2>2 DEF IInv, Types, ProgramTypes
<1>13. CASE DataStage
  <2>1. /\ Done("SUCCESS") /\ token = "SETUP" /\ Script[step] /\ chipToggle' = 1 /\ token' = "IN"
        /\ UNCHANGED <<request, part, fifo, step, xfrlen, buffer>>
    BY <1>13 DEF DataStage, Dispatch, device
  <2>2. /\ ~dead /\ Underway /\ ep = 0 /\ hxfrdn /\ hrsl = "SUCCESS" /\ fifo = <<>>
    BY <2>1, ResultIsIn, ControlHasEndpoint0
  <2>3. buffer = <<>> /\ xfrlen = 0 /\ request = step /\ part = 1
    BY <1>0, <2>1, <2>2 DEF Control
  <2>4. AnswerSoFar'
    BY <2>1, <2>2, <2>3, TransferAssumption DEF AnswerSoFar, Parts, MaxPktSize0
  <2> QED
    BY <2>1, <2>4 DEF Control
<1>14. CASE AnswerComplete
  <2>1. /\ Done("SUCCESS") /\ token = "IN" /\ ep = 0 /\ Complete /\ buffer' = Received
        /\ token' = "OUTHS" /\ UNCHANGED step
    BY <1>14 DEF AnswerComplete, Dispatch
  <2>2. buffer' = Parts(AnswerParts)
    BY <2>1, PacketTaken
  <2> QED
    BY <2>1, <2>2 DEF Control, Parts
<1>15. CASE NoDataStage
  BY <1>15 DEF NoDataStage, Dispatch, Control
<1>16. CASE Request
  <2>1. /\ pc = "idle" /\ xfrlen' = 0 /\ buffer' = <<>> /\ token' = "SETUP"
        /\ UNCHANGED <<hxfrdn, dead>>
    BY <1>16 DEF Request, Dispatch, chip
  <2> QED
    BY <2>1, NothingPending DEF Control
<1>17. CASE Poll
  BY <1>17 DEF Poll, Dispatch, Control
<1>18. CASE UNCHANGED vars
  BY <1>0, <1>18, ControlQuiet DEF vars, device, chip, transfer, Underway
<1> QED
  BY <1>1, <1>2, <1>3, <1>4, <1>5, <1>6, <1>7, <1>8, <1>9, <1>10, <1>11, <1>12, <1>13, <1>14,
     <1>15, <1>16, <1>17, <1>18 DEF Next, Bus, Program

\* What main() gets of an answer is all of it.
LEMMA AnswerWholeStep == IInv /\ [Next]_vars => AnswerWhole'
<1> SUFFICES ASSUME IInv, [Next]_vars PROVE AnswerWhole'
  OBVIOUS
<1>0. AnswerWhole
  BY DEF IInv
<1>1. CASE UNCHANGED <<pc, transfer>>
  BY <1>0, <1>1 DEF AnswerWhole, transfer
<1>2. CASE Bus \/ Hang \/ Tick
  BY <1>1, <1>2, BusLeavesProgram DEF Hang, Tick
<1>3. CASE pc' # "idle"
  BY <1>3 DEF AnswerWhole
<1>4. CASE Launch \/ InTransferGoesOn \/ DataStage \/ AnswerComplete \/ NoDataStage \/ Request \/ Poll
  BY <1>3, <1>4 DEF Launch, InTransferGoesOn, DataStage, AnswerComplete, NoDataStage, Request,
     Poll, Dispatch
<1>5. CASE Nak \/ NoResponse \/ Failed \/ DeadlineMissed
  <2>1. pc' # "idle" \/ rcode' # "SUCCESS"
    BY <1>5 DEF Nak, NoResponse, Failed, DeadlineMissed, Finish
  <2> QED
    BY <2>1 DEF AnswerWhole
<1>6. CASE ReportComplete
  BY <1>6 DEF ReportComplete, AnswerWhole
<1>7. CASE RequestComplete
  <2>1. /\ Done("SUCCESS") /\ token \in {"INHS", "OUTHS"} /\ UNCHANGED <<step, buffer>>
    BY <1>7 DEF RequestComplete
  <2>2. ~dead /\ Underway /\ ep = 0
    BY <2>1, ResultIsIn, ControlHasEndpoint0
  <2>3. ~Script[step] \/ buffer = Parts(AnswerParts)
    BY <2>1, <2>2 DEF IInv, Control
  <2> QED
    BY <2>1, <2>3 DEF AnswerWhole, Parts
<1>8. CASE NewSession
  BY <1>8 DEF NewSession, AnswerWhole
<1> QED
  BY <1>1, <1>2, <1>4, <1>5, <1>6, <1>7, <1>8 DEF Next, Program, vars

---------------------------------------------------------------------------
\* Polls

\* A device whose reports fill their packets, but not what is asked for, does not count.
LEMMA WholeEndsAtOnce ==
  ASSUME IInv, ep = 1, Whole
  PROVE  Complete
<1>1. xfrlen \in Nat /\ kind.size \in Nat \ {0} /\ kind.max \in Nat \ {0}
  BY PacketSizes DEF IInv, Types, ProgramTypes
<1> QED
  BY <1>1 DEF Whole, Complete, PacketSize, MaxPktSize, NBytes

\* The toggles agree on a new report.
LEMMA ReportIsNew ==
  ASSUME NEW last \in Nat, NEW next \in Nat, last <= next, next >= 1
  PROVE  /\ next % 2 = 1 - ((next - 1) % 2)
         /\ last % 2 = (next - 1) % 2 => next >= last + 1
         /\ last % 2 # (next - 1) % 2 => next # last + 1
  OBVIOUS

LEMMA ReportPoll ==
  ASSUME IInv, NEW acknowledged \in BOOLEAN, Report(acknowledged)
  PROVE  StreamInv' /\ PollInv'
<1>0. /\ token = "IN" /\ ep = 1 /\ offered <= Reports
      /\ UNCHANGED <<kind, dead, ep, pc, buffer, rcvToggle, stream>>
      /\ Receives(offered, devToggle)
  BY DEF Report, Receives, Transmitted, transfer
<1>1. fifo = <<>> /\ ~dead /\ pc = "wait" /\ Underway
  BY <1>0, NothingReceived DEF Receives, Underway
<1>2. /\ offered \in Nat /\ offered >= 1 /\ devToggle = (offered - 1) % 2 /\ Ascending(stream) /\ Ascending(Got)
      /\ Last(Got) <= offered /\ chipToggle = Last(Got) % 2 /\ (Whole => buffer = <<>>)
      /\ Last(stream) <= offered /\ rcvToggle = Last(stream) % 2 /\ Gapless /\ buffer \in Seq(Int)
      /\ stream \in Seq(Int) /\ (Whole => offered <= Len(stream) + 1)
  BY <1>0, <1>1, TransferAssumption DEF IInv, Types, DeviceTypes, StreamInv, PollInv, Ascending
<1>3. Last(Got) \in Nat /\ Last(stream) \in Nat /\ Len(stream) \in Nat
  BY <1>2, LastFacts
<1>4. UNCHANGED <<Got, Whole, Gapless, Last(Got), Last(stream)>>
  BY <1>0 DEF Got, Whole, Gapless, Last
<1>5. \/ offered' = offered + 1 /\ devToggle' = 1 - devToggle
      \/ offered' = offered /\ devToggle' = devToggle
  BY DEF Report
<1>6. offered' \in Nat /\ offered' >= offered /\ offered' <= offered + 1 /\ devToggle' = (offered' - 1) % 2
  BY <1>2, <1>5
<1>9. /\ offered % 2 = 1 - devToggle
      /\ chipToggle = devToggle => offered >= Last(Got) + 1
      /\ chipToggle # devToggle => offered # Last(Got) + 1
  <2>1. PICK last \in Nat : last = Last(Got)
    BY <1>3
  <2>2. /\ offered % 2 = 1 - ((offered - 1) % 2)
        /\ last % 2 = (offered - 1) % 2 => offered >= last + 1
        /\ last % 2 # (offered - 1) % 2 => offered # last + 1
    BY <1>2, <2>1, ReportIsNew
  <2> QED
    BY <1>2, <2>1, <2>2
<1>7. CASE devToggle = chipToggle
  <2>1. fifo' = <<offered>> /\ chipToggle' = 1 - chipToggle
    BY <1>0, <1>1, <1>7 DEF Receives
  <2>2. offered \in Last(Got) + 1 .. Reports
    BY <1>0, <1>2, <1>3, <1>7, <1>9, TransferAssumption
  <2>3. chipToggle' = offered % 2
    BY <1>7, <1>9, <2>1
  <2>4. Whole => offered = Len(stream) + 1
    <3>1. Whole => Got = stream
      BY <1>2 DEF Got
    <3> QED
      BY <1>2, <1>3, <2>2, <3>1 DEF Gapless
  <2>5. fifo' # <<>> /\ fifo'[1] = offered /\ fifo' = <<fifo'[1]>>
    BY <2>1
  <2>6. PollInv'
    <3>1. buffer' \in Seq(Int) /\ Ascending(Got)' /\ Last(Got)' <= offered' /\ (Whole' => buffer' = <<>>)
      BY <1>0, <1>2, <1>3, <1>4, <1>6 DEF Ascending, Polls!Increasing
    <3>2. /\ fifo' = <<fifo'[1]>> /\ fifo'[1] \in Last(Got)' + 1 .. Reports
          /\ fifo'[1] <= offered' /\ chipToggle' = fifo'[1] % 2
      BY <1>2, <1>4, <1>6, <2>2, <2>3, <2>5
    <3>3. Whole' => fifo'[1] = Len(stream)' + 1 /\ offered' <= Len(stream)' + 2
      BY <1>0, <1>2, <1>3, <1>4, <1>6, <2>4, <2>5
    <3> QED
      BY <2>5, <3>1, <3>2, <3>3 DEF PollInv
  <2>7. StreamInv'
    BY <1>0, <1>2, <1>3, <1>4, <1>6, <2>5 DEF StreamInv
  <2> QED
    BY <2>6, <2>7
<1>8. CASE devToggle # chipToggle
  <2>1. UNCHANGED <<fifo, chipToggle>>
    BY <1>0, <1>8 DEF Receives
  <2>2. Whole => offered = Len(stream)
    <3>1. Whole => Got = stream
      BY <1>2 DEF Got
    <3>2. offered # Last(Got) + 1
      BY <1>8, <1>9
    <3> QED
      BY <1>2, <1>3, <3>1, <3>2 DEF Gapless
  <2>3. PollInv'
    BY <1>0, <1>1, <1>2, <1>3, <1>4, <1>6, <2>1 DEF PollInv
  <2>4. StreamInv'
    BY <1>0, <1>2, <1>3, <1>4, <1>6, <2>1, <2>2 DEF StreamInv
  <2> QED
    BY <2>3, <2>4
<1> QED
  BY <1>7, <1>8

\* A packet of a poll is in.
LEMMA ReportTaken ==
  ASSUME IInv, Done("SUCCESS"), token = "IN", ep = 1
  PROVE  /\ Received \in Seq(Int) /\ stream \o Received = Append(Got, fifo[1])
         /\ Ascending(stream \o Received) /\ Last(stream \o Received) = fifo[1]
         /\ fifo[1] \in Nat /\ fifo[1] <= offered /\ chipToggle = fifo[1] % 2
         /\ Len(Got) \in Nat /\ Len(stream \o Received) = Len(Got) + 1
         /\ Whole => /\ Got = stream /\ fifo[1] = Len(stream) + 1 /\ offered <= Len(stream) + 2
<1>1. ~dead /\ Underway /\ fifo # <<>>
  BY ResultIsIn
<1>2. /\ buffer \in Seq(Int) /\ Ascending(Got) /\ fifo = <<fifo[1]>> /\ fifo[1] \in Last(Got) + 1 .. Reports
      /\ fifo[1] <= offered /\ chipToggle = fifo[1] % 2 /\ (Whole => buffer = <<>>)
      /\ Whole => fifo[1] = Len(stream) + 1 /\ offered <= Len(stream) + 2
  BY <1>1 DEF IInv, PollInv
<1>3. stream \in Seq(Int) /\ Got \in Seq(Int) /\ fifo[1] \in Nat
  <2>1. Last(Got) \in Nat
    BY <1>2, LastFacts
  <2> QED
    BY <1>2, <2>1, TransferAssumption DEF IInv, StreamInv, Ascending
<1>4. Received = buffer \o <<fifo[1]>>
  BY <1>2 DEF Received
<1>5. Received \in Seq(Int) /\ stream \o Received = Append(Got, fifo[1])
  <2>1. fifo[1] \in Int
    BY <1>3
  <2>2. /\ stream \o (buffer \o <<fifo[1]>>) = Append(stream \o buffer, fifo[1])
        /\ buffer \o <<fifo[1]>> \in Seq(Int)
    BY <1>2, <1>3, <2>1, GotOneMore, Zenon
  <2> QED
    BY <1>4, <2>2, Zenon DEF Got
<1>6. /\ Ascending(stream \o Received) /\ Last(stream \o Received) = fifo[1]
      /\ Len(stream \o Received) = Len(Got) + 1
  BY <1>2, <1>5, OneMore
<1>7. Whole => Got = stream
  BY <1>2, <1>3 DEF Got
<1> QED
  BY <1>2, <1>3, <1>5, <1>6, <1>7

\* A step in which the poll stands still.
LEMMA PollQuiet ==
  ASSUME StreamInv, PollInv,
         UNCHANGED <<kind, offered, devToggle, rcvToggle, stream, ep, buffer, chipToggle, fifo>>,
         ~dead' => ~dead, Underway' => Underway
  PROVE  StreamInv' /\ PollInv'
  BY DEF StreamInv, PollInv, Ascending, Gapless, Whole, Last, Got, Polls!Increasing

\* A step of a control transfer.
LEMMA PollAway ==
  ASSUME IInv, UNCHANGED <<kind, offered, devToggle, rcvToggle, stream>>, ep' = 0, ~dead' => ~dead,
         ep = 0 \/ fifo = <<>>
  PROVE  StreamInv' /\ PollInv'
  BY DEF IInv, StreamInv, PollInv, Ascending, Gapless, Whole, Last, Polls!Increasing

LEMMA StreamStep == IInv /\ [Next]_vars => StreamInv' /\ PollInv'
<1> SUFFICES ASSUME IInv, [Next]_vars PROVE StreamInv' /\ PollInv'
  OBVIOUS
<1>0. StreamInv /\ PollInv
  BY DEF IInv
<1>1. CASE UNCHANGED <<kind, offered, devToggle, rcvToggle, stream, ep, buffer, chipToggle, fifo, dead>>
           /\ (Underway' => Underway)
  BY <1>0, <1>1, PollQuiet
<1>2. CASE Refused \/ Setup \/ Status
  BY <1>1, <1>2 DEF Refused, Setup, Status, Transmitted, device, transfer, Underway
<1>3. CASE Answer
  <2>1. /\ UNCHANGED <<kind, offered, devToggle, rcvToggle, stream, dead>> /\ ep = 0 /\ ep' = 0
    BY <1>3 DEF Answer, Receives, Transmitted, transfer
  <2> QED
    BY <2>1, PollAway
<1>4. CASE \E acknowledged \in BOOLEAN : Report(acknowledged)
  BY <1>4, ReportPoll
<1>5. CASE Hang
  BY <1>0, <1>5, PollQuiet DEF Hang, device, transfer, Underway
<1>6. CASE Tick \/ Launch
  BY <1>1, <1>6 DEF Tick, Launch, device, chip, transfer, Underway
<1>7. CASE Nak \/ NoResponse \/ Failed \/ DeadlineMissed
  <2>1. UNCHANGED <<kind, offered, devToggle, rcvToggle, stream, ep, buffer, chipToggle, fifo, dead>>
        /\ Underway
    BY <1>7 DEF Nak, NoResponse, Failed, DeadlineMissed, Done, device, chip, Underway
  <2> QED
    BY <1>1, <2>1
<1>8. CASE InTransferGoesOn
  <2>0. /\ Done("SUCCESS") /\ token = "IN" /\ ~Complete /\ buffer' = Received /\ fifo' = <<>>
        /\ UNCHANGED <<kind, offered, devToggle, rcvToggle, stream, chipToggle, dead>> /\ ep' = ep
    BY <1>8 DEF InTransferGoesOn, Dispatch, device
  <2>1. CASE ep = 0
    BY <2>0, <2>1, PollAway
  <2>2. CASE ep = 1
    <3>1. ~Whole /\ ~Whole'
      BY <2>0, <2>2, WholeEndsAtOnce DEF Whole
    <3>2. Got' = stream \o Received
      BY <2>0 DEF Got
    <3>3. Ascending(Got)' /\ Last(Got)' <= offered' /\ chipToggle' = Last(Got)' % 2
          /\ buffer' \in Seq(Int)
      BY <2>0, <2>2, <3>2, ReportTaken DEF Ascending, Last, Polls!Increasing
    <3>4. PollInv'
      BY <2>0, <3>1, <3>3 DEF PollInv
    <3>5. StreamInv'
      BY <1>0, <2>0, <3>1 DEF StreamInv, Ascending, Gapless, Last, Polls!Increasing
    <3> QED
      BY <3>4, <3>5
  <2> QED
    BY <2>1, <2>2 DEF IInv, Types, ProgramTypes
<1>9. CASE ReportComplete
  <2>1. /\ Done("SUCCESS") /\ token = "IN" /\ ep = 1 /\ fifo' = <<>> /\ pc' = "idle"
        /\ rcvToggle' = chipToggle /\ stream' = stream \o Received
        /\ UNCHANGED <<kind, offered, devToggle, dead>>
    BY <1>9 DEF ReportComplete, Finish, SavedToggle, device
  <2>2. ~dead /\ (Whole' <=> Whole)
    BY <2>1, ResultIsIn DEF Whole
  <2>3. Ascending(stream') /\ Last(stream') = fifo[1] /\ Len(stream') = Len(Got) + 1
    BY <2>1, ReportTaken
  <2>4. Whole => Last(stream') = Len(stream') /\ offered <= Len(stream') + 1
    BY <2>1, <2>3, ReportTaken, TransferAssumption DEF IInv, Types, DeviceTypes
  <2>5. /\ Last(stream)' <= offered' /\ Gapless'
        /\ rcvToggle' = Last(stream)' % 2 /\ devToggle' = (offered' - 1) % 2
        /\ Whole' => offered' <= Len(stream') + 1
    BY <1>0, <2>1, <2>2, <2>3, <2>4, ReportTaken DEF Gapless, StreamInv, Last
  <2>6. StreamInv'
    BY <2>3, <2>5 DEF StreamInv, Ascending, Polls!Increasing
  <2>7. PollInv'
    BY <2>1 DEF PollInv, Underway
  <2> QED
    BY <2>6, <2>7
<1>10. CASE DataStage \/ AnswerComplete \/ NoDataStage
  <2>1. /\ Done("SUCCESS") /\ ep' = 0 /\ UNCHANGED <<kind, offered, devToggle, rcvToggle, stream, dead>>
        /\ token = "IN" => ep = 0
    BY <1>10 DEF DataStage, AnswerComplete, NoDataStage, Dispatch, device
  <2>2. ep = 0
    BY <2>1, ResultIsIn, ControlHasEndpoint0
  <2> QED
    BY <2>1, <2>2, PollAway
<1>11. CASE RequestComplete
  BY <1>1, <1>11, ResultIsIn DEF RequestComplete, device
<1>12. CASE Request
  <2>1. /\ pc = "idle" /\ ep' = 0 /\ UNCHANGED <<kind, offered, devToggle, rcvToggle, stream, dead>>
    BY <1>12 DEF Request, Dispatch, device, chip
  <2>2. CASE dead
    BY <1>0, <2>1, <2>2 DEF StreamInv, PollInv, Ascending, Polls!Increasing
  <2>3. CASE ~dead
    BY <2>1, <2>3, NothingPending, PollAway
  <2> QED
    BY <2>2, <2>3
<1>13. CASE Poll
  <2>1. /\ pc = "idle" /\ ep' = 1 /\ chipToggle' = rcvToggle /\ buffer' = <<>>
        /\ UNCHANGED <<kind, offered, devToggle, rcvToggle, stream, dead, fifo>>
    BY <1>13 DEF Poll, Dispatch, device
  <2>2. CASE dead
    BY <1>0, <2>1, <2>2 DEF StreamInv, PollInv, Ascending, Polls!Increasing
  <2>3. CASE ~dead
    <3>1. fifo = <<>>
      BY <2>1, <2>3, NothingPending
    <3>2. Got' = stream /\ Whole' = Whole
      BY <1>0, <2>1 DEF Got, StreamInv, Ascending, Whole
    <3>3. StreamInv'
      BY <1>0, <2>1, <2>3, <3>1 DEF StreamInv, Ascending, Gapless, Whole, Last, Polls!Increasing
    <3>4. /\ Ascending(Got)' /\ Last(Got)' = Last(stream)
      BY <1>0, <3>2 DEF StreamInv, Ascending, Last, Polls!Increasing
    <3>5. PollInv'
      BY <1>0, <2>1, <2>3, <3>1, <3>4 DEF PollInv, StreamInv
    <3> QED
      BY <3>3, <3>5
  <2> QED
    BY <2>2, <2>3
<1>14. CASE NewSession
  <2>1. /\ pc' = "idle" /\ offered' = 1 /\ devToggle' = 0 /\ rcvToggle' = 0 /\ stream' = <<>>
    BY <1>14 DEF NewSession, HID_init
  <2>2. Last(stream)' = 0 /\ Ascending(stream)' /\ Len(stream') = 0
    BY <2>1 DEF Last, Ascending, Polls!Increasing
  <2>3. StreamInv'
    BY <2>1, <2>2 DEF StreamInv, Gapless
  <2> QED
    BY <2>1, <2>3 DEF PollInv, Underway
<1>15. CASE UNCHANGED vars
  BY <1>1, <1>15 DEF vars, device, chip, transfer, Underway
<1> QED
  BY <1>2, <1>3, <1>4, <1>5, <1>6, <1>7, <1>8, <1>9, <1>10, <1>11, <1>12, <1>13, <1>14, <1>15
     DEF Next, Bus, Program

---------------------------------------------------------------------------
\* The theorems

LEMMA IInvInit == Init => IInv
<1> SUFFICES ASSUME Init PROVE IInv
  OBVIOUS
<1>1. Types
  <2>1. DeviceTypes
    BY TransferAssumption DEF Init, DeviceTypes
  <2>2. ChipTypes
    <3>1. fifo = <<>>
      BY DEF Init
    <3>2. Len(fifo) <= 1
      BY <3>1
    <3> QED
      BY <3>2 DEF Init, ChipTypes
  <2>3. ProgramTypes
    BY TransferAssumption DEF Init, ProgramTypes
  <2> QED
    BY <2>1, <2>2, <2>3 DEF Types
<1>2. Attempts /\ ChipWorks /\ Control /\ PollInv /\ AnswerWhole
  BY DEF Init, Attempts, ChipWorks, Control, PollInv, AnswerWhole, Underway
<1>3. Last(stream) = 0 /\ Ascending(stream) /\ Len(stream) = 0
  BY DEF Init, Last, Ascending, Polls!Increasing
<1>4. StreamInv
  BY <1>3 DEF Init, StreamInv, Gapless
<1> QED
  BY <1>1, <1>2, <1>4 DEF IInv

LEMMA IInvStep == IInv /\ [Next]_vars => IInv'
  BY DeviceTypesStep, ChipTypesStep, ProgramTypesStep, AttemptsStep, ChipWorksStep, ControlStep,
     StreamStep, AnswerWholeStep DEF IInv, Types

\* The stages of the requests and the parity of the reports (transfer.c:83-248, HID.c:50-81).
THEOREM TransferInvariant == Spec => []IInv
<1> QED
  BY IInvInit, IInvStep, PTL DEF Spec

\* The counters stay below their limits, and there is at most one packet in the chip.
THEOREM TransferTypeOK == Spec => []TypeOK
<1>1. IInv => TypeOK
  <2> SUFFICES ASSUME IInv PROVE TypeOK
    OBVIOUS
  <2>1. Len(stream) <= Reports
    BY LastFacts DEF IInv, StreamInv
  <2> QED
    BY <2>1 DEF IInv, Types, DeviceTypes, ChipTypes, ProgramTypes, TypeOK
<1> QED
  BY <1>1, TransferInvariant, PTL

\* A request that succeeds has the whole answer, and only its own.
THEOREM TransferAnswerWhole == Spec => []AnswerWhole
<1>1. IInv => AnswerWhole
  BY DEF IInv
<1> QED
  BY <1>1, TransferInvariant, PTL

\* Every step takes one new report, several if they are not whole, or none.
LEMMA StepImplementsStream == IInv /\ [Next]_vars => [Polls!Next]_(<<Whole, stream>>)
<1> SUFFICES ASSUME IInv, [Next]_vars PROVE [Polls!Next]_(<<Whole, stream>>)
  OBVIOUS
<1>1. CASE ReportComplete
  <2>1. /\ Done("SUCCESS") /\ token = "IN" /\ ep = 1
        /\ stream' = stream \o Received /\ UNCHANGED kind
    BY <1>1 DEF ReportComplete, device
  <2>2. stream \in Seq(Int) /\ Received \in Seq(Int)
    BY <2>1, ReportTaken DEF IInv, StreamInv, Ascending
  <2>3. Len(Received) > 0
    <3>1. ~dead /\ Underway /\ fifo # <<>>
      BY <2>1, ResultIsIn
    <3>2. buffer \in Seq(Int) /\ fifo = <<fifo[1]>>
      BY <2>1, <3>1 DEF IInv, PollInv
    <3>3. PICK r : fifo = <<r>>
      BY <3>2
    <3>4. Len(buffer \o <<r>>) = Len(buffer) + 1 /\ Len(buffer) \in Nat
      BY <3>2
    <3> QED
      BY <3>3, <3>4 DEF Received
  <2>4. Len(stream') > Len(stream) /\ \A i \in 1 .. Len(stream) : stream'[i] = stream[i]
    BY <2>1, <2>2, <2>3
  <2>5. Polls!Increasing(stream')
    BY <2>1, ReportTaken DEF Ascending
  <2>6. Whole => stream' = Append(stream, Len(stream) + 1)
    BY <2>1, ReportTaken
  <2>7. UNCHANGED Whole
    BY <2>1 DEF Whole
  <2> QED
    BY <2>4, <2>5, <2>6, <2>7 DEF Polls!Next, Polls!Take
<1>2. CASE NewSession
  <2>1. stream' = <<>> /\ Whole' \in BOOLEAN
    BY <1>2, Zenon DEF NewSession, Whole
  <2> QED
    BY <2>1 DEF Polls!Next, Polls!NewSession
<1>3. CASE UNCHANGED <<kind, stream>>
  BY <1>3 DEF Whole
<1>4. CASE Bus \/ Hang \/ Tick
  BY <1>3, <1>4, BusLeavesProgram
     DEF Hang, Tick, device, Bus, Refused, Setup, Status, Answer, Report
<1>5. CASE Launch \/ Nak \/ NoResponse \/ Failed \/ DeadlineMissed \/ Request \/ Poll
  BY <1>3, <1>5 DEF Launch, Nak, NoResponse, Failed, DeadlineMissed, Request, Poll, device
<1>6. CASE InTransferGoesOn \/ DataStage \/ AnswerComplete \/ NoDataStage \/ RequestComplete
  BY <1>3, <1>6 DEF InTransferGoesOn, DataStage, AnswerComplete, NoDataStage, RequestComplete, device
<1> QED
  BY <1>1, <1>2, <1>3, <1>4, <1>5, <1>6 DEF Next, Program, vars, device

\* The polls lose no report and double none, for every device whose reports are whole.
THEOREM TransferImplementsStream == Spec => StreamSpec
<1>1. Init => Polls!Init
  BY DEF Init, Polls!Init
<1>2. IInv /\ [Next]_vars => [Polls!Next]_(<<Whole, stream>>)
  BY StepImplementsStream
<1> QED
  BY <1>1, <1>2, TransferInvariant, PTL DEF Spec, StreamSpec, Polls!Spec
============================================================================
