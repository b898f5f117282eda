-------------------------- MODULE RemoteUart_proofs --------------------------
(***************************************************************************)
(* For frames of any length, any timeouts and any main loop that meet      *)
(* RemoteAssumption: nothing but whole frames reaches the command mapper,  *)
(* and a silence is noticed in time.                                       *)
(*                                                                         *)
(* Both rest on how long a byte can lie in the UART's queue and how old    *)
(* the packet can be: everything of one frame is gone before the silence   *)
(* between two frames is over, so that the bytes the board holds are       *)
(* always bytes of one frame, and all of it only if they are the frame.    *)
(***************************************************************************)
EXTENDS RemoteUart, SequenceTheorems, TLAPS

Bytes == {"first", "next", "gap"}

\* A call of read() takes no more than one tick.
CallsAreShort == phase # "idle" => stall <= 1

\* A byte in the queue arrived after the loop of the last call.
QueueIsFresh ==
  uart # <<>> => quiet <= stall + (IF phase = "loop" THEN MaxStall ELSE 0)

\* A byte is read, and sets lastRead, within a call and the time to the next.
LastReadIsFresh == age <= DisconnectTimeout => quiet <= age + MaxStall + 1

\* A packet that is too old does not survive the next call.
PacketIsFresh ==
  rxBuffer # <<>> /\ age > ReadTimeout =>
    quiet <= ReadTimeout + MaxStall + 1 + stall + (IF phase = "idle" THEN 0 ELSE MaxStall)

\* Nor does a connection.
ConnectionIsFresh ==
  age > DisconnectTimeout /\ (connected \/ mapped # "nothing") =>
    quiet <= DisconnectTimeout + MaxStall + 1 + stall

\* A byte that was received was sent.
QuietIsSilent == pause <= quiet

Timing ==
  /\ CallsAreShort /\ QueueIsFresh /\ LastReadIsFresh
  /\ PacketIsFresh /\ ConnectionIsFresh /\ QuietIsSilent

\* The bytes the board holds, and how many of their frame were sent.
Held == rxBuffer \o uart
Sent == IF pos = 0 THEN BufLen ELSE pos

\* The board holds as many bytes as were sent only if they are all of them.
OneFrame ==
  /\ Len(Held) <= Sent
  /\ Len(Held) = Sent => Genuine(Held) /\ (pos > 0 => linked)

-----------------------------------------------------------------------------
\* The time after which a silence must be known is a number.
LEMMA NoticeTimeIsNat == NoticeTime \in Nat
BY RemoteAssumption DEF NoticeTime

IInv == TypeOK /\ Timing /\ OneFrame

\* What TypeOK and OneFrame say of the two sequences.
LEMMA BoardSequences ==
  ASSUME TypeOK, OneFrame
  PROVE  /\ uart \in Seq(Bytes) /\ Len(uart) \in Nat
         /\ rxBuffer \in Seq(Bytes) /\ Len(rxBuffer) \in Nat
         /\ Held \in Seq(Bytes) /\ Len(Held) = Len(rxBuffer) + Len(uart)
         /\ Len(Held) <= BufLen
<1>1. uart \in Seq(Bytes) /\ rxBuffer \in Seq(Bytes)
  BY DEF TypeOK, Bytes
<1>2. /\ Len(uart) \in Nat /\ Len(rxBuffer) \in Nat
      /\ Held \in Seq(Bytes) /\ Len(Held) = Len(rxBuffer) + Len(uart)
  BY <1>1, ConcatProperties, LenProperties DEF Held
<1>3. Sent <= BufLen /\ Sent \in Nat
  BY RemoteAssumption DEF TypeOK, Sent
<1> QED  BY <1>1, <1>2, <1>3, RemoteAssumption DEF OneFrame

\* The packet never lacks fewer bytes than the queue holds: the loop takes all of
\* them and drops none.
LEMMA LoopTakesAll ==
  ASSUME TypeOK, OneFrame, ReadLoop
  PROVE  /\ rxBuffer' = Held /\ uart' = <<>>
         /\ age' = IF uart = <<>> THEN age ELSE 0
<1> DEFINE taken == IF Len(uart) < Lacking THEN Len(uart) ELSE Lacking
<1>1. uart \in Seq(Bytes) /\ rxBuffer \in Seq(Bytes)
  BY BoardSequences
<1>2. taken = Len(uart) /\ Len(uart) \in Nat
  BY BoardSequences, RemoteAssumption DEF Lacking
<1> HIDE DEF taken
<1>3. /\ rxBuffer' = rxBuffer \o SubSeq(uart, 1, Len(uart))
      /\ uart' = SubSeq(uart, IF Len(uart) = Lacking THEN Len(uart) + 2 ELSE Len(uart) + 1,
                        Len(uart))
      /\ age' = IF Len(uart) > 0 THEN 0 ELSE age
  <2>1. /\ rxBuffer' = rxBuffer \o SubSeq(uart, 1, taken)
        /\ uart' = SubSeq(uart, IF taken = Lacking THEN taken + 2 ELSE taken + 1, Len(uart))
        /\ age' = IF taken > 0 THEN 0 ELSE age
    BY Zenon DEF ReadLoop, taken
  <2> QED  BY <2>1, <1>2
<1>4. SubSeq(uart, 1, Len(uart)) = uart
  BY <1>1, <1>2
<1>5. \A n \in Nat : n > Len(uart) => SubSeq(uart, n, Len(uart)) = <<>>
  BY <1>1, <1>2
<1>6. Len(uart) > 0 <=> uart # <<>>
  BY <1>1, <1>2
<1>7. rxBuffer' = Held
  BY <1>3, <1>4 DEF Held
<1>8. uart' = <<>>
  <2>1. (IF Len(uart) = Lacking THEN Len(uart) + 2 ELSE Len(uart) + 1) \in Nat
    BY <1>2
  <2>2. (IF Len(uart) = Lacking THEN Len(uart) + 2 ELSE Len(uart) + 1) > Len(uart)
    BY <1>2
  <2> QED  BY <1>3, <1>5, <2>1, <2>2
<1>9. age' = IF uart = <<>> THEN age ELSE 0
  BY <1>3, <1>6
<1> QED  BY <1>7, <1>8, <1>9

-----------------------------------------------------------------------------
\* The type invariant by kinds: each kind needs a prover of its own.
Flags == on \in BOOLEAN /\ linked \in BOOLEAN /\ connected \in BOOLEAN

Queues == uart \in Seq(Bytes) /\ rxBuffer \in Seq(Bytes)

Counters ==
  /\ pos \in 0 .. BufLen - 1
  /\ pause \in 0 .. FrameGap
  /\ phase \in {"idle", "loop", "check"}
  /\ mapped \in {"nothing", "whole", "torn"}
  /\ age \in 0 .. DisconnectTimeout + 1
  /\ stall \in 0 .. MaxStall
  /\ quiet \in 0 .. NoticeTime + 1

\* The type invariant in three parts, proved apart.
LEMMA TypesByKind == TypeOK <=> Flags /\ Queues /\ Counters
BY DEF TypeOK, Flags, Queues, Counters, Bytes

\* Every step keeps the flags' types.
LEMMA StepKeepsFlags == Flags /\ [Next]_vars => Flags'
<1> SUFFICES ASSUME Flags, [Next]_vars  PROVE Flags'
  OBVIOUS
<1> USE DEF Flags, line, board, vars
<1>1. CASE Deliver
  BY <1>1, Zenon DEF Deliver, SendByte
<1>2. CASE Lose
  BY <1>2, Zenon DEF Lose, SendByte
<1>3. CASE Switch
  BY <1>3, Zenon DEF Switch
<1>4. CASE BeginRead
  BY <1>4, Zenon DEF BeginRead
<1>5. CASE ReadLoop
  BY <1>5, Zenon DEF ReadLoop
<1>6. CASE FinishRead
  BY <1>6, Zenon DEF FinishRead
<1>7. CASE Tick
  BY <1>7, Zenon DEF Tick
<1>8. CASE UNCHANGED vars
  BY <1>8, Zenon
<1> QED  BY <1>1, <1>2, <1>3, <1>4, <1>5, <1>6, <1>7, <1>8 DEF Next

\* Every step keeps the two queues of bytes.
LEMMA StepKeepsQueues ==
  ASSUME TypeOK, OneFrame, [Next]_vars
  PROVE  Queues'
<1>0. Queues
  BY TypesByKind
<1> USE DEF Queues, line, board, vars
<1>0a. <<>> \in Seq(Bytes)
  OBVIOUS
<1>1. CASE Deliver
  <2>1. PICK byte \in Bytes : uart' = Append(uart, byte)
    <3>1. uart' = Append(uart, IF pos = 0 THEN "first" ELSE IF linked THEN "next" ELSE "gap")
      BY <1>1 DEF Deliver
    <3> QED  BY <3>1 DEF Bytes
  <2>2. uart' \in Seq(Bytes)
    BY <1>0, <2>1
  <2> QED  BY <1>0, <1>1, <2>2, Zenon DEF Deliver
<1>2. CASE Lose
  BY <1>0, <1>2, Zenon DEF Lose
<1>3. CASE Switch
  BY <1>0, <1>3, Zenon DEF Switch
<1>4. CASE BeginRead
  BY <1>0, <1>0a, <1>4, Zenon DEF BeginRead, clearRxBuffer
<1>5. CASE ReadLoop
  BY <1>0a, <1>5, LoopTakesAll, BoardSequences
<1>6. CASE FinishRead
  BY <1>0, <1>0a, <1>6, Zenon DEF FinishRead, clearRxBuffer
<1>7. CASE Tick
  BY <1>0, <1>7, Zenon DEF Tick
<1>8. CASE UNCHANGED vars
  BY <1>0, <1>8, Zenon
<1> QED  BY <1>1, <1>2, <1>3, <1>4, <1>5, <1>6, <1>7, <1>8 DEF Next

\* Every step keeps the clocks in their ranges.
LEMMA StepKeepsCounters == Counters /\ [Next]_vars => Counters'
<1> SUFFICES ASSUME Counters, [Next]_vars  PROVE Counters'
  OBVIOUS
<1> USE RemoteAssumption, NoticeTimeIsNat DEF Counters, line, board
<1>1. CASE Deliver
  BY <1>1 DEF Deliver, SendByte
<1>2. CASE Lose
  BY <1>2 DEF Lose, SendByte
<1>3. CASE Switch
  BY <1>3 DEF Switch
<1>4. CASE BeginRead
  BY <1>4 DEF BeginRead
<1>5. CASE ReadLoop
  BY <1>5 DEF ReadLoop
<1>6. CASE FinishRead
  BY <1>6 DEF FinishRead
<1>7. CASE Tick
  <2>1. /\ UpTo(FrameGap, pause) \in 0 .. FrameGap
        /\ UpTo(DisconnectTimeout + 1, age) \in 0 .. DisconnectTimeout + 1
        /\ UpTo(NoticeTime + 1, quiet) \in 0 .. NoticeTime + 1
    BY DEF UpTo
  <2> QED  BY <1>7, <2>1 DEF Tick
<1>8. CASE UNCHANGED vars
  BY <1>8 DEF vars
<1> QED  BY <1>1, <1>2, <1>3, <1>4, <1>5, <1>6, <1>7, <1>8 DEF Next

\* Every step keeps the types.
LEMMA StepKeepsTypes ==
  ASSUME TypeOK, OneFrame, [Next]_vars
  PROVE  TypeOK'
<1>1. Flags' /\ Queues' /\ Counters'
  BY TypesByKind, StepKeepsFlags, StepKeepsQueues, StepKeepsCounters
<1>2. Flags' /\ Queues' /\ Counters' => TypeOK'
  BY DEF TypeOK, Flags, Queues, Counters, Bytes
<1> QED  BY <1>1, <1>2

-----------------------------------------------------------------------------
\* Every step keeps what the clocks say of the bytes held.
LEMMA StepKeepsTiming ==
  ASSUME TypeOK, Timing, OneFrame, [Next]_vars
  PROVE  Timing'
<1>0. Counters
  BY TypesByKind
<1> USE RemoteAssumption
        DEF Timing, CallsAreShort, QueueIsFresh, LastReadIsFresh, PacketIsFresh,
            ConnectionIsFresh, QuietIsSilent, Counters
<1>1. CASE Deliver
  BY <1>0, <1>1 DEF Deliver, SendByte
<1>2. CASE Lose
  BY <1>0, <1>2 DEF Lose, SendByte, board
<1>3. CASE Switch
  BY <1>0, <1>3 DEF Switch, board
<1>4. CASE BeginRead
  BY <1>0, <1>4 DEF BeginRead, clearRxBuffer, line
<1>5. CASE ReadLoop
  <2>1. /\ uart' = <<>>
        /\ rxBuffer' = Held
        /\ age' = IF uart = <<>> THEN age ELSE 0
        /\ uart = <<>> => rxBuffer' = rxBuffer
    BY <1>0, <1>5, LoopTakesAll, BoardSequences DEF Held
  <2>2. phase = "loop" /\ phase' = "check" /\ UNCHANGED <<line, connected, mapped, stall, quiet>>
    BY <1>0, <1>5 DEF ReadLoop
  <2> QED  BY <1>0, <2>1, <2>2 DEF line
<1>6. CASE FinishRead
  BY <1>0, <1>6 DEF FinishRead, clearRxBuffer, line
<1>7. CASE Tick
  <2>1. /\ pause' \in Nat /\ pause' <= pause + 1 /\ pause' <= FrameGap
        /\ age' = IF age = DisconnectTimeout + 1 THEN age ELSE age + 1
        /\ quiet' = IF quiet = NoticeTime + 1 THEN quiet ELSE quiet + 1
    BY <1>0, <1>7, NoticeTimeIsNat DEF Tick, UpTo
  <2>2. NoticeTime > FrameGap /\ NoticeTime \in Nat
    BY DEF NoticeTime
  <2>3. /\ stall' = stall + 1
        /\ phase # "idle" => stall = 0
        /\ UNCHANGED <<on, pos, linked, uart, rxBuffer, phase, connected, mapped>>
    BY <1>0, <1>7 DEF Tick
  <2>4. CallsAreShort' /\ QueueIsFresh' /\ QuietIsSilent'
    <3>1. CallsAreShort'
      BY <1>0, <2>3
    <3>2. QueueIsFresh'
      BY <1>0, <2>1, <2>3
    <3>3. QuietIsSilent'
      BY <1>0, <2>1, <2>2
    <3> QED  BY <3>1, <3>2, <3>3
  <2>5. LastReadIsFresh'
    BY <1>0, <2>1, <2>2, <2>3
  <2>6. PacketIsFresh'
    BY <1>0, <2>1, <2>2, <2>3
  <2>7. ConnectionIsFresh'
    BY <1>0, <2>1, <2>2, <2>3
  <2> QED  BY <2>4, <2>5, <2>6, <2>7
<1>8. CASE UNCHANGED vars
  BY <1>0, <1>8 DEF vars, line, board
<1> QED  BY <1>1, <1>2, <1>3, <1>4, <1>5, <1>6, <1>7, <1>8 DEF Next

\* The silence between two frames is long enough for the board to discard what
\* it has of the first one.
LEMMA SilenceEmpties ==
  ASSUME TypeOK, Timing, pause = FrameGap
  PROVE  uart = <<>> /\ rxBuffer = <<>>
<1>0. Counters
  BY TypesByKind
<1> USE RemoteAssumption
        DEF Timing, CallsAreShort, QueueIsFresh, LastReadIsFresh, PacketIsFresh,
            QuietIsSilent, Counters
<1>1. quiet >= FrameGap
  BY <1>0
<1>2. uart = <<>>
  BY <1>0, <1>1
<1>3. rxBuffer = <<>>
  BY <1>0, <1>1
<1> QED  BY <1>2, <1>3

-----------------------------------------------------------------------------
\* Where a byte goes: behind all the board holds.
LEMMA HeldGrows ==
  ASSUME TypeOK, OneFrame, Deliver
  PROVE  Held' = Append(Held, IF pos = 0 THEN "first" ELSE IF linked THEN "next" ELSE "gap")
<1>1. PICK byte \in Bytes :
        /\ byte = IF pos = 0 THEN "first" ELSE IF linked THEN "next" ELSE "gap"
        /\ uart' = Append(uart, byte) /\ rxBuffer' = rxBuffer
  BY DEF Deliver, Bytes
<1>2. rxBuffer \o Append(uart, byte) = Append(rxBuffer \o uart, byte)
  BY BoardSequences
<1> QED  BY <1>1, <1>2 DEF Held

\* Every step keeps the bytes held within one frame.
LEMMA StepKeepsOneFrame ==
  ASSUME TypeOK, Timing, OneFrame, [Next]_vars
  PROVE  OneFrame'
<1>0. Counters
  BY TypesByKind
<1>0a. Sent \in 1 .. BufLen
  BY <1>0, RemoteAssumption DEF Sent, Counters
<1> USE RemoteAssumption DEF line, board, vars
<1>1. CASE Deliver
  <2>1. Held \in Seq(Bytes) /\ Len(Held) \in Nat /\ Len(Held) <= Sent
    BY BoardSequences DEF OneFrame
  <2>2. Len(Held') = Len(Held) + 1
    BY <1>1, <2>1, HeldGrows DEF Bytes
  <2>3. CASE pos = 0
    <3>1. Held = <<>>
      BY <1>1, <2>3, SilenceEmpties DEF Deliver, SendByte, Held
    <3>2. Held' = <<"first">>
      BY <1>1, <2>3, <3>1, HeldGrows
    <3>3. Sent' = 1 /\ linked'
      BY <1>1, <2>3 DEF Deliver, SendByte, Sent
    <3> QED  BY <3>2, <3>3 DEF OneFrame, Genuine
  <2>4. CASE pos > 0
    <3>1. Sent' = pos + 1 /\ Sent = pos /\ linked'
      BY <1>0, <1>1, <2>4 DEF Deliver, SendByte, Sent, Counters
    <3>2. ASSUME Len(Held') = Sent'  PROVE Genuine(Held')
      <4>1. Len(Held) = Sent /\ Len(Held) > 0
        BY <1>0, <2>1, <2>2, <2>4, <3>1, <3>2 DEF Counters
      <4>2. Genuine(Held) /\ linked
        BY <2>4, <4>1 DEF OneFrame
      <4>3. Held' = Append(Held, "next")
        BY <1>1, <2>4, <4>2, HeldGrows
      <4> QED  BY <2>1, <4>1, <4>2, <4>3 DEF Genuine, Bytes
    <3> QED  BY <1>0, <2>1, <2>2, <3>1, <3>2 DEF OneFrame, Counters
  <2> QED  BY <1>0, <2>3, <2>4 DEF Counters
<1>2. CASE Lose
  <2>1. Held' = Held
    BY <1>2, Zenon DEF Lose, Held
  <2>2. CASE pos = 0
    <3>1. Len(Held) = 0
      BY <1>2, <2>2, SilenceEmpties DEF Lose, SendByte, Held
    <3> QED  BY <1>2, <2>1, <2>2, <3>1 DEF Lose, SendByte, Sent, OneFrame
  <2>3. CASE pos > 0
    <3>1. Sent' = Sent + 1
      BY <1>0, <1>2, <2>3 DEF Lose, SendByte, Sent, Counters
    <3> QED  BY <1>0a, <2>1, <3>1, BoardSequences DEF OneFrame
  <2> QED  BY <1>0, <2>2, <2>3 DEF Counters
<1>3. CASE Switch
  <2>1. Held' = Held /\ pos' = 0 /\ Sent' = BufLen
    BY <1>3, Zenon DEF Switch, Held, Sent
  <2>2. Len(Held') = Sent' => Genuine(Held')
    BY <1>0, <1>0a, <2>1, BoardSequences DEF OneFrame, Sent, Counters
  <2>3. Len(Held') <= Sent'
    BY <1>0a, <2>1, BoardSequences
  <2> QED  BY <2>1, <2>2, <2>3 DEF OneFrame
\* A discard leaves nothing.
<1>4. ASSUME clearRxBuffer, UNCHANGED line  PROVE OneFrame'
  <2>1. Len(Held') = 0
    BY <1>4 DEF clearRxBuffer, Held
  <2>2. Sent' = Sent
    BY <1>4 DEF Sent
  <2> QED  BY <1>0a, <2>1, <2>2 DEF OneFrame
\* Nothing else of read() touches the bytes, but to move them.
<1>5. ASSUME Held' = Held, UNCHANGED <<pos, linked>>  PROVE OneFrame'
  <2>1. Sent' = Sent
    BY <1>5 DEF Sent
  <2> QED  BY <1>5, <2>1 DEF OneFrame
<1>6. CASE BeginRead
  <2>1. CASE age > DisconnectTimeout
    BY <1>4, <1>6, <2>1, Zenon DEF BeginRead
  <2>2. CASE ~(age > DisconnectTimeout)
    BY <1>5, <1>6, <2>2, Zenon DEF BeginRead, Held
  <2> QED  BY <2>1, <2>2
<1>7. CASE ReadLoop
  <2>1. rxBuffer' = Held /\ uart' = <<>> /\ Held \in Seq(Bytes)
    BY <1>7, LoopTakesAll, BoardSequences
  <2>2. Held' = Held
    BY <2>1 DEF Held
  <2> QED  BY <1>5, <1>7, <2>2, Zenon DEF ReadLoop
<1>8. CASE FinishRead
  <2>1. UNCHANGED line
    BY <1>8 DEF FinishRead
  <2>2. clearRxBuffer \/ UNCHANGED <<rxBuffer, uart>>
    BY <1>8 DEF FinishRead
  <2> QED  BY <1>4, <1>5, <2>1, <2>2, Zenon DEF Held
<1>9. CASE Tick
  BY <1>5, <1>9, Zenon DEF Tick, Held
<1>10. CASE UNCHANGED vars
  BY <1>5, <1>10, Zenon DEF Held
<1> QED  BY <1>1, <1>2, <1>3, <1>6, <1>7, <1>8, <1>9, <1>10 DEF Next

-----------------------------------------------------------------------------
\* Types, timing and the single frame hold in every reachable state.
THEOREM Invariance == Spec => []IInv
<1>1. Init => IInv
  <2> SUFFICES ASSUME Init  PROVE IInv
    OBVIOUS
  <2> USE RemoteAssumption
  <2>1. Flags
    BY DEF Init, Flags
  <2>2. Queues
    BY DEF Init, Queues
  <2>3. Counters
    BY NoticeTimeIsNat DEF Init, Counters
  <2>4. Timing
    BY DEF Init, Timing, CallsAreShort, QueueIsFresh, LastReadIsFresh, PacketIsFresh,
           ConnectionIsFresh, QuietIsSilent
  <2>5. Len(Held) = 0 /\ Sent \in Nat \ {0}
    BY DEF Init, Held, Sent
  <2> QED  BY <2>1, <2>2, <2>3, <2>4, <2>5, TypesByKind DEF IInv, OneFrame
<1>2. IInv /\ [Next]_vars => IInv'
  BY StepKeepsTypes, StepKeepsTiming, StepKeepsOneFrame DEF IInv
<1> QED  BY <1>1, <1>2, PTL DEF Spec

\* Every variable keeps its type.
THEOREM TypeCorrectness == Spec => []TypeOK
<1>1. IInv => TypeOK
  BY DEF IInv
<1> QED  BY <1>1, Invariance, PTL

\* Nothing but a frame the transmitter sent ever reaches the command mapper: when
\* the packet is full, it holds all bytes of the frame, which are the frame.
THEOREM WholeFramesHolds == Spec => []WholeFrames
<1>1. Init => WholeFrames
  BY DEF Init, WholeFrames
<1>2. IInv /\ WholeFrames /\ [Next]_vars => WholeFrames'
  <2> SUFFICES ASSUME IInv, WholeFrames, [Next]_vars  PROVE mapped' # "torn"
    BY DEF WholeFrames
  <2>1. CASE FinishRead /\ Len(rxBuffer) >= BufLen
    <3>1. TypeOK /\ OneFrame
      BY DEF IInv
    <3>2. Len(rxBuffer) = BufLen /\ Len(uart) = 0 /\ Len(Held) = BufLen
      BY <2>1, <3>1, BoardSequences, RemoteAssumption
    <3>3. Held = rxBuffer
      BY <3>1, <3>2, BoardSequences DEF Held
    <3>4. Len(Held) = Sent
      BY <3>1, <3>2, RemoteAssumption DEF OneFrame, Sent, TypeOK
    <3>5. Genuine(rxBuffer)
      BY <3>1, <3>3, <3>4 DEF OneFrame
    <3> QED  BY <2>1, <3>5 DEF FinishRead, WholeFrames
  <2>2. CASE FinishRead /\ ~(Len(rxBuffer) >= BufLen)
    BY <2>2 DEF FinishRead, WholeFrames
  <2>3. CASE ~FinishRead
    BY <2>3 DEF Next, vars, board, line, Deliver, Lose, Switch, BeginRead, ReadLoop, Tick,
                WholeFrames
  <2> QED  BY <2>1, <2>2, <2>3
<1> QED  BY <1>1, <1>2, Invariance, PTL DEF Spec

\* A remote from which nothing has come for the disconnect timeout and two calls of
\* read() is disconnected, and the mapper was told.
THEOREM SilenceIsNoticedHolds == Spec => []SilenceIsNoticed
<1>1. IInv => SilenceIsNoticed
  <2> SUFFICES ASSUME IInv, quiet > NoticeTime  PROVE ~connected /\ mapped = "nothing"
    BY DEF SilenceIsNoticed
  <2>1. age > DisconnectTimeout
    BY RemoteAssumption DEF IInv, TypeOK, Timing, LastReadIsFresh, NoticeTime
  <2>2. ~(quiet <= DisconnectTimeout + MaxStall + 1 + stall)
    BY RemoteAssumption DEF IInv, TypeOK, NoticeTime
  <2> QED  BY <2>1, <2>2 DEF IInv, Timing, ConnectionIsFresh
<1> QED  BY <1>1, Invariance, PTL
=============================================================================
