----------------------------- MODULE RemoteUart -----------------------------
(***************************************************************************)
(* The receiver of the remote control: Remote (tap/communication/serial)   *)
(* and the serial line behind it.  The transmitter sends frames of BufLen  *)
(* bytes without any mark of where one begins: the board finds the frames  *)
(* by the silence between them, and hands the bytes it counted to the      *)
(* command mapper.  Bytes may be lost, the transmitter may be switched off *)
(* at any byte, and bytes arrive by interrupt, also inside read().         *)
(*                                                                         *)
(* A byte is kept as the place it has in its frame: the "first" one, the   *)
(* "next" one after the byte received before it, or the one behind a "gap" *)
(* of lost bytes.  Time is counted in ticks.                               *)
(***************************************************************************)
EXTENDS Integers, Sequences

CONSTANTS
  BufLen,             \* REMOTE_BUF_LEN, bytes of a frame
  ReadTimeout,        \* REMOTE_READ_TIMEOUT
  DisconnectTimeout,  \* REMOTE_DISCONNECT_TIMEOUT
  FrameGap,           \* the silence between two frames
  MaxStall            \* no two calls of read() begin further apart

ASSUME RemoteAssumption ==
  /\ BufLen \in Nat \ {0} /\ ReadTimeout \in Nat /\ DisconnectTimeout \in Nat
  /\ FrameGap \in Nat /\ MaxStall \in Nat \ {0}
  \* A pause inside a frame is no silence, the one between two frames is long
  \* enough to be noticed, and the remote is not given up in it.
  /\ ReadTimeout >= 2
  /\ FrameGap > ReadTimeout + 2 * (MaxStall + 1)
  /\ DisconnectTimeout > FrameGap + 2 * (MaxStall + 1)

VARIABLES
  on,         \* the transmitter is switched on
  pos,        \* how many bytes of its current frame it has sent
  pause,      \* ticks since its last byte, up to FrameGap
  linked,     \* the byte sent before was received
  uart,       \* the receive queue of the UART
  rxBuffer,   \* the bytes of the packet read so far
  phase,      \* "idle", or inside read(): before its "loop", or behind it, at the "check"
  connected,
  mapped,     \* what the mapper was given last: "nothing", a "whole" frame or a "torn" one
  age,        \* ticks since lastRead, up to DisconnectTimeout + 1
  stall,      \* ticks since the last call of read()
  quiet       \* ticks since a byte was received, up to NoticeTime + 1

line  == <<on, pos, pause, linked>>
board == <<uart, rxBuffer, phase, connected, mapped, age, stall>>
vars  == <<line, board, quiet>>

NoticeTime == DisconnectTimeout + 2 * (MaxStall + 1)

\* The bytes are one frame from its first byte on.
Genuine(packet) ==
  /\ packet[1] = "first"
  /\ \A i \in 2 .. Len(packet) : packet[i] = "next"

-----------------------------------------------------------------------------
\* The board starts between any two bytes of the transmitter.
Init ==
  /\ on \in BOOLEAN
  /\ pos \in 0 .. BufLen - 1
  /\ on \/ pos = 0
  /\ pause = 0
  /\ linked = FALSE
  /\ uart = <<>>
  /\ rxBuffer = <<>>
  /\ phase = "idle"
  /\ connected = FALSE
  /\ mapped = "nothing"
  /\ age = 0
  /\ stall = 0
  /\ quiet = 0

\* The transmitter sends the next byte; a frame begins after the silence.
SendByte ==
  /\ on
  /\ pos = 0 => pause = FrameGap
  /\ pos' = IF pos + 1 = BufLen THEN 0 ELSE pos + 1
  /\ pause' = 0
  /\ UNCHANGED on

\* The interrupt handler of the UART queues it.
Deliver ==
  /\ SendByte
  /\ uart' = Append(uart, IF pos = 0 THEN "first" ELSE IF linked THEN "next" ELSE "gap")
  /\ linked' = TRUE
  /\ quiet' = 0
  /\ UNCHANGED <<rxBuffer, phase, connected, mapped, age, stall>>

\* It is lost.
Lose ==
  /\ SendByte
  /\ linked' = FALSE
  /\ UNCHANGED <<board, quiet>>

\* The transmitter is switched on, or off at any byte.
Switch ==
  /\ on' = ~on
  /\ pos' = 0
  /\ linked' = FALSE
  /\ UNCHANGED <<pause, board, quiet>>

clearRxBuffer == rxBuffer' = <<>> /\ uart' = <<>>

\* Faulty form (mutant): the remote is given up, but the mapper is not told.
BeginReadUntold ==
  /\ phase = "idle"
  /\ phase' = "loop"
  /\ stall' = 0
  /\ IF age > DisconnectTimeout
     THEN connected' = FALSE /\ clearRxBuffer /\ UNCHANGED mapped
     ELSE UNCHANGED <<connected, mapped, rxBuffer, uart>>
  /\ UNCHANGED <<line, age, quiet>>

\* read(): a silence longer than the disconnect timeout resets the remote and
\* tells the mapper that nothing is pressed. lastRead stays as it is, so that
\* every further call discards the queue again before it reads.
BeginRead ==
  /\ phase = "idle"
  /\ phase' = "loop"
  /\ stall' = 0
  /\ IF age > DisconnectTimeout
     THEN connected' = FALSE /\ mapped' = "nothing" /\ clearRxBuffer
     ELSE UNCHANGED <<connected, mapped, rxBuffer, uart>>
  /\ UNCHANGED <<line, age, quiet>>

Lacking == BufLen - Len(rxBuffer)

\* The loop of read(): it takes as many bytes as the packet lacks, and one more,
\* which it drops, to find that it lacks none.
ReadLoop ==
  LET taken == IF Len(uart) < Lacking THEN Len(uart) ELSE Lacking
  IN  /\ phase = "loop"
      /\ phase' = "check"
      /\ rxBuffer' = rxBuffer \o SubSeq(uart, 1, taken)
      /\ uart' = SubSeq(uart, IF taken = Lacking THEN taken + 2 ELSE taken + 1, Len(uart))
      /\ age' = IF taken > 0 THEN 0 ELSE age
      /\ UNCHANGED <<line, connected, mapped, stall, quiet>>

\* Faulty forms (mutants): only the length decides, and a silence discards nothing;
\* a packet must be longer than the buffer.
FinishReadByLength ==
  /\ phase = "check"
  /\ phase' = "idle"
  /\ IF Len(rxBuffer) >= BufLen
     THEN /\ connected' = TRUE
          /\ mapped' = IF Genuine(rxBuffer) THEN "whole" ELSE "torn"
          /\ clearRxBuffer
     ELSE UNCHANGED <<rxBuffer, uart, connected, mapped>>
  /\ UNCHANGED <<line, age, stall, quiet>>

FinishReadNeverFull ==
  /\ phase = "check"
  /\ phase' = "idle"
  /\ IF age > ReadTimeout \/ Len(rxBuffer) > BufLen
     THEN clearRxBuffer ELSE UNCHANGED <<rxBuffer, uart>>
  /\ UNCHANGED <<line, connected, mapped, age, stall, quiet>>

\* read() behind its loop: a silence longer than the read timeout discards what
\* was read and what is in the queue; a full packet is parsed, and the same is
\* discarded.
FinishRead ==
  /\ phase = "check"
  /\ phase' = "idle"
  /\ \/ /\ age > ReadTimeout
        /\ clearRxBuffer
        /\ UNCHANGED <<connected, mapped>>
     \/ /\ age <= ReadTimeout
        /\ Len(rxBuffer) >= BufLen
        /\ connected' = TRUE
        /\ mapped' = IF Genuine(rxBuffer) THEN "whole" ELSE "torn"
        /\ clearRxBuffer
     \/ /\ age <= ReadTimeout
        /\ Len(rxBuffer) < BufLen
        /\ UNCHANGED <<rxBuffer, uart, connected, mapped>>
  /\ UNCHANGED <<line, age, stall, quiet>>

UpTo(limit, n) == IF n < limit THEN n + 1 ELSE limit

\* A tick. Inside a frame at most one passes between two bytes, between two
\* frames FrameGap, MaxStall between two calls of read() and one inside a call.
Tick ==
  /\ on => IF pos > 0 THEN pause < 1 ELSE pause < FrameGap
  /\ stall < IF phase = "idle" THEN MaxStall ELSE 1
  /\ pause' = UpTo(FrameGap, pause)
  /\ age' = UpTo(DisconnectTimeout + 1, age)
  /\ quiet' = UpTo(NoticeTime + 1, quiet)
  /\ stall' = stall + 1
  /\ UNCHANGED <<on, pos, linked, uart, rxBuffer, phase, connected, mapped>>

Next == Deliver \/ Lose \/ Switch \/ BeginRead \/ ReadLoop \/ FinishRead \/ Tick

\* The main loop calls read() again and again, time passes, and a transmitter
\* that is switched on sends.
Spec ==
  /\ Init /\ [][Next]_vars
  /\ WF_vars(BeginRead) /\ WF_vars(ReadLoop) /\ WF_vars(FinishRead)
  /\ WF_vars(Tick) /\ WF_vars(Deliver)

-----------------------------------------------------------------------------
TypeOK ==
  /\ on \in BOOLEAN
  /\ pos \in 0 .. BufLen - 1
  /\ pause \in 0 .. FrameGap
  /\ linked \in BOOLEAN
  /\ uart \in Seq({"first", "next", "gap"})
  /\ rxBuffer \in Seq({"first", "next", "gap"})
  /\ phase \in {"idle", "loop", "check"}
  /\ connected \in BOOLEAN
  /\ mapped \in {"nothing", "whole", "torn"}
  /\ age \in 0 .. DisconnectTimeout + 1
  /\ stall \in 0 .. MaxStall
  /\ quiet \in 0 .. NoticeTime + 1

\* Nothing but a frame the transmitter sent ever reaches the command mapper,
\* whichever bytes are lost and wherever the board starts to listen: a packet is
\* never put together from two frames, although nothing in a frame says where it
\* begins.
WholeFrames == mapped # "torn"

\* A silent remote is noticed: when no byte has arrived for the disconnect
\* timeout and two calls of read(), the remote is not connected and the mapper has
\* been told that nothing is pressed.
SilenceIsNoticed == quiet > NoticeTime => ~connected /\ mapped = "nothing"

\* A byte that arrived after the loop is discarded at the end of read().
Discarded == FinishRead /\ uart # <<>> /\ uart' = <<>>

\* A byte arrives in the only place where a remote that was given up reads one:
\* between the discard of reset() and the loop.
HeardAgain == Deliver /\ phase = "loop"

\* A remote that stays switched on is connected for good and its frames reach the
\* mapper, unless bytes are lost again and again, on the line or to a discard
\* that comes between their arrival and the loop; a remote that was given up
\* needs a byte that arrives while it is being reset.
Reconnects ==
  \/ []<><<Lose \/ Switch \/ Discarded>>_vars
  \/ <>[](~on)
  \/ []<>(age > DisconnectTimeout) /\ <>[][~HeardAgain]_vars
  \/ <>[](connected /\ mapped = "whole")
=============================================================================
