----------------------------- MODULE JetsonLink -----------------------------
(***************************************************************************)
(* The serial link from the vision computer (the Jetson) to the board:     *)
(* JetsonCommunicator (informants side, communicators/jetson).  The Jetson *)
(* sends messages of Size bytes, the first of which is the magic byte; the *)
(* board reads one byte per call of updateSerial, looks for the magic byte *)
(* and takes the Size - 1 bytes behind it for the rest of the message.     *)
(*                                                                         *)
(* A payload byte may equal the magic byte, bytes may be lost, and either  *)
(* side may start in the middle of a message of the other.  The receive    *)
(* buffer of the UART only delays bytes and is left out: a byte it has no  *)
(* room for is a lost byte.  Of a message's contents the model keeps       *)
(* whether they contain the magic byte, and whether the bytes the board    *)
(* took for a message were one.                                            *)
(***************************************************************************)
EXTENDS Integers, Timeouts

CONSTANTS
  Size,         \* JETSON_MESSAGE_SIZE
  OfflineTime   \* JETSON_OFFLINE_TIMEOUT_MILLISECONDS, in units of time

ASSUME JetsonAssumption == Size \in Nat /\ Size > 1 /\ OfflineTime \in Nat

VARIABLES
  pos,            \* how many bytes of its current message the Jetson has sent
  clean,          \* no payload byte of that message, or at 0 of the last one, is the magic byte
  harmed,         \* a byte of that message was not read, or it was cut short
  nextByteIndex,  \* how many bytes of a message the board has assembled
  whole,          \* they are the bytes sent so far of the current message
  lastMessage,    \* what the board last took for a message: "none", "whole" or "torn"
  offline         \* jetsonOfflineTimeout

jetson == <<pos, clean, harmed>>
board  == <<nextByteIndex, whole, lastMessage, offline>>
vars   == <<jetson, board>>

isJetsonOnline == ~IsExpired(offline)

\* The place of the byte after byte n of a message.
Following(n) == IF n + 1 = Size THEN 0 ELSE n + 1

-----------------------------------------------------------------------------
\* The board starts, and with it the timeout, in the middle of any message.
Init ==
  /\ pos \in 0 .. Size - 1
  /\ clean = FALSE
  /\ harmed = TRUE
  /\ nextByteIndex = 0
  /\ whole = FALSE
  /\ lastMessage = "none"
  /\ offline = Restart(OfflineTime)

\* The Jetson sends its next byte. Every message starts with the magic byte.
SendByte(isMagic, lost) ==
  /\ pos = 0 => isMagic
  /\ pos' = Following(pos)
  /\ clean' = (pos = 0 \/ (clean /\ ~isMagic))
  /\ harmed' = (lost \/ (pos > 0 /\ harmed))

\* Faulty form (mutant): any byte starts a message.
SearchForAnything(isMagic) ==
  nextByteIndex' = 1 /\ whole' = (pos = 0) /\ UNCHANGED lastMessage

\* updateSerial with no message started: the magic byte starts one.
SearchForMagic(isMagic) ==
  /\ nextByteIndex' = IF isMagic THEN 1 ELSE 0
  /\ whole' = (pos = 0)
  /\ UNCHANGED lastMessage

\* Faulty form (mutant): the state is not set back to SearchingForMagic, so that the
\* next byte counts as the second one of a message.
AssembleOnAndOn ==
  /\ nextByteIndex' = IF nextByteIndex + 1 # Size THEN nextByteIndex + 1 ELSE 1
  /\ whole' = (whole /\ nextByteIndex + 1 # Size)
  /\ lastMessage' = IF nextByteIndex + 1 # Size THEN lastMessage
                    ELSE IF whole THEN "whole" ELSE "torn"

\* updateSerial in a message: its last byte makes it the last message.
AssembleMessage ==
  /\ nextByteIndex' = Following(nextByteIndex)
  /\ whole' = (whole /\ nextByteIndex + 1 # Size)
  /\ lastMessage' = IF nextByteIndex + 1 # Size THEN lastMessage
                    ELSE IF whole THEN "whole" ELSE "torn"

\* Faulty form (mutant): a magic byte inside a message starts it again.
UpdateRestarts(isMagic) ==
  /\ offline' = Restart(OfflineTime)
  /\ IF isMagic \/ nextByteIndex = 0 THEN SearchForMagic(isMagic) ELSE AssembleMessage

\* updateSerial with a byte to read.
UpdateSerial(isMagic) ==
  /\ offline' = Restart(OfflineTime)
  /\ IF nextByteIndex = 0 THEN SearchForMagic(isMagic) ELSE AssembleMessage

\* A byte arrives.
Deliver ==
  \E isMagic \in BOOLEAN : SendByte(isMagic, FALSE) /\ UpdateSerial(isMagic)

\* A byte is lost on the line, or found no room in the receive buffer.
Lose ==
  /\ \E isMagic \in BOOLEAN : SendByte(isMagic, TRUE)
  /\ whole' = FALSE
  /\ UNCHANGED <<nextByteIndex, lastMessage, offline>>

\* The Jetson's program restarts: the rest of its message is never sent.
Cut ==
  /\ pos > 0
  /\ pos' = 0
  /\ harmed' = TRUE
  /\ whole' = FALSE
  /\ UNCHANGED <<clean, nextByteIndex, lastMessage, offline>>

\* The line is silent for a unit of time.
Tick ==
  /\ offline' = Elapse(offline)
  /\ UNCHANGED <<jetson, nextByteIndex, whole, lastMessage>>

Next == Deliver \/ Lose \/ Cut \/ Tick

\* The Jetson goes on sending.
Spec == Init /\ [][Next]_vars /\ WF_vars(Deliver)

-----------------------------------------------------------------------------
TypeOK ==
  /\ pos \in 0 .. Size - 1
  /\ clean \in BOOLEAN
  /\ harmed \in BOOLEAN
  /\ nextByteIndex \in 0 .. Size - 1
  /\ whole \in BOOLEAN
  /\ lastMessage \in {"none", "whole", "torn"}
  /\ offline \in Timers

\* The board's message starts where the Jetson's does.
Aligned == nextByteIndex = pos /\ (pos > 0 => whole)

\* A message without a second magic byte has just arrived with no byte missing.
CleanMessageArrived == pos = 0 /\ clean /\ ~harmed

\* Whatever the board had assembled before, lost bytes and messages it started
\* in the middle of included, a message that arrives complete and carries no
\* second magic byte leaves it searching for the magic byte exactly where the
\* next message starts.
CleanMessageAligns == CleanMessageArrived => Aligned

\* From then on every message is taken as it was sent, whatever bytes it
\* carries, until a byte is lost or the Jetson restarts: the magic byte inside a
\* message starts nothing, and at its last byte the message is the last one.
AlignedUntilFault ==
  [][Aligned /\ ~Lose /\ ~Cut =>
       /\ Aligned'
       /\ pos = Size - 1 /\ pos' = 0 => lastMessage' = "whole"]_vars

\* A link that has stopped losing bytes heals for good: if messages without a
\* second magic byte keep coming, from some time on the last message is a
\* message the Jetson sent.
Heals ==
  \/ []<><<Lose \/ Cut>>_vars
  \/ <>[]~CleanMessageArrived
  \/ <>[](lastMessage = "whole")

\* What the comment of updateSerial assumes: behind a valid magic number the
\* message is valid as well.
MessageIsValid == lastMessage # "torn"
=============================================================================
