-------------------------- MODULE JetsonLink_proofs --------------------------
(***************************************************************************)
(* For messages of any size: the link stays aligned from any message that  *)
(* arrives complete and carries no second magic byte.  The argument is the *)
(* distance between the places of the two sides in their messages: while a *)
(* clean message is arriving, the board is either still assembling what it *)
(* had begun before, and then it is at least as far in its message as the  *)
(* Jetson is, or it has finished and finds no magic byte to start from.    *)
(***************************************************************************)
EXTENDS JetsonLink, TLAPS

\* While a clean message arrives complete, the board does not lag behind it.
NotBehind ==
  pos > 0 /\ clean /\ ~harmed => nextByteIndex = 0 \/ nextByteIndex >= pos

\* What the board has assembled is the current message only if it is as far.
WholeIsCurrent == whole => nextByteIndex = pos

\* A board that is as far as a message that began when it searched has it whole.
NoLateStart == pos = 0 => nextByteIndex = 0 \/ ~clean \/ harmed

IInv == TypeOK /\ NotBehind /\ WholeIsCurrent /\ NoLateStart

\* A restarted timeout is a timer.
LEMMA RestartIsTimer ==
  ASSUME NEW t \in Nat
  PROVE  Restart(t) \in Timers
BY DEF Restart, Timers

\* So is one after a unit of time.
LEMMA ElapseIsTimer ==
  ASSUME NEW timer \in Timers
  PROVE  Elapse(timer) \in Timers
<1>1. timer.left \in Nat /\ timer.executed \in BOOLEAN
  BY DEF Timers
<1>2. (IF timer.left = 0 THEN 0 ELSE timer.left - 1) \in Nat
  BY <1>1
<1> QED  BY <1>1, <1>2 DEF Elapse, Timers

-----------------------------------------------------------------------------
\* The variables have their types: the board never writes past its buffer.
THEOREM TypeCorrectness == Spec => []TypeOK
<1>1. Init => TypeOK
  <2>1. Init => clean \in BOOLEAN /\ harmed \in BOOLEAN /\ whole \in BOOLEAN
    BY DEF Init
  <2> QED  BY <2>1, JetsonAssumption, RestartIsTimer DEF Init, TypeOK
<1>2. TypeOK /\ [Next]_vars => TypeOK'
  <2> SUFFICES ASSUME TypeOK, [Next]_vars  PROVE TypeOK'
    OBVIOUS
  <2>0. Restart(OfflineTime) \in Timers
    BY JetsonAssumption, RestartIsTimer
  <2>1. ASSUME NEW isMagic \in BOOLEAN, NEW lost \in BOOLEAN, SendByte(isMagic, lost)
        PROVE  pos' \in 0 .. Size - 1 /\ clean' \in BOOLEAN /\ harmed' \in BOOLEAN
    BY <2>1, JetsonAssumption DEF TypeOK, SendByte, Following
  <2>2. ASSUME NEW isMagic \in BOOLEAN, UpdateSerial(isMagic)
        PROVE  /\ nextByteIndex' \in 0 .. Size - 1
               /\ whole' \in BOOLEAN
               /\ lastMessage' \in {"none", "whole", "torn"}
               /\ offline' \in Timers
    <3>1. whole' \in BOOLEAN
      BY <2>2, Zenon DEF UpdateSerial, SearchForMagic, AssembleMessage
    <3>2. nextByteIndex' \in 0 .. Size - 1 /\ lastMessage' \in {"none", "whole", "torn"}
      BY <2>2, JetsonAssumption
         DEF TypeOK, UpdateSerial, SearchForMagic, AssembleMessage, Following
    <3> QED  BY <2>2, <2>0, <3>1, <3>2 DEF UpdateSerial
  <2>3. CASE Deliver
    BY <2>1, <2>2, <2>3 DEF Deliver, TypeOK
  <2>4. CASE Lose
    <3>1. whole' \in BOOLEAN
      BY <2>4 DEF Lose
    <3> QED  BY <2>1, <2>4, <3>1 DEF Lose, TypeOK
  <2>5. CASE Cut
    <3>1. whole' \in BOOLEAN /\ harmed' \in BOOLEAN
      BY <2>5 DEF Cut
    <3> QED  BY <2>5, <3>1, JetsonAssumption DEF Cut, TypeOK
  <2>6. CASE Tick
    BY <2>6, ElapseIsTimer DEF Tick, TypeOK, jetson
  <2>7. CASE UNCHANGED vars
    BY <2>7 DEF vars, jetson, board, TypeOK
  <2> QED  BY <2>3, <2>4, <2>5, <2>6, <2>7 DEF Next
<1> QED  BY <1>1, <1>2, PTL DEF Spec

-----------------------------------------------------------------------------
\* One step of the distance argument.
LEMMA StepKeepsDistance ==
  ASSUME TypeOK, TypeOK', IInv, [Next]_vars
  PROVE  IInv'
<1> USE JetsonAssumption DEF IInv, TypeOK, NotBehind, WholeIsCurrent, NoLateStart
<1>1. CASE Deliver
  <2>1. PICK isMagic \in BOOLEAN : SendByte(isMagic, FALSE) /\ UpdateSerial(isMagic)
    BY <1>1 DEF Deliver
  <2>2. CASE nextByteIndex = 0
    BY <2>1, <2>2 DEF SendByte, UpdateSerial, SearchForMagic, Following
  <2>3. CASE nextByteIndex # 0
    BY <2>1, <2>3 DEF SendByte, UpdateSerial, AssembleMessage, Following
  <2> QED  BY <2>2, <2>3
<1>2. CASE Lose
  BY <1>2 DEF Lose, SendByte, Following
<1>3. CASE Cut
  BY <1>3 DEF Cut
<1>4. CASE Tick
  BY <1>4 DEF Tick, jetson
<1>5. CASE UNCHANGED vars
  BY <1>5 DEF vars, jetson, board
<1> QED  BY <1>1, <1>2, <1>3, <1>4, <1>5 DEF Next

\* The board does not lag behind a clean message, in every reachable state.
THEOREM DistanceInvariant == Spec => []IInv
<1>1. Init /\ TypeOK => IInv
  <2>1. Init => harmed /\ ~whole /\ nextByteIndex = 0
    BY DEF Init
  <2> QED  BY <2>1 DEF IInv, NotBehind, WholeIsCurrent, NoLateStart
<1>2. TypeOK /\ TypeOK' /\ IInv /\ [Next]_vars => IInv'
  BY StepKeepsDistance
<1> QED  BY <1>1, <1>2, TypeCorrectness, PTL DEF Spec

\* A clean message that arrives complete leaves the board searching where the
\* next message starts, whatever it had assembled before.
THEOREM CleanMessageResynchronises == Spec => []CleanMessageAligns
<1>1. IInv => CleanMessageAligns
  BY JetsonAssumption
     DEF IInv, TypeOK, NoLateStart, CleanMessageAligns, CleanMessageArrived, Aligned
<1> QED  BY <1>1, DistanceInvariant, PTL

\* An aligned board takes every further message as it was sent, until a fault.
THEOREM AlignmentIsKept == Spec => AlignedUntilFault
<1> DEFINE Kept == Aligned /\ ~Lose /\ ~Cut =>
                     /\ Aligned'
                     /\ pos = Size - 1 /\ pos' = 0 => lastMessage' = "whole"
<1>1. TypeOK /\ [Next]_vars => [Kept]_vars
  <2> SUFFICES ASSUME TypeOK, Next, Aligned, ~Lose, ~Cut
      PROVE  /\ Aligned'
             /\ pos = Size - 1 /\ pos' = 0 => lastMessage' = "whole"
    OBVIOUS
  <2> USE JetsonAssumption DEF TypeOK, Aligned
  <2>1. CASE Deliver
    <3>1. PICK isMagic \in BOOLEAN : SendByte(isMagic, FALSE) /\ UpdateSerial(isMagic)
      BY <2>1 DEF Deliver
    <3>2. CASE pos = 0
      <4>1. SearchForMagic(isMagic) /\ pos' = Following(pos) /\ isMagic
        BY <3>1, <3>2 DEF SendByte, UpdateSerial
      <4>2. whole'
        BY <4>1, <3>2, Zenon DEF SearchForMagic
      <4>3. nextByteIndex' = 1 /\ pos' = 1
        BY <4>1, <3>2 DEF SearchForMagic, Following
      <4> QED  BY <4>2, <4>3
    <3>3. CASE pos > 0
      <4>1. AssembleMessage /\ pos' = Following(pos) /\ whole /\ nextByteIndex = pos
        BY <3>1, <3>3 DEF SendByte, UpdateSerial
      <4>2. CASE pos + 1 = Size
        BY <4>1, <4>2 DEF AssembleMessage, Following
      <4>3. CASE pos + 1 # Size
        <5>1. whole'
          BY <4>1, <4>3, Zenon DEF AssembleMessage
        <5>2. nextByteIndex' = pos + 1 /\ pos' = pos + 1
          BY <4>1, <4>3 DEF AssembleMessage, Following
        <5> QED  BY <5>1, <5>2
      <4> QED  BY <4>2, <4>3
    <3> QED  BY <3>2, <3>3
  <2>2. CASE Tick
    BY <2>2 DEF Tick, jetson
  <2> QED  BY <2>1, <2>2 DEF Next
<1> QED  BY <1>1, TypeCorrectness, PTL DEF Spec, AlignedUntilFault
=============================================================================
