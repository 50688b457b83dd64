------------------------ MODULE OffboardStream_proofs ------------------------
(***************************************************************************)
(* The safety properties of OffboardStream, for any number of commands.    *)
(*                                                                         *)
(* Each property needs to know more than itself: that frames do not go     *)
(* back rests on the chain sent <= frame <= field <= cmd (AgeInv), that a  *)
(* steady frame is whole on which fields the running command has written   *)
(* (WriteInv) and which t2 has read (ReadInv), and the silence after       *)
(* endOffboard on the join (QuietInv).                                     *)
(***************************************************************************)
EXTENDS OffboardStream, TLAPS

(* What t2 has read is no newer than the fields, what it sent no newer     *)
(* than what it read.                                                      *)
AgeInv ==
    \A f \in Fields : /\ sent[f] <= frame[f]
                      /\ frame[f] <= field[f]
                      /\ field[f] <= cmd

(* The running command has written the fields before its index.            *)
WriteInv ==
    \A i \in 1..5 : i < wi => field[WriteOrder(kinds[cmd])[i]] = cmd

(* A read starts at the first field; in a steady one the fields stand      *)
(* still and t2 has copied those before its index.                         *)
ReadInv ==
    /\ t2 # "read" => ri = 1
    /\ steady /\ t2 = "read" /\ ri > 1 =>
          /\ \A f \in Fields : field[f] = readFor
          /\ \A i \in 1..5 : i < ri => frame[ReadOrder[i]] = readFor
    /\ steady /\ t2 = "send" => \A f \in Fields : frame[f] = readFor

(* endOffboard returns after t2 has ended.                                 *)
QuietInv == ended => t2 = "ended"

IInv == TypeOK /\ AgeInv /\ WriteInv /\ ReadInv /\ SteadyFrameIsWhole /\ QuietInv
-----------------------------------------------------------------------------
(* Both orders list every field once: a finished command has written them  *)
(* all, and a finished read has copied them all.                           *)
LEMMA OrderOnto ==
    /\ \A kind \in Kinds : \A i \in 1..5 : WriteOrder(kind)[i] \in Fields
    /\ \A kind \in Kinds : \A f \in Fields : \E i \in 1..5 : WriteOrder(kind)[i] = f
    /\ \A i \in 1..5 : ReadOrder[i] \in Fields
    /\ \A f \in Fields : \E i \in 1..5 : ReadOrder[i] = f
<1>1. \A i \in 1..5 : i = 1 \/ i = 2 \/ i = 3 \/ i = 4 \/ i = 5
  OBVIOUS
<1>2. \A i \in 1..5 : ReadOrder[i] \in Fields
  BY <1>1 DEF ReadOrder, Fields
<1>3. \A f \in Fields : \E i \in 1..5 : ReadOrder[i] = f
  <2>1. /\ 1 \in 1..5 /\ 2 \in 1..5 /\ 3 \in 1..5 /\ 4 \in 1..5 /\ 5 \in 1..5
        /\ ReadOrder[1] = "mask" /\ ReadOrder[2] = "pos" /\ ReadOrder[3] = "vel"
        /\ ReadOrder[4] = "yaw" /\ ReadOrder[5] = "yawrate"
    BY DEF ReadOrder
  <2> QED BY <2>1 DEF Fields
<1>4. ASSUME NEW kind \in Kinds
      PROVE  /\ \A i \in 1..5 : WriteOrder(kind)[i] \in Fields
             /\ \A f \in Fields : \E i \in 1..5 : WriteOrder(kind)[i] = f
  <2>1. CASE kind = "pos"
    <3>1. WriteOrder(kind) = <<"mask", "pos", "vel", "yawrate", "yaw">>
      BY <2>1 DEF WriteOrder
    <3>2. /\ WriteOrder(kind)[1] = "mask" /\ WriteOrder(kind)[2] = "pos"
          /\ WriteOrder(kind)[3] = "vel" /\ WriteOrder(kind)[4] = "yawrate"
          /\ WriteOrder(kind)[5] = "yaw"
      BY <3>1
    <3>3. 1 \in 1..5 /\ 2 \in 1..5 /\ 3 \in 1..5 /\ 4 \in 1..5 /\ 5 \in 1..5
      OBVIOUS
    <3> QED BY <1>1, <3>2, <3>3 DEF Fields
  <2>2. CASE kind = "vel"
    <3>1. WriteOrder(kind) = <<"mask", "pos", "vel", "yaw", "yawrate">>
      BY <2>2 DEF WriteOrder
    <3>2. /\ WriteOrder(kind)[1] = "mask" /\ WriteOrder(kind)[2] = "pos"
          /\ WriteOrder(kind)[3] = "vel" /\ WriteOrder(kind)[4] = "yaw"
          /\ WriteOrder(kind)[5] = "yawrate"
      BY <3>1
    <3>3. 1 \in 1..5 /\ 2 \in 1..5 /\ 3 \in 1..5 /\ 4 \in 1..5 /\ 5 \in 1..5
      OBVIOUS
    <3> QED BY <1>1, <3>2, <3>3 DEF Fields
  <2> QED BY <2>1, <2>2 DEF Kinds
<1> QED BY <1>2, <1>3, <1>4

(* A command that has returned has stamped every field.                    *)
LEMMA ReturnedIsWhole ==
    ASSUME TypeOK, WriteInv, wi = 6
    PROVE  \A f \in Fields : field[f] = cmd
<1> SUFFICES ASSUME NEW f \in Fields PROVE field[f] = cmd
  OBVIOUS
<1>1. kinds[cmd] \in Kinds
  BY DEF TypeOK
<1>2. PICK i \in 1..5 : WriteOrder(kinds[cmd])[i] = f
  BY <1>1, OrderOnto
<1> QED BY <1>2 DEF WriteInv

LEMMA InitHolds == Init => IInv
<1> SUFFICES ASSUME Init PROVE IInv
  OBVIOUS
<1>1. TypeOK
  <2>1. [f \in Fields |-> 0] \in Stamps
    BY StreamAssumption DEF Stamps
  <2>2. 0 \in 0..MaxCommands /\ [n \in 0..MaxCommands |-> "vel"] \in [0..MaxCommands -> Kinds]
    BY StreamAssumption DEF Kinds
  <2>3. field \in Stamps /\ frame \in Stamps /\ sent \in Stamps
    BY <2>1 DEF Init
  <2>4. kinds \in [0..MaxCommands -> Kinds]
    BY <2>2 DEF Init
  <2>5. /\ cmd \in 0..MaxCommands /\ readFor \in 0..MaxCommands
        /\ sentFor \in 0..MaxCommands /\ wi \in 1..6 /\ ri \in 1..5
    BY <2>2 DEF Init
  <2>6. /\ t2 \in {"test", "sleep", "read", "send", "ended"}
        /\ isInOffboard \in BOOLEAN /\ ended \in BOOLEAN
        /\ steady \in BOOLEAN /\ sentSteady \in BOOLEAN
    BY DEF Init
  <2> QED BY <2>3, <2>4, <2>5, <2>6 DEF TypeOK
<1>2. AgeInv
  BY DEF Init, AgeInv
<1>3. WriteInv
  <2> SUFFICES ASSUME NEW i \in 1..5 PROVE field[WriteOrder(kinds[cmd])[i]] = cmd
    BY DEF WriteInv
  <2>1. kinds[cmd] \in Kinds
    BY <1>1 DEF TypeOK
  <2> QED BY <2>1, OrderOnto DEF Init
<1>4. ReadInv /\ SteadyFrameIsWhole /\ QuietInv
  BY DEF Init, ReadInv, SteadyFrameIsWhole, QuietInv
<1> QED BY <1>1, <1>2, <1>3, <1>4 DEF IInv
-----------------------------------------------------------------------------
(* The worker assigns one more field of its command.                       *)
LEMMA WriteFieldKeeps == IInv /\ WriteField => IInv'
<1> SUFFICES ASSUME IInv, WriteField PROVE IInv'
  OBVIOUS
<1> DEFINE w == WriteOrder(kinds[cmd])
<1>1. kinds[cmd] \in Kinds /\ wi \in 1..5
  BY DEF IInv, TypeOK, WriteField
<1>2. w[wi] \in Fields
  BY <1>1, OrderOnto
<1>3. /\ field' = [field EXCEPT ![w[wi]] = cmd]
      /\ wi' = wi + 1 /\ steady' = FALSE
      /\ UNCHANGED <<cmd, kinds, isInOffboard, ended, t2, ri, frame, sent,
                     readFor, sentSteady, sentFor>>
  BY DEF WriteField, reader
<1> HIDE DEF w
<1>4. TypeOK'
  <2>1. field' \in Stamps
    BY <1>2, <1>3 DEF IInv, TypeOK, Stamps
  <2>2. wi' \in 1..6
    BY <1>1, <1>3
  <2> QED BY <1>3, <2>1, <2>2 DEF IInv, TypeOK
<1>5. AgeInv'
  <2> SUFFICES ASSUME NEW f \in Fields
               PROVE  sent'[f] <= frame'[f] /\ frame'[f] <= field'[f] /\ field'[f] <= cmd'
    BY DEF AgeInv
  <2>1. /\ sent[f] <= frame[f] /\ frame[f] <= field[f] /\ field[f] <= cmd
        /\ sent[f] \in Nat /\ frame[f] \in Nat /\ field[f] \in Nat /\ cmd \in Nat
    BY DEF IInv, AgeInv, TypeOK, Stamps
  <2>2. field'[f] = field[f] \/ field'[f] = cmd
    BY <1>2, <1>3 DEF IInv, TypeOK, Stamps
  <2> QED BY <1>3, <2>1, <2>2
<1>6. WriteInv'
  <2> SUFFICES ASSUME NEW i \in 1..5, i < wi + 1
               PROVE  field'[w[i]] = cmd
    BY <1>3 DEF WriteInv, w
  <2>1. w[i] \in Fields
    BY <1>1, OrderOnto DEF w
  <2>2. CASE i = wi
    BY <1>2, <1>3, <2>2 DEF IInv, TypeOK, Stamps
  <2>3. CASE i < wi
    <3>1. field[w[i]] = cmd
      BY <2>3 DEF IInv, WriteInv, w
    <3> QED BY <1>2, <1>3, <2>1, <3>1 DEF IInv, TypeOK, Stamps
  <2> QED BY <1>1, <2>2, <2>3
<1>7. ReadInv' /\ SteadyFrameIsWhole' /\ QuietInv'
  BY <1>3 DEF IInv, ReadInv, SteadyFrameIsWhole, QuietInv
<1> QED BY <1>4, <1>5, <1>6, <1>7 DEF IInv

(* t2 reads one more field.                                                *)
LEMMA ReadFieldKeeps == IInv /\ ReadField => IInv'
<1> SUFFICES ASSUME IInv, ReadField PROVE IInv'
  OBVIOUS
<1> DEFINE g == ReadOrder[ri]
<1>1. ri \in 1..5
  BY DEF IInv, TypeOK
<1>2. g \in Fields
  BY <1>1, OrderOnto
<1>3. /\ t2 = "read"
      /\ frame' = [frame EXCEPT ![g] = field[g]]
      /\ steady' = IF ri = 1 THEN wi = 6 ELSE steady
      /\ readFor' = IF ri = 1 THEN cmd ELSE readFor
      /\ ri' = IF ri = 5 THEN 1 ELSE ri + 1
      /\ t2' = IF ri = 5 THEN "send" ELSE "read"
      /\ UNCHANGED <<field, cmd, kinds, wi, isInOffboard, ended, sent,
                     sentSteady, sentFor>>
  BY DEF ReadField, writer
<1>4. frame' \in Stamps
  BY <1>2, <1>3 DEF IInv, TypeOK, Stamps
<1> HIDE DEF g
<1>5. TypeOK'
  <2>1. ri' \in 1..5 /\ t2' \in {"read", "send"}
    BY <1>1, <1>3
  <2>2. steady' \in BOOLEAN
    BY <1>3 DEF IInv, TypeOK
  <2>3. readFor' \in 0..MaxCommands
    BY <1>3 DEF IInv, TypeOK
  <2> QED BY <1>3, <1>4, <2>1, <2>2, <2>3 DEF IInv, TypeOK
<1>6. AgeInv'
  <2> SUFFICES ASSUME NEW f \in Fields
               PROVE  sent'[f] <= frame'[f] /\ frame'[f] <= field'[f] /\ field'[f] <= cmd'
    BY DEF AgeInv
  <2>1. /\ sent[f] <= frame[f] /\ frame[f] <= field[f] /\ field[f] <= cmd
        /\ sent[f] \in Nat /\ frame[f] \in Nat /\ field[f] \in Nat /\ cmd \in Nat
    BY DEF IInv, AgeInv, TypeOK, Stamps
  <2>2. frame'[f] = frame[f] \/ frame'[f] = field[f]
    BY <1>2, <1>3 DEF IInv, TypeOK, Stamps
  <2> QED BY <1>3, <2>1, <2>2
<1>7. WriteInv' /\ SteadyFrameIsWhole' /\ QuietInv'
  BY <1>3 DEF IInv, WriteInv, SteadyFrameIsWhole, QuietInv
<1>8. ReadInv'
  <2> SUFFICES ASSUME steady'
               PROVE  /\ \A f \in Fields : field'[f] = readFor'
                      /\ \A i \in 1..5 : i <= ri => frame'[ReadOrder[i]] = readFor'
    <3>1. ASSUME \A i \in 1..5 : i <= ri => frame'[ReadOrder[i]] = readFor', ri = 5
          PROVE  \A f \in Fields : frame'[f] = readFor'
      BY <3>1, OrderOnto
    <3> QED BY <1>1, <1>3, <3>1 DEF ReadInv
  <2>1. \A f \in Fields : field[f] = readFor'
    <3>1. CASE ri = 1
      BY <1>3, <3>1, ReturnedIsWhole DEF IInv
    <3>2. CASE ri # 1
      BY <1>1, <1>3, <3>2 DEF IInv, ReadInv
    <3> QED BY <3>1, <3>2
  <2>2. ASSUME NEW i \in 1..5, i <= ri
        PROVE  frame'[ReadOrder[i]] = readFor'
    <3>1. ReadOrder[i] \in Fields
      BY OrderOnto
    <3>2. CASE ReadOrder[i] = g
      BY <1>2, <1>3, <2>1, <3>2 DEF IInv, TypeOK, Stamps
    <3>3. CASE ReadOrder[i] # g
      <4>1. i < ri /\ ri # 1
        BY <1>1, <2>2, <3>3 DEF g
      <4>2. frame[ReadOrder[i]] = readFor
        BY <1>1, <1>3, <4>1 DEF IInv, ReadInv
      <4> QED BY <1>2, <1>3, <3>1, <3>3, <4>1, <4>2 DEF IInv, TypeOK, Stamps
    <3> QED BY <3>2, <3>3
  <2> QED BY <1>3, <2>1, <2>2
<1> QED BY <1>5, <1>6, <1>7, <1>8 DEF IInv

(* t2 sends what it has read.                                              *)
LEMMA SendFrameKeeps == IInv /\ SendFrame => IInv'
<1> SUFFICES ASSUME IInv, SendFrame PROVE IInv'
  OBVIOUS
<1>1. /\ t2 = "send" /\ t2' = "test" /\ sent' = frame
      /\ sentSteady' = steady /\ sentFor' = readFor
      /\ UNCHANGED <<field, cmd, kinds, wi, isInOffboard, ended, ri, frame,
                     steady, readFor>>
  BY DEF SendFrame, writer
<1>2. TypeOK'
  BY <1>1 DEF IInv, TypeOK
<1>3. AgeInv'
  BY <1>1 DEF IInv, AgeInv, TypeOK, Stamps
<1>4. WriteInv' /\ ReadInv' /\ QuietInv'
  BY <1>1 DEF IInv, WriteInv, ReadInv, QuietInv
<1>5. SteadyFrameIsWhole'
  <2> SUFFICES ASSUME steady PROVE frame = [f \in Fields |-> readFor]
    BY <1>1 DEF SteadyFrameIsWhole
  <2>1. \A f \in Fields : frame[f] = readFor
    BY <1>1 DEF IInv, ReadInv
  <2> QED BY <2>1 DEF IInv, TypeOK, Stamps
<1> QED BY <1>2, <1>3, <1>4, <1>5 DEF IInv

(* A new command, endOffboard and the tests of t2 write no field.          *)
LEMMA ControlKeeps ==
    ASSUME IInv,
           \/ \E kind \in Kinds : Command(kind)
           \/ EndOffboard \/ Join \/ LoopTest \/ Wake \/ UNCHANGED vars
    PROVE  IInv'
<1>1. ASSUME NEW kind \in Kinds, Command(kind) PROVE IInv'
  <2>1. /\ wi' = 1 /\ cmd' = cmd + 1 /\ cmd < MaxCommands /\ isInOffboard
        /\ kinds' = [kinds EXCEPT ![cmd'] = kind]
        /\ UNCHANGED <<field, isInOffboard, ended, t2, ri, frame, sent, steady,
                       readFor, sentSteady, sentFor>>
    BY <1>1 DEF Command, reader, history
  <2>2. TypeOK'
    BY <2>1, StreamAssumption DEF IInv, TypeOK
  <2>3. AgeInv'
    BY <2>1 DEF IInv, AgeInv, TypeOK, Stamps
  <2>4. WriteInv'
    BY <2>1 DEF WriteInv
  <2>5. ReadInv' /\ SteadyFrameIsWhole' /\ QuietInv'
    BY <2>1 DEF IInv, ReadInv, SteadyFrameIsWhole, QuietInv
  <2> QED BY <2>2, <2>3, <2>4, <2>5 DEF IInv
<1>2. CASE EndOffboard \/ Join \/ UNCHANGED vars
  <2>1. UNCHANGED <<field, cmd, kinds, wi, t2, ri, frame, sent, steady, readFor,
                    sentSteady, sentFor>>
    BY <1>2 DEF EndOffboard, Join, vars, writer, reader, history
  <2>2. isInOffboard' \in BOOLEAN /\ ended' \in BOOLEAN
    BY <1>2 DEF EndOffboard, Join, vars, IInv, TypeOK
  <2>3. TypeOK'
    BY <2>1, <2>2 DEF IInv, TypeOK
  <2>4. AgeInv' /\ WriteInv' /\ ReadInv' /\ SteadyFrameIsWhole'
    BY <2>1 DEF IInv, AgeInv, WriteInv, ReadInv, SteadyFrameIsWhole
  <2>5. QuietInv'
    BY <1>2, <2>1 DEF IInv, QuietInv, EndOffboard, Join, vars
  <2> QED BY <2>3, <2>4, <2>5 DEF IInv
<1>3. CASE LoopTest \/ Wake
  <2>1. /\ t2 \in {"test", "sleep"}
        /\ t2' \in {"test", "sleep", "ended"} \/ (t2' = "read" /\ t2 = "sleep")
        /\ UNCHANGED <<field, cmd, kinds, wi, isInOffboard, ended, ri, frame,
                       sent, steady, readFor, sentSteady, sentFor>>
    BY <1>3 DEF LoopTest, Wake, writer, history
  <2>2. TypeOK'
    BY <2>1 DEF IInv, TypeOK
  <2>3. AgeInv' /\ WriteInv' /\ SteadyFrameIsWhole' /\ QuietInv'
    BY <2>1 DEF IInv, AgeInv, WriteInv, SteadyFrameIsWhole, QuietInv
  <2>4. ReadInv'
    BY <2>1 DEF IInv, ReadInv
  <2> QED BY <2>2, <2>3, <2>4 DEF IInv
<1> QED BY <1>1, <1>2, <1>3

LEMMA NextKeeps == IInv /\ [Next]_vars => IInv'
  BY ControlKeeps, WriteFieldKeeps, ReadFieldKeeps, SendFrameKeeps
     DEF Next, Stream, Finished

LEMMA InvariantHolds == Spec => []IInv
  BY InitHolds, NextKeeps, PTL DEF Spec
-----------------------------------------------------------------------------
(* Type correctness, for any number of commands.                           *)
THEOREM TypeCorrect == Spec => []TypeOK
<1>1. IInv => TypeOK
  BY DEF IInv
<1> QED BY <1>1, InvariantHolds, PTL

(* A frame t2 reads while no command writes is one command, whole.         *)
THEOREM SteadyWhole == Spec => []SteadyFrameIsWhole
<1>1. IInv => SteadyFrameIsWhole
  BY DEF IInv
<1> QED BY <1>1, InvariantHolds, PTL

(* No frame carries a field older than an earlier frame's.                 *)
THEOREM NeverBack == Spec => FramesNeverGoBack
<1>1. ASSUME IInv, [Next]_vars
      PROVE  [\A f \in Fields : sent'[f] >= sent[f]]_vars
  <2>1. CASE SendFrame
    BY <2>1, <1>1 DEF SendFrame, IInv, AgeInv, TypeOK, Stamps
  <2>2. CASE sent' = sent
    BY <2>2, <1>1 DEF IInv, TypeOK, Stamps
  <2>3. SendFrame \/ sent' = sent
    BY <1>1 DEF Next, Stream, Command, WriteField, EndOffboard, Join, LoopTest,
                Wake, ReadField, Finished, reader, vars
  <2> QED BY <2>1, <2>2, <2>3
<1> QED BY <1>1, InvariantHolds, PTL DEF Spec, FramesNeverGoBack

(* Nothing is sent after endOffboard has returned.                         *)
THEOREM QuietAfter == Spec => QuietAfterEndOffboard
<1>1. ASSUME IInv, [Next]_vars
      PROVE  [ended => sent' = sent]_vars
  <2>1. SendFrame => ~ended
    BY <1>1 DEF SendFrame, IInv, QuietInv
  <2>2. SendFrame \/ sent' = sent
    BY <1>1 DEF Next, Stream, Command, WriteField, EndOffboard, Join, LoopTest,
                Wake, ReadField, Finished, reader, vars
  <2> QED BY <2>1, <2>2
<1> QED BY <1>1, InvariantHolds, PTL DEF Spec, QuietAfterEndOffboard
=============================================================================
