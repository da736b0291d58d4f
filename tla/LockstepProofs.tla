--------------------------- MODULE LockstepProofs ---------------------------
(* The lockstep loop, the relay and the moves of authority, for any set of *)
(* users, inputs and lags, any history length and any bounds.              *)
EXTENDS Lockstep, SequenceTheorems, TLAPS

-----------------------------------------------------------------------------
(* What the operators on streams and packets return. *)

LEMMA PacketParts ==
  ASSUME NEW m \in Packet
  PROVE  /\ m.user \in User
         /\ m.type = "INPUT_DATA" => m \in InputPacket
         /\ m.type \in {"DELEGATE_AUTHORITY", "REQUEST_AUTHORITY"} => m.authority \in User
BY DEF Packet, InputPacket, AuthorityPacket, QuitPacket

LEMMA QueueParts ==
  ASSUME NEW s \in Seq(Packet), s # <<>>
  PROVE  Head(s) \in Packet /\ Tail(s) \in Seq(Packet)
BY HeadTailProperties

LEMMA FreshType ==
  ASSUME NEW m \in InputPacket, NEW s \in Seq(Input)
  PROVE  Fresh(m, s) \in Seq(Input)
<1>1. m.first \in Nat /\ m.inputs \in Seq(Input)
  BY DEF InputPacket
<1>2. <<>> \in Seq(Input)
  BY EmptySeq
<1>3. ASSUME m.first <= Len(s), Len(s) < m.first + Len(m.inputs)
      PROVE  SubSeq(m.inputs, Len(s) - m.first + 1, Len(m.inputs)) \in Seq(Input)
  <2>1. Len(s) \in Nat /\ Len(m.inputs) \in Nat
    BY <1>1, LenProperties
  <2>2. \A i \in (Len(s) - m.first + 1)..Len(m.inputs) : m.inputs[i] \in Input
    BY <1>1, <1>3, <2>1, ElementOfSeq
  <2> QED
    BY <1>1, <2>1, <2>2, SubSeqProperties
<1> QED
  BY <1>2, <1>3 DEF Fresh

LEMMA PacketsType ==
  ASSUME NEW u \in User, NEW s \in Seq(Input), NEW vs \in Seq(Input)
  PROVE  /\ Packets(u, s, vs) \in Seq(Packet)
         /\ Len(Packets(u, s, vs)) = Len(vs)
         /\ \A i \in 1..Len(vs) : /\ Packets(u, s, vs)[i].type = "INPUT_DATA"
                                  /\ Packets(u, s, vs)[i].user = u
<1>1. Len(s) \in Nat /\ Len(vs) \in Nat
  BY LenProperties
<1>2. ASSUME NEW i \in 1..Len(vs)
      PROVE  InputData(u, Len(s) + i - 1, <<vs[i]>>) \in InputPacket
  <2>1. vs[i] \in Input /\ Len(s) + i - 1 \in Nat
    BY <1>1, ElementOfSeq
  <2>2. <<vs[i]>> \in Seq(Input)
    BY <2>1
  <2> QED
    BY <2>1, <2>2 DEF InputData, InputPacket
<1>3. \A i \in 1..Len(vs) : InputData(u, Len(s) + i - 1, <<vs[i]>>) \in Packet
  BY <1>2 DEF Packet
<1>4. Packets(u, s, vs) \in Seq(Packet)
  BY <1>1, <1>3, IsASeq DEF Packets
<1>5. Len(Packets(u, s, vs)) = Len(vs)
  BY <1>1, <1>4, LenProperties DEF Packets
<1> QED
  BY <1>4, <1>5 DEF Packets, InputData

LEMMA HistoryType ==
  ASSUME NEW s \in Seq(Input)
  PROVE  History(s) \in Seq(Input) /\ Len(s) - Len(History(s)) \in Nat
<1> DEFINE start == Longer(1, Len(s) - HistoryLength + 1)
<1>1. Len(s) \in Nat /\ start \in 1..(Len(s) + 1)
  BY LenProperties, HistoryAssumption DEF Longer
<1>2. \A i \in start..Len(s) : s[i] \in Input
  BY <1>1, ElementOfSeq
<1> HIDE DEF start
<1>3. /\ SubSeq(s, start, Len(s)) \in Seq(Input)
      /\ Len(SubSeq(s, start, Len(s))) = IF start <= Len(s) THEN Len(s) - start + 1 ELSE 0
  BY <1>1, <1>2, SubSeqProperties
<1> QED
  BY <1>1, <1>3 DEF History, start

LEMMA DatagramsType ==
  ASSUME NEW u \in User, NEW s \in Seq(Input), NEW vs \in Seq(Input)
  PROVE  Datagrams(u, s, vs) \in SUBSET InputPacket
<1> SUFFICES ASSUME NEW i \in 1..Len(vs)
             PROVE  InputData(u, Len(s \o SubSeq(vs, 1, i))
                                   - Len(History(s \o SubSeq(vs, 1, i))),
                              History(s \o SubSeq(vs, 1, i))) \in InputPacket
  BY DEF Datagrams
<1> DEFINE t == s \o SubSeq(vs, 1, i)
<1>1. Len(vs) \in Nat /\ \A j \in 1..i : vs[j] \in Input
  BY LenProperties, ElementOfSeq
<1>2. SubSeq(vs, 1, i) \in Seq(Input)
  BY <1>1, SubSeqProperties
<1>3. t \in Seq(Input)
  BY <1>2, ConcatProperties
<1> HIDE DEF t
<1>4. History(t) \in Seq(Input) /\ Len(t) - Len(History(t)) \in Nat
  BY <1>3, HistoryType
<1> QED
  BY <1>4 DEF t, InputData, InputPacket

-----------------------------------------------------------------------------
(* Type correctness: first of the parts handlers are made of. *)

LEMMA OnInputType ==
  ASSUME TypeOK, NEW c \in User, NEW pres \in SUBSET User,
         NEW q \in [User -> Seq(Input)], OnInput(c, pres, q)
  PROVE  /\ queue' \in [User -> [User -> Seq(Input)]]
         /\ frame' \in [User -> Nat] /\ ready' \in [User -> BOOLEAN]
<1>1. /\ queue \in [User -> [User -> Seq(Input)]]
      /\ frame \in [User -> Nat] /\ ready \in [User -> BOOLEAN]
  BY DEF TypeOK
<1>2. CASE ready[c] \/ \E u \in pres : q[u] = <<>>
  BY <1>1, <1>2 DEF OnInput
<1>3. CASE ~(ready[c] \/ \E u \in pres : q[u] = <<>>)
  <2> DEFINE rest == [u \in User |-> IF u \in pres THEN Tail(q[u]) ELSE q[u]]
  <2>1. /\ queue' = [queue EXCEPT ![c] = rest]
        /\ frame' = [frame EXCEPT ![c] = @ + 1]
        /\ ready' = [ready EXCEPT ![c] = TRUE]
    BY <1>3 DEF OnInput
  <2>2. ASSUME NEW u \in pres PROVE Tail(q[u]) \in Seq(Input)
    BY <1>3, HeadTailProperties
  <2>3. rest \in [User -> Seq(Input)]
    BY <2>2
  <2>4. frame' \in [User -> Nat]
    BY <1>1, <2>1
  <2>5. ready' \in [User -> BOOLEAN]
    BY <1>1, <2>1
  <2> HIDE DEF rest
  <2>6. queue' \in [User -> [User -> Seq(Input)]]
    BY <1>1, <2>1, <2>3
  <2> QED
    BY <2>4, <2>5, <2>6
<1> QED
  BY <1>2, <1>3

LEMMA SendInputsType ==
  ASSUME TypeOK, NEW c \in User, NEW u \in User, NEW before \in Seq(Packet),
         NEW vs \in Seq(Input), SendInputs(c, u, before, vs)
  PROVE  /\ log' \in [User -> [User -> Seq(Input)]]
         /\ up' \in [User -> Seq(Packet)]
         /\ upUdp' \in [User -> SUBSET InputPacket]
<1>1. /\ log \in [User -> [User -> Seq(Input)]] /\ up \in [User -> Seq(Packet)]
      /\ upUdp \in [User -> SUBSET InputPacket] /\ log[c][u] \in Seq(Input)
  BY DEF TypeOK
<1>2. log[c][u] \o vs \in Seq(Input)
  BY <1>1, ConcatProperties
<1>3. log' \in [User -> [User -> Seq(Input)]]
  BY <1>1, <1>2 DEF SendInputs
<1> DEFINE ps == Packets(u, log[c][u], vs)
           ds == Datagrams(u, log[c][u], vs)
<1>4. ps \in Seq(Packet) /\ ds \in SUBSET InputPacket
  BY <1>1, PacketsType, DatagramsType
<1>5. up' = [up EXCEPT ![c] = @ \o before \o ps]
  BY DEF SendInputs
<1>6. upUdp' = [upUdp EXCEPT ![c] = @ \cup ds] \/ upUdp' = upUdp
  BY DEF SendInputs
<1> HIDE DEF ps, ds
<1>7. up[c] \o before \in Seq(Packet)
  BY <1>1, ConcatProperties
<1>8. (up[c] \o before) \o ps \in Seq(Packet)
  BY <1>4, <1>7, ConcatProperties
<1>9. up' \in [User -> Seq(Packet)]
  BY <1>1, <1>5, <1>8
<1>10. upUdp' \in [User -> SUBSET InputPacket]
  BY <1>1, <1>4, <1>6
<1> QED
  BY <1>3, <1>9, <1>10

LEMMA ChangeAuthorityType ==
  ASSUME TypeOK, NEW c \in User, NEW u \in User, NEW a \in User, ChangeAuthority(c, u, a)
  PROVE  /\ auth' \in [User -> [User -> User]]
         /\ up' \in [User -> Seq(Packet)]
<1>1. auth \in [User -> [User -> User]] /\ up \in [User -> Seq(Packet)]
  BY DEF TypeOK
<1>2. auth' \in [User -> [User -> User]]
  <2>1. auth' = [auth EXCEPT ![c][u] = a] \/ auth' = auth
    BY DEF ChangeAuthority
  <2>2. CASE auth' = [auth EXCEPT ![c][u] = a]
    BY <1>1, <2>2
  <2> QED
    BY <1>1, <2>1, <2>2
<1>3. Delegate(u, a) \in Packet /\ Request(u, a) \in Packet
  BY DEF Delegate, Request, Packet, AuthorityPacket
<1>4. Append(up[c], Delegate(u, a)) \in Seq(Packet) /\ Append(up[c], Request(u, a)) \in Seq(Packet)
  BY <1>1, <1>3, AppendProperties
<1>5. \/ up' = up
      \/ up' = [up EXCEPT ![c] = Append(up[c], Delegate(u, a))]
      \/ up' = [up EXCEPT ![c] = Append(up[c], Request(u, a))]
  BY <1>1 DEF ChangeAuthority
<1>6. up' \in [User -> Seq(Packet)]
  BY <1>1, <1>4, <1>5
<1> QED
  BY <1>2, <1>6

LEMMA AcceptInputsType ==
  ASSUME TypeOK, NEW c \in User, NEW m \in InputPacket, AcceptInputs(c, m)
  PROVE  /\ log' \in [User -> [User -> Seq(Input)]]
         /\ auth' \in [User -> [User -> User]] /\ up' \in [User -> Seq(Packet)]
         /\ queue' \in [User -> [User -> Seq(Input)]]
         /\ frame' \in [User -> Nat] /\ ready' \in [User -> BOOLEAN]
<1> DEFINE u == m.user
           fresh == Fresh(m, log[c][u])
<1>1. /\ u \in User /\ log \in [User -> [User -> Seq(Input)]] /\ log[c][u] \in Seq(Input)
      /\ queue[c] \in [User -> Seq(Input)] /\ present[c] \in SUBSET User
      /\ auth \in [User -> [User -> User]] /\ up \in [User -> Seq(Packet)]
  BY DEF TypeOK, InputPacket
<1>2. fresh \in Seq(Input)
  BY <1>1, FreshType
<1>3. /\ log' = [log EXCEPT ![c][u] = @ \o fresh]
      /\ ChangeAuthority(c, c, u) \/ UNCHANGED <<auth, up>>
      /\ OnInput(c, present[c], [queue[c] EXCEPT ![u] = @ \o fresh])
  BY DEF AcceptInputs
<1> HIDE DEF u, fresh
<1>4. log[c][u] \o fresh \in Seq(Input) /\ queue[c][u] \o fresh \in Seq(Input)
  BY <1>1, <1>2, ConcatProperties
<1>5. log' \in [User -> [User -> Seq(Input)]]
  BY <1>1, <1>3, <1>4
<1>6. [queue[c] EXCEPT ![u] = @ \o fresh] \in [User -> Seq(Input)]
  BY <1>1, <1>4
<1>7. /\ queue' \in [User -> [User -> Seq(Input)]]
      /\ frame' \in [User -> Nat] /\ ready' \in [User -> BOOLEAN]
  BY <1>1, <1>3, <1>6, OnInputType
<1>8. auth' \in [User -> [User -> User]] /\ up' \in [User -> Seq(Packet)]
  BY <1>1, <1>3, ChangeAuthorityType
<1> QED
  BY <1>5, <1>7, <1>8

LEMMA SendAllType ==
  ASSUME TypeOK, NEW to \in SUBSET User, NEW ps \in Seq(Packet), SendAll(to, ps)
  PROVE  down' \in [User -> Seq(Packet)]
<1>1. ASSUME NEW d \in User PROVE down[d] \in Seq(Packet) /\ down[d] \o ps \in Seq(Packet)
  BY ConcatProperties DEF TypeOK
<1> QED
  BY <1>1 DEF SendAll

LEMMA RelayInputsType ==
  ASSUME TypeOK, NEW c \in User, NEW m \in InputPacket, RelayInputs(c, m)
  PROVE  /\ srvLog' \in [User -> Seq(Input)]
         /\ down' \in [User -> Seq(Packet)]
         /\ downUdp' \in [User -> SUBSET InputPacket]
<1> DEFINE u == m.user
           fresh == IF u \in members THEN Fresh(m, srvLog[u]) ELSE <<>>
           ps == Packets(u, srvLog[u], fresh)
           ds == Datagrams(u, srvLog[u], fresh)
           to == members \ {c}
<1>1. /\ u \in User /\ srvLog \in [User -> Seq(Input)] /\ srvLog[u] \in Seq(Input)
      /\ to \in SUBSET User /\ downUdp \in [User -> SUBSET InputPacket]
  BY DEF TypeOK, InputPacket
<1>2. fresh \in Seq(Input)
  BY <1>1, FreshType, EmptySeq
<1>3. /\ srvLog' = [srvLog EXCEPT ![u] = @ \o fresh]
      /\ SendAll(to, ps)
      /\ downUdp' = [d \in User |-> IF d \in (members \cap UdpUser) \ {c}
                                    THEN downUdp[d] \cup ds ELSE downUdp[d]]
  BY DEF RelayInputs
<1> HIDE DEF u, fresh, to
<1>4. ps \in Seq(Packet) /\ ds \in SUBSET InputPacket
  BY <1>1, <1>2, PacketsType, DatagramsType
<1>5. srvLog[u] \o fresh \in Seq(Input)
  BY <1>1, <1>2, ConcatProperties
<1> HIDE DEF ps, ds
<1>6. srvLog' \in [User -> Seq(Input)]
  BY <1>1, <1>3, <1>5
<1>7. down' \in [User -> Seq(Packet)]
  BY <1>1, <1>3, <1>4, SendAllType
<1>8. downUdp' \in [User -> SUBSET InputPacket]
  BY <1>1, <1>3, <1>4
<1> QED
  BY <1>6, <1>7, <1>8

-----------------------------------------------------------------------------
(* Type correctness: the actions, client first. *)

LEMMA EmulateType ==
  ASSUME TypeOK, NEW c \in User, Emulate(c)
  PROVE  TypeOK'
<1> USE DEF serverVars, inputVars, controlVars
<1>1. CASE ProcessInput(c)
  BY <1>1 DEF ProcessInput, TypeOK
<1>2. CASE \E u \in User : SendInput(c, u)
  <2> PICK u \in User, v \in Input :
        /\ SendInputs(c, u, <<>>, <<v>>)
        /\ queue' = [queue EXCEPT ![c][u] = Append(@, v)]
        /\ UNCHANGED <<serverVars, down, downUdp, frame, ready, controlVars>>
    BY <1>2 DEF SendInput
  <2>1. <<>> \in Seq(Packet) /\ <<v>> \in Seq(Input)
    BY EmptySeq
  <2>2. /\ log' \in [User -> [User -> Seq(Input)]] /\ up' \in [User -> Seq(Packet)]
        /\ upUdp' \in [User -> SUBSET InputPacket]
    BY <2>1, SendInputsType
  <2>3. Append(queue[c][u], v) \in Seq(Input)
    BY AppendProperties DEF TypeOK
  <2>4. queue' \in [User -> [User -> Seq(Input)]]
    BY <2>3 DEF TypeOK
  <2> QED
    BY <2>2, <2>4 DEF TypeOK
<1>3. CASE GolfSwing(c)
  <2>1. present[c] \X {c} \in SUBSET (User \X User)
    BY DEF TypeOK
  <2>2. todo' \in [User -> SUBSET (User \X User)]
    BY <1>3, <2>1 DEF GolfSwing, TypeOK
  <2> QED
    BY <1>3, <2>2 DEF GolfSwing, TypeOK
<1>4. CASE ChangeNext(c)
  <2> PICK call \in todo[c] :
        ChangeAuthority(c, call[1], call[2]) /\ todo' = [todo EXCEPT ![c] = @ \ {call}]
    BY <1>4 DEF ChangeNext
  <2>1. call[1] \in User /\ call[2] \in User
    BY DEF TypeOK
  <2>2. auth' \in [User -> [User -> User]] /\ up' \in [User -> Seq(Packet)]
    BY <2>1, ChangeAuthorityType
  <2>3. todo' \in [User -> SUBSET (User \X User)]
    BY DEF TypeOK
  <2> QED
    BY <1>4, <2>2, <2>3 DEF ChangeNext, TypeOK
<1>5. CASE FinishInput(c)
  <2>1. OnInput(c, present[c], queue[c])
    BY <1>5 DEF FinishInput
  <2>2. present[c] \in SUBSET User /\ queue[c] \in [User -> Seq(Input)]
    BY DEF TypeOK
  <2>3. /\ queue' \in [User -> [User -> Seq(Input)]]
        /\ frame' \in [User -> Nat] /\ ready' \in [User -> BOOLEAN]
    BY <2>1, <2>2, OnInputType
  <2> QED
    BY <1>5, <2>3 DEF FinishInput, TypeOK
<1>6. CASE TakeInput(c)
  <2>1. ready' \in [User -> BOOLEAN]
    BY <1>6 DEF TakeInput, TypeOK
  <2> QED
    BY <1>6, <2>1 DEF TakeInput, TypeOK
<1> QED
  BY <1>1, <1>2, <1>3, <1>4, <1>5, <1>6 DEF Emulate

LEMMA CommandType ==
  ASSUME TypeOK, NEW c \in User, Command(c)
  PROVE  TypeOK'
<1> USE DEF serverVars, inputVars, controlVars
<1>1. ASSUME NEW u \in User, NEW a \in User, AuthCommand(c, u, a)
      PROVE  TypeOK'
  <2>1. auth' \in [User -> [User -> User]] /\ up' \in [User -> Seq(Packet)]
    BY <1>1, ChangeAuthorityType DEF AuthCommand
  <2>2. UNCHANGED <<serverVars, down, upUdp, downUdp, inputVars, present, udp, pc, todo>>
    BY <1>1 DEF AuthCommand
  <2>3. commands' \in Nat
    BY <1>1 DEF AuthCommand, TypeOK
  <2> QED
    BY <2>1, <2>2, <2>3 DEF TypeOK
<1>2. CASE GolfCommand(c)
  <2> PICK golf \in GolfModes :
        todo' = [todo EXCEPT ![c] = {<<u, IF golf THEN c ELSE u>> : u \in present[c]}]
    BY <1>2 DEF GolfCommand
  <2>1. {<<u, IF golf THEN c ELSE u>> : u \in present[c]} \in SUBSET (User \X User)
    BY DEF TypeOK
  <2>2. todo' \in [User -> SUBSET (User \X User)]
    BY <2>1 DEF TypeOK
  <2> QED
    BY <1>2, <2>2 DEF GolfCommand, TypeOK
<1> QED
  BY <1>1, <1>2 DEF Command

\* Taking the first packet of down[c].
LEMMA ConsumeType ==
  ASSUME TypeOK, NEW c \in User, down[c] # <<>>, Consume(c)
  PROVE  /\ Head(down[c]) \in Packet
         /\ down' \in [User -> Seq(Packet)]
<1>1. down \in [User -> Seq(Packet)]
  BY DEF TypeOK
<1>2. Head(down[c]) \in Packet /\ Tail(down[c]) \in Seq(Packet)
  BY <1>1, QueueParts
<1> QED
  BY <1>1, <1>2 DEF Consume

LEMMA ReceiveType ==
  ASSUME TypeOK, NEW c \in User, Receive(c)
  PROVE  TypeOK'
<1> USE DEF serverVars, inputVars, controlVars
<1> DEFINE m == Head(down[c])
<1>1. m \in Packet /\ down' \in [User -> Seq(Packet)]
  <2>1. down[c] # <<>> /\ Consume(c)
    BY DEF Receive, ReceiveInput, ReceiveDelegate, ReceiveRequest, ReceiveQuit, Receives
  <2> QED
    BY <2>1, ConsumeType
<1>2. present[c] \in SUBSET User /\ queue[c] \in [User -> Seq(Input)]
  BY DEF TypeOK
<1>3. CASE ReceiveInput(c)
  <2>1. AcceptInputs(c, m) /\ m \in InputPacket
    BY <1>1, <1>3, PacketParts DEF ReceiveInput, Receives
  <2> HIDE DEF m
  <2>2. /\ log' \in [User -> [User -> Seq(Input)]]
        /\ auth' \in [User -> [User -> User]] /\ up' \in [User -> Seq(Packet)]
        /\ queue' \in [User -> [User -> Seq(Input)]]
        /\ frame' \in [User -> Nat] /\ ready' \in [User -> BOOLEAN]
    BY <2>1, AcceptInputsType
  <2> QED
    BY <1>1, <1>3, <2>2 DEF ReceiveInput, TypeOK
<1>4. CASE ReceiveDelegate(c)
  <2>1. m.user \in User /\ m.authority \in User
    BY <1>1, <1>4, PacketParts DEF ReceiveDelegate, Receives
  <2>2. \/ UNCHANGED <<auth, up, upUdp, inputVars>>
        \/ /\ auth' = [auth EXCEPT ![c][m.user] = m.authority]
           /\ UNCHANGED <<up, upUdp, inputVars>>
        \/ /\ auth' = [auth EXCEPT ![c][m.user] = m.authority]
           /\ \E v \in Input :
                /\ SendInputs(c, m.user, <<>>, <<v, v>>)
                /\ OnInput(c, present[c], [queue[c] EXCEPT ![m.user] = @ \o <<v, v>>])
    BY <1>4 DEF ReceiveDelegate
  <2>3. UNCHANGED <<serverVars, downUdp, present, udp, pc, todo, commands>>
    BY <1>4 DEF ReceiveDelegate
  <2> HIDE DEF m
  <2>4. CASE UNCHANGED <<auth, up, upUdp, inputVars>>
    BY <1>1, <2>3, <2>4 DEF TypeOK
  <2>5. ASSUME auth' = [auth EXCEPT ![c][m.user] = m.authority]
        PROVE  auth' \in [User -> [User -> User]]
    BY <2>1, <2>5 DEF TypeOK
  <2>6. CASE /\ auth' = [auth EXCEPT ![c][m.user] = m.authority]
             /\ UNCHANGED <<up, upUdp, inputVars>>
    BY <1>1, <2>3, <2>5, <2>6 DEF TypeOK
  <2>7. CASE /\ auth' = [auth EXCEPT ![c][m.user] = m.authority]
             /\ \E v \in Input :
                  /\ SendInputs(c, m.user, <<>>, <<v, v>>)
                  /\ OnInput(c, present[c], [queue[c] EXCEPT ![m.user] = @ \o <<v, v>>])
    <3> PICK v \in Input :
          /\ SendInputs(c, m.user, <<>>, <<v, v>>)
          /\ OnInput(c, present[c], [queue[c] EXCEPT ![m.user] = @ \o <<v, v>>])
      BY <2>7
    <3>1. <<>> \in Seq(Packet) /\ <<v, v>> \in Seq(Input)
      BY EmptySeq
    <3>2. queue[c][m.user] \o <<v, v>> \in Seq(Input)
      BY <1>2, <2>1, <3>1, ConcatProperties
    <3>3. [queue[c] EXCEPT ![m.user] = @ \o <<v, v>>] \in [User -> Seq(Input)]
      BY <1>2, <3>2
    <3>4. /\ log' \in [User -> [User -> Seq(Input)]] /\ up' \in [User -> Seq(Packet)]
          /\ upUdp' \in [User -> SUBSET InputPacket]
      BY <2>1, <3>1, SendInputsType
    <3>5. /\ queue' \in [User -> [User -> Seq(Input)]]
          /\ frame' \in [User -> Nat] /\ ready' \in [User -> BOOLEAN]
      BY <1>2, <3>3, OnInputType
    <3> QED
      BY <1>1, <2>3, <2>5, <2>7, <3>4, <3>5 DEF TypeOK
  <2> QED
    BY <2>2, <2>4, <2>6, <2>7
<1>5. CASE ReceiveRequest(c)
  <2>1. m.user \in User /\ m.authority \in User
    BY <1>1, <1>5, PacketParts DEF ReceiveRequest, Receives
  <2>2. ChangeAuthority(c, m.user, m.authority) \/ UNCHANGED <<auth, up>>
    BY <1>5 DEF ReceiveRequest
  <2> HIDE DEF m
  <2>3. auth' \in [User -> [User -> User]] /\ up' \in [User -> Seq(Packet)]
    BY <2>1, <2>2, ChangeAuthorityType DEF TypeOK
  <2> QED
    BY <1>1, <1>5, <2>3 DEF ReceiveRequest, TypeOK
<1>6. CASE ReceiveQuit(c)
  <2> DEFINE gone == m.user
             pres == present[c] \ {gone}
             q == [queue[c] EXCEPT ![gone] = <<>>]
  <2>1. gone \in User /\ pres \in SUBSET User
    BY <1>1, <1>2, PacketParts
  <2>2. <<>> \in Seq(Input) /\ q \in [User -> Seq(Input)]
    BY <1>2, EmptySeq
  <2>3. present' = [present EXCEPT ![c] = pres]
    BY <1>6 DEF ReceiveQuit
  <2>4. \/ OnInput(c, pres, q) /\ UNCHANGED <<auth, up, upUdp, log>>
        \/ /\ auth' = [auth EXCEPT ![c][c] = c]
           /\ \E v \in Input : /\ SendInputs(c, c, <<Delegate(c, c)>>, <<v>>)
                               /\ OnInput(c, pres, [q EXCEPT ![c] = Append(@, v)])
    BY <1>6 DEF ReceiveQuit
  <2>5. UNCHANGED <<serverVars, downUdp, udp, pc, todo, commands>>
    BY <1>6 DEF ReceiveQuit
  <2> HIDE DEF m, gone, pres, q
  <2>6. present' \in [User -> SUBSET User]
    BY <2>1, <2>3 DEF TypeOK
  <2>7. CASE OnInput(c, pres, q) /\ UNCHANGED <<auth, up, upUdp, log>>
    <3>1. /\ queue' \in [User -> [User -> Seq(Input)]]
          /\ frame' \in [User -> Nat] /\ ready' \in [User -> BOOLEAN]
      BY <2>1, <2>2, <2>7, OnInputType
    <3> QED
      BY <1>1, <2>5, <2>6, <2>7, <3>1 DEF TypeOK
  <2>8. CASE /\ auth' = [auth EXCEPT ![c][c] = c]
             /\ \E v \in Input : /\ SendInputs(c, c, <<Delegate(c, c)>>, <<v>>)
                                 /\ OnInput(c, pres, [q EXCEPT ![c] = Append(@, v)])
    <3> PICK v \in Input : /\ SendInputs(c, c, <<Delegate(c, c)>>, <<v>>)
                           /\ OnInput(c, pres, [q EXCEPT ![c] = Append(@, v)])
      BY <2>8
    <3>1. Delegate(c, c) \in Packet
      BY DEF Delegate, Packet, AuthorityPacket
    <3>2. <<Delegate(c, c)>> \in Seq(Packet) /\ <<v>> \in Seq(Input)
      BY <3>1
    <3>3. Append(q[c], v) \in Seq(Input)
      BY <2>2, AppendProperties
    <3>4. [q EXCEPT ![c] = Append(@, v)] \in [User -> Seq(Input)]
      BY <2>2, <3>3
    <3>5. /\ log' \in [User -> [User -> Seq(Input)]] /\ up' \in [User -> Seq(Packet)]
          /\ upUdp' \in [User -> SUBSET InputPacket]
      BY <3>2, SendInputsType
    <3>6. /\ queue' \in [User -> [User -> Seq(Input)]]
          /\ frame' \in [User -> Nat] /\ ready' \in [User -> BOOLEAN]
      BY <2>1, <3>4, OnInputType
    <3>7. auth' \in [User -> [User -> User]]
      BY <2>8 DEF TypeOK
    <3> QED
      BY <1>1, <2>5, <2>6, <3>5, <3>6, <3>7 DEF TypeOK
  <2> QED
    BY <2>4, <2>7, <2>8
<1> QED
  BY <1>3, <1>4, <1>5, <1>6 DEF Receive

LEMMA UdpType ==
  ASSUME TypeOK, NEW c \in User, ReceiveUdp(c)
  PROVE  TypeOK'
<1> USE DEF serverVars, inputVars, controlVars
<1>1. CASE ReceiveDatagram(c)
  <2> PICK m \in downUdp[c] : AcceptInputs(c, m)
    BY <1>1 DEF ReceiveDatagram
  <2>1. m \in InputPacket
    BY DEF TypeOK
  <2>2. /\ log' \in [User -> [User -> Seq(Input)]]
        /\ auth' \in [User -> [User -> User]] /\ up' \in [User -> Seq(Packet)]
        /\ queue' \in [User -> [User -> Seq(Input)]]
        /\ frame' \in [User -> Nat] /\ ready' \in [User -> BOOLEAN]
    BY <2>1, AcceptInputsType
  <2>3. UNCHANGED <<serverVars, down, upUdp, downUdp, present, udp, pc, todo, commands>>
    BY <1>1 DEF ReceiveDatagram
  <2> QED
    BY <2>2, <2>3 DEF TypeOK
<1>2. CASE ReceiveOrphanDatagram(c)
  <2>1. udp' \in [User -> BOOLEAN]
    BY <1>2 DEF ReceiveOrphanDatagram, TypeOK
  <2> QED
    BY <1>2, <2>1 DEF ReceiveOrphanDatagram, TypeOK
<1>3. CASE ServerDatagram(c)
  <2> PICK m \in upUdp[c] : RelayInputs(c, m)
    BY <1>3 DEF ServerDatagram
  <2>1. m \in InputPacket
    BY DEF TypeOK
  <2>2. /\ srvLog' \in [User -> Seq(Input)] /\ down' \in [User -> Seq(Packet)]
        /\ downUdp' \in [User -> SUBSET InputPacket]
    BY <2>1, RelayInputsType
  <2>3. UNCHANGED <<members, srvAuth, up, upUdp, inputVars, controlVars>>
    BY <1>3 DEF ServerDatagram
  <2> QED
    BY <2>2, <2>3 DEF TypeOK
<1> QED
  BY <1>1, <1>2, <1>3 DEF ReceiveUdp

LEMMA ServeType ==
  ASSUME TypeOK, NEW c \in User, Serve(c)
  PROVE  TypeOK'
<1> USE DEF serverVars, inputVars, controlVars
<1> DEFINE m == Head(up[c])
<1>1. m \in Packet /\ up' \in [User -> Seq(Packet)]
  <2>1. up[c] # <<>> /\ up' = [up EXCEPT ![c] = Tail(@)] /\ up[c] \in Seq(Packet)
    BY DEF Serve, ServerInput, ServerDelegate, ServerRequest, Handles, TypeOK
  <2>2. Head(up[c]) \in Packet /\ Tail(up[c]) \in Seq(Packet)
    BY <2>1, QueueParts
  <2> QED
    BY <2>1, <2>2 DEF TypeOK
<1>2. members \ {c} \in SUBSET User /\ <<m>> \in Seq(Packet)
  BY <1>1 DEF TypeOK
<1>3. CASE ServerInput(c)
  <2>1. RelayInputs(c, m) /\ m \in InputPacket
    BY <1>1, <1>3, PacketParts DEF ServerInput, Handles
  <2>2. UNCHANGED <<members, srvAuth, upUdp, inputVars, controlVars>>
    BY <1>3 DEF ServerInput
  <2> HIDE DEF m
  <2>3. /\ srvLog' \in [User -> Seq(Input)] /\ down' \in [User -> Seq(Packet)]
        /\ downUdp' \in [User -> SUBSET InputPacket]
    BY <2>1, RelayInputsType
  <2> QED
    BY <1>1, <2>2, <2>3 DEF TypeOK
<1>4. CASE ServerDelegate(c)
  <2>1. m.user \in User /\ m.authority \in User
    BY <1>1, <1>4, PacketParts DEF ServerDelegate, Handles
  <2>2. \/ srvAuth' = [srvAuth EXCEPT ![m.user] = m.authority] /\ SendAll(members \ {c}, <<m>>)
        \/ UNCHANGED <<srvAuth, down>>
    BY <1>4 DEF ServerDelegate
  <2>3. UNCHANGED <<members, srvLog, upUdp, downUdp, inputVars, controlVars>>
    BY <1>4 DEF ServerDelegate
  <2> HIDE DEF m
  <2>4. srvAuth' \in [User -> User]
    BY <2>1, <2>2 DEF TypeOK
  <2>5. down' \in [User -> Seq(Packet)]
    BY <1>2, <2>2, SendAllType DEF TypeOK
  <2> QED
    BY <1>1, <2>3, <2>4, <2>5 DEF TypeOK
<1>5. CASE ServerRequest(c)
  <2>1. SendAll(members \ {c}, <<m>>) \/ UNCHANGED down
    BY <1>5 DEF ServerRequest
  <2>2. UNCHANGED <<serverVars, upUdp, downUdp, inputVars, controlVars>>
    BY <1>5 DEF ServerRequest
  <2> HIDE DEF m
  <2>3. down' \in [User -> Seq(Packet)]
    BY <1>2, <2>1, SendAllType DEF TypeOK
  <2> QED
    BY <1>1, <2>2, <2>3 DEF TypeOK
<1> QED
  BY <1>3, <1>4, <1>5 DEF Serve

LEMMA QuitType ==
  ASSUME TypeOK, NEW c \in User, ServerQuit(c)
  PROVE  TypeOK'
<1>1. <<>> \in Seq(Packet) /\ NoInputs \in [User -> Seq(Input)]
  BY EmptySeq DEF NoInputs
<1>2. ASSUME NEW d \in User PROVE Append(down[d], Quit(c)) \in Seq(Packet)
  <2>1. Quit(c) \in Packet /\ down[d] \in Seq(Packet)
    BY DEF Quit, Packet, QuitPacket, TypeOK
  <2> QED
    BY <2>1, AppendProperties
<1>3. down' \in [User -> Seq(Packet)]
  BY <1>1, <1>2 DEF ServerQuit, TypeOK
<1>4. up' \in [User -> Seq(Packet)]
  BY <1>1 DEF ServerQuit, TypeOK
<1>5. upUdp' \in [User -> SUBSET InputPacket] /\ downUdp' \in [User -> SUBSET InputPacket]
  BY DEF ServerQuit, TypeOK
<1>6. present' \in [User -> SUBSET User] /\ todo' \in [User -> SUBSET (User \X User)]
  BY DEF ServerQuit, TypeOK
<1>7. auth' \in [User -> [User -> User]]
  BY DEF ServerQuit, TypeOK
<1>8. log' \in [User -> [User -> Seq(Input)]] /\ queue' \in [User -> [User -> Seq(Input)]]
  BY <1>1 DEF ServerQuit, TypeOK
<1>9. frame' \in [User -> Nat] /\ pc' \in [User -> {"game", "send", "request", "wait"}]
  BY DEF ServerQuit, TypeOK
<1>10. ready' \in [User -> BOOLEAN]
  BY DEF ServerQuit, TypeOK
<1>11. udp' \in [User -> BOOLEAN]
  BY DEF ServerQuit, TypeOK
<1>12. members' \in SUBSET User /\ UNCHANGED <<srvLog, srvAuth, commands>>
  BY DEF ServerQuit, TypeOK
<1> QED
  BY <1>3, <1>4, <1>5, <1>6, <1>7, <1>8, <1>9, <1>10, <1>11, <1>12 DEF TypeOK

LEMMA InitType == Init => TypeOK
<1> SUFFICES ASSUME Init PROVE TypeOK
  OBVIOUS
<1>1. <<>> \in Seq(Packet) /\ NoInputs \in [User -> Seq(Input)]
  BY EmptySeq DEF NoInputs
<1>2. ready \in [User -> BOOLEAN] /\ udp \in [User -> BOOLEAN]
  BY DEF Init
<1> QED
  BY <1>1, <1>2 DEF Init, TypeOK

LEMMA NextType == TypeOK /\ [Next]_vars => TypeOK'
<1> SUFFICES ASSUME TypeOK, [Next]_vars PROVE TypeOK'
  OBVIOUS
<1>1. ASSUME NEW c \in User,
             Emulate(c) \/ Receive(c) \/ Serve(c) \/ ReceiveUdp(c) \/ Command(c) \/ ServerQuit(c)
      PROVE  TypeOK'
  BY <1>1, EmulateType, ReceiveType, ServeType, UdpType, CommandType, QuitType
<1>2. CASE UNCHANGED vars
  BY <1>2 DEF vars, TypeOK
<1> QED
  BY <1>1, <1>2 DEF Next, Finished

(* Every variable keeps its type: every packet a handler finds is one it    *)
(* knows, about users of the game, whatever was relayed, lost or cut short. *)
THEOREM TypeCorrect == Spec => []TypeOK
<1> QED
  BY InitType, NextType, PTL DEF Spec

-----------------------------------------------------------------------------
(* Queues in step with the frame counter.  With f frames done, a client's   *)
(* queue for a stream is aligned with the stream when it holds exactly what *)
(* comes after the first f inputs.                                          *)

Aligned(s, q, f) == f <= Len(s) /\ q = SubSeq(s, f + 1, Len(s))

LEMMA AlignedTail ==
  ASSUME NEW s \in Seq(Input), NEW q \in Seq(Input), NEW f \in Nat,
         Aligned(s, q, f), q # <<>>
  PROVE  Aligned(s, Tail(q), f + 1)
<1>1. Len(s) \in Nat /\ f <= Len(s) /\ q = SubSeq(s, f + 1, Len(s))
  BY LenProperties DEF Aligned
<1>2. f + 1 <= Len(s)
  <2>1. f = Len(s) => q = <<>>
    BY <1>1, SubSeqEmpty
  <2> QED
    BY <1>1, <2>1
<1>3. f + 1 \in 1..Len(s) /\ Len(s) \in (f + 1)..Len(s)
  BY <1>1, <1>2
<1>4. Tail(SubSeq(s, f + 1, Len(s))) = SubSeq(s, (f + 1) + 1, Len(s))
  BY <1>3, HeadTailOfSubSeq
<1> QED
  BY <1>1, <1>2, <1>4 DEF Aligned

LEMMA AlignedConcat ==
  ASSUME NEW s \in Seq(Input), NEW q \in Seq(Input), NEW vs \in Seq(Input), NEW f \in Nat,
         Aligned(s, q, f)
  PROVE  Aligned(s \o vs, q \o vs, f)
<1> DEFINE t == s \o vs
           r == SubSeq(t, f + 1, Len(t))
           p == q \o vs
<1>1. Len(s) \in Nat /\ Len(vs) \in Nat /\ f <= Len(s) /\ q = SubSeq(s, f + 1, Len(s))
  BY LenProperties DEF Aligned
<1>2. t \in Seq(Input) /\ Len(t) = Len(s) + Len(vs)
  BY ConcatProperties
<1>3. /\ \A i \in 1..Len(s) : t[i] = s[i] /\ s[i] \in Input
      /\ \A i \in 1..Len(vs) : t[Len(s) + i] = vs[i]
      /\ \A i \in 1..Len(t) : t[i] \in Input
  BY <1>1, <1>2, ConcatProperties, ElementOfSeq
<1> HIDE DEF t
<1>4. /\ Len(q) = Len(s) - f
      /\ \A i \in 1..Len(q) : q[i] = s[f + i]
  BY <1>1, <1>3, SubSeqProperties
<1>5. /\ r \in Seq(Input) /\ Len(r) = Len(t) - f
      /\ \A i \in 1..Len(r) : r[i] = t[f + i]
  BY <1>1, <1>2, <1>3, SubSeqProperties
<1>6. /\ p \in Seq(Input) /\ Len(p) = Len(q) + Len(vs) /\ Len(q) \in Nat
      /\ \A i \in 1..Len(q) + Len(vs) :
            p[i] = IF i <= Len(q) THEN q[i] ELSE vs[i - Len(q)]
  BY ConcatProperties, LenProperties
<1> HIDE DEF r, p
<1>7. Len(p) = Len(r)
  BY <1>1, <1>2, <1>4, <1>5, <1>6
<1>8. ASSUME NEW i \in 1..Len(p)
      PROVE  p[i] = r[i]
  <2>1. r[i] = t[f + i] /\ i \in 1..(Len(q) + Len(vs))
    BY <1>5, <1>6, <1>7, <1>8
  <2>2. CASE i <= Len(q)
    <3>1. q[i] = s[f + i] /\ f + i \in 1..Len(s)
      BY <1>1, <1>4, <2>1, <2>2
    <3> QED
      BY <1>3, <1>6, <2>1, <2>2, <3>1
  <2>3. CASE i > Len(q)
    <3>1. i - Len(q) \in 1..Len(vs) /\ Len(s) + (i - Len(q)) = f + i
      BY <1>1, <1>4, <2>1, <2>3
    <3>2. p[i] = vs[i - Len(q)]
      BY <1>1, <1>4, <1>6, <2>1, <2>3
    <3> QED
      BY <1>3, <2>1, <3>1, <3>2
  <2> QED
    BY <1>1, <1>4, <2>1, <2>2, <2>3
<1>9. p = r
  BY <1>5, <1>6, <1>7, <1>8, SeqEqual
<1>10. f <= Len(t)
  BY <1>1, <1>2
<1>11. Aligned(t, p, f)
  BY <1>9, <1>10 DEF Aligned, r
<1> QED
  BY <1>11 DEF t, p

\* on_input keeps the queues aligned with the logs as the handler left them.
LEMMA OnInputAligned ==
  ASSUME TypeOK, TypeOK', NEW c \in User, NEW pres \in SUBSET User,
         NEW q \in [User -> Seq(Input)], OnInput(c, pres, q),
         \A u \in pres : Aligned(log'[c][u], q[u], frame[c])
  PROVE  /\ \A u \in pres : Aligned(log'[c][u], queue'[c][u], frame'[c])
         /\ \A d \in User \ {c} : queue'[d] = queue[d] /\ frame'[d] = frame[d]
<1>1. /\ queue \in [User -> [User -> Seq(Input)]] /\ frame \in [User -> Nat]
      /\ frame[c] \in Nat
  BY DEF TypeOK
<1>2. CASE ready[c] \/ \E u \in pres : q[u] = <<>>
  <2>1. queue' = [queue EXCEPT ![c] = q] /\ frame' = frame
    BY <1>2 DEF OnInput
  <2> QED
    BY <1>1, <2>1
<1>3. CASE ~(ready[c] \/ \E u \in pres : q[u] = <<>>)
  <2>1. /\ queue' = [queue EXCEPT ![c] =
                        [u \in User |-> IF u \in pres THEN Tail(q[u]) ELSE q[u]]]
        /\ frame' = [frame EXCEPT ![c] = @ + 1]
    BY <1>3 DEF OnInput
  <2>2. frame'[c] = frame[c] + 1 /\ \A u \in pres : queue'[c][u] = Tail(q[u])
    BY <1>1, <2>1
  <2>3. ASSUME NEW u \in pres
        PROVE  Aligned(log'[c][u], Tail(q[u]), frame[c] + 1)
    <3>1. log'[c][u] \in Seq(Input) /\ q[u] \in Seq(Input) /\ q[u] # <<>>
      BY <1>3 DEF TypeOK
    <3> QED
      BY <1>1, <3>1, AlignedTail
  <2> QED
    BY <1>1, <2>1, <2>2, <2>3
<1> QED
  BY <1>2, <1>3

\* Only the client of the handler can lose its alignment.
LEMMA AlignedElsewhere ==
  ASSUME QueueAligned, NEW c \in User, members' \in SUBSET members, members \in SUBSET User,
         \A d \in members' \ {c} :
            /\ present'[d] = present[d] /\ log'[d] = log[d]
            /\ queue'[d] = queue[d] /\ frame'[d] = frame[d],
         c \in members' =>
            \A u \in present'[c] : Aligned(log'[c][u], queue'[c][u], frame'[c])
  PROVE  QueueAligned'
<1> SUFFICES ASSUME NEW d \in members', NEW u \in present'[d]
             PROVE  Aligned(log'[d][u], queue'[d][u], frame'[d])
  BY DEF QueueAligned, Aligned
<1>1. CASE d = c
  BY <1>1
<1>2. CASE d # c
  <2>1. Aligned(log[d][u], queue[d][u], frame[d])
    BY <1>2 DEF QueueAligned, Aligned
  <2> QED
    BY <1>2, <2>1
<1> QED
  BY <1>1, <1>2

\* An input appended to a log and its queue, or a merge of what is there.
LEMMA EmulateAligned ==
  ASSUME TypeOK, TypeOK', QueueAligned, NEW c \in User, Emulate(c)
  PROVE  QueueAligned'
<1> USE DEF serverVars, inputVars, controlVars
<1>1. /\ members \in SUBSET User /\ members' = members /\ present' = present
      /\ present[c] \in SUBSET User /\ queue[c] \in [User -> Seq(Input)]
      /\ log \in [User -> [User -> Seq(Input)]] /\ queue \in [User -> [User -> Seq(Input)]]
  BY DEF TypeOK, Emulate, ProcessInput, SendInput, GolfSwing, ChangeNext, FinishInput, TakeInput
<1>2. c \in members /\ \A u \in present[c] : Aligned(log[c][u], queue[c][u], frame[c])
  BY DEF QueueAligned, Aligned, Emulate, ProcessInput, SendInput, GolfSwing, ChangeNext,
         FinishInput, TakeInput, ServiceIdle
<1>3. CASE UNCHANGED <<log, queue, frame>>
  BY <1>1, <1>3 DEF QueueAligned
<1>4. CASE \E u \in User : SendInput(c, u)
  <2> PICK w \in User, v \in Input :
        /\ SendInputs(c, w, <<>>, <<v>>)
        /\ queue' = [queue EXCEPT ![c][w] = Append(@, v)]
        /\ frame' = frame
    BY <1>4 DEF SendInput
  <2>1. log' = [log EXCEPT ![c][w] = @ \o <<v>>]
    BY DEF SendInputs
  <2>2. ASSUME NEW u \in present[c]
        PROVE  Aligned(log'[c][u], queue'[c][u], frame'[c])
    <3>1. /\ log[c][u] \in Seq(Input) /\ queue[c][u] \in Seq(Input) /\ frame[c] \in Nat
          /\ <<v>> \in Seq(Input) /\ Append(queue[c][u], v) = queue[c][u] \o <<v>>
      <4>1. log[c][u] \in Seq(Input) /\ queue[c][u] \in Seq(Input) /\ frame[c] \in Nat
        BY <1>1 DEF TypeOK
      <4>2. Append(queue[c][u], v) = queue[c][u] \o <<v>>
        BY <4>1, AppendIsConcat
      <4> QED
        BY <4>1, <4>2
    <3>2. CASE u = w
      <4>1. log'[c][u] = log[c][u] \o <<v>> /\ queue'[c][u] = queue[c][u] \o <<v>>
        BY <1>1, <2>1, <3>1, <3>2
      <4> QED
        BY <1>2, <3>1, <4>1, AlignedConcat
    <3>3. CASE u # w
      <4>1. log'[c][u] = log[c][u] /\ queue'[c][u] = queue[c][u]
        BY <1>1, <2>1, <3>3
      <4> QED
        BY <1>2, <4>1
    <3> QED
      BY <3>2, <3>3
  <2>3. \A d \in members \ {c} : log'[d] = log[d] /\ queue'[d] = queue[d]
    BY <1>1, <2>1
  <2> QED
    BY <1>1, <2>2, <2>3, AlignedElsewhere
<1>5. CASE FinishInput(c)
  <2>1. OnInput(c, present[c], queue[c]) /\ log' = log
    BY <1>5 DEF FinishInput
  <2>2. /\ \A u \in present[c] : Aligned(log'[c][u], queue'[c][u], frame'[c])
        /\ \A d \in User \ {c} : queue'[d] = queue[d] /\ frame'[d] = frame[d]
    BY <1>1, <1>2, <2>1, OnInputAligned
  <2> QED
    BY <1>1, <2>1, <2>2, AlignedElsewhere
<1> QED
  BY <1>3, <1>4, <1>5 DEF Emulate, ProcessInput, GolfSwing, ChangeNext, TakeInput

\* A handler that appends vs to the log of w and to its queue, then on_input.
LEMMA ExtendAligned ==
  ASSUME TypeOK, TypeOK', QueueAligned, NEW c \in members, NEW w \in User,
         NEW vs \in Seq(Input),
         members' = members, present' = present,
         log' = [log EXCEPT ![c][w] = @ \o vs],
         OnInput(c, present[c], [queue[c] EXCEPT ![w] = @ \o vs])
  PROVE  QueueAligned'
<1> DEFINE q == [queue[c] EXCEPT ![w] = @ \o vs]
<1>1. /\ members \in SUBSET User /\ c \in User /\ present[c] \in SUBSET User
      /\ log \in [User -> [User -> Seq(Input)]] /\ queue[c] \in [User -> Seq(Input)]
      /\ frame[c] \in Nat
  BY DEF TypeOK
<1>2. queue[c][w] \o vs \in Seq(Input)
  BY <1>1, ConcatProperties
<1>3. q \in [User -> Seq(Input)]
  BY <1>1, <1>2
<1>4. ASSUME NEW u \in present[c]
      PROVE  Aligned(log'[c][u], q[u], frame[c])
  <2>1. /\ Aligned(log[c][u], queue[c][u], frame[c])
        /\ log[c][u] \in Seq(Input) /\ queue[c][u] \in Seq(Input)
    BY <1>1 DEF QueueAligned, Aligned
  <2>2. CASE u = w
    <3>1. log'[c][u] = log[c][u] \o vs /\ q[u] = queue[c][u] \o vs
      BY <1>1, <2>2
    <3> QED
      BY <1>1, <2>1, <3>1, AlignedConcat
  <2>3. CASE u # w
    <3>1. log'[c][u] = log[c][u] /\ q[u] = queue[c][u]
      BY <1>1, <2>3
    <3> QED
      BY <2>1, <3>1
  <2> QED
    BY <2>2, <2>3
<1>5. OnInput(c, present[c], q)
  OBVIOUS
<1> HIDE DEF q
<1>6. /\ \A u \in present[c] : Aligned(log'[c][u], queue'[c][u], frame'[c])
      /\ \A d \in User \ {c} : queue'[d] = queue[d] /\ frame'[d] = frame[d]
  BY <1>1, <1>3, <1>4, <1>5, OnInputAligned
<1>7. \A d \in members \ {c} : log'[d] = log[d]
  BY <1>1
<1> QED
  BY <1>1, <1>6, <1>7, AlignedElsewhere

LEMMA AcceptAligned ==
  ASSUME TypeOK, TypeOK', QueueAligned, NEW c \in members, NEW m \in InputPacket,
         AcceptInputs(c, m), members' = members, present' = present
  PROVE  QueueAligned'
<1> DEFINE fresh == Fresh(m, log[c][m.user])
<1>1. m.user \in User /\ log[c][m.user] \in Seq(Input)
  BY DEF TypeOK, InputPacket
<1>2. fresh \in Seq(Input)
  BY <1>1, FreshType
<1>3. /\ log' = [log EXCEPT ![c][m.user] = @ \o fresh]
      /\ OnInput(c, present[c], [queue[c] EXCEPT ![m.user] = @ \o fresh])
  BY DEF AcceptInputs
<1> HIDE DEF fresh
<1> QED
  BY <1>1, <1>2, <1>3, ExtendAligned

\* QUIT: the quitter's queue no longer counts, and this user's own queue and
\* log may get an input.
LEMMA QuitAligned ==
  ASSUME TypeOK, TypeOK', QueueAligned, NEW c \in members, ReceiveQuit(c)
  PROVE  QueueAligned'
<1> USE DEF serverVars
<1> DEFINE gone == Head(down[c]).user
           pres == present[c] \ {gone}
           q == [queue[c] EXCEPT ![gone] = <<>>]
<1>1. /\ members \in SUBSET User /\ c \in User /\ present[c] \in SUBSET User
      /\ present \in [User -> SUBSET User]
      /\ log \in [User -> [User -> Seq(Input)]] /\ queue[c] \in [User -> Seq(Input)]
      /\ frame[c] \in Nat
  BY DEF TypeOK
<1>2. /\ present' = [present EXCEPT ![c] = pres] /\ members' = members
      /\ \/ OnInput(c, pres, q) /\ log' = log
         \/ \E v \in Input : /\ log' = [log EXCEPT ![c][c] = @ \o <<v>>]
                             /\ OnInput(c, pres, [q EXCEPT ![c] = Append(@, v)])
  BY DEF ReceiveQuit, SendInputs
<1>3. q \in [User -> Seq(Input)]
  BY <1>1, EmptySeq
<1>4. \A u \in pres : /\ Aligned(log[c][u], q[u], frame[c])
                      /\ log[c][u] \in Seq(Input) /\ q[u] \in Seq(Input)
  <2> SUFFICES ASSUME NEW u \in pres
               PROVE  /\ Aligned(log[c][u], q[u], frame[c])
                      /\ log[c][u] \in Seq(Input) /\ q[u] \in Seq(Input)
    OBVIOUS
  <2>1. u \in User /\ q[u] = queue[c][u]
    BY <1>1
  <2>2. Aligned(log[c][u], queue[c][u], frame[c])
    BY DEF QueueAligned, Aligned
  <2> HIDE DEF q
  <2> QED
    BY <1>1, <1>3, <2>1, <2>2
<1>5. pres \in SUBSET User /\ present'[c] = pres
      /\ \A d \in members \ {c} : present'[d] = present[d]
  BY <1>1, <1>2
<1> HIDE DEF gone, pres, q
<1>6. CASE OnInput(c, pres, q) /\ log' = log
  <2>1. /\ \A u \in pres : Aligned(log'[c][u], queue'[c][u], frame'[c])
        /\ \A d \in User \ {c} : queue'[d] = queue[d] /\ frame'[d] = frame[d]
    BY <1>1, <1>3, <1>4, <1>5, <1>6, OnInputAligned
  <2> QED
    BY <1>1, <1>2, <1>5, <1>6, <2>1, AlignedElsewhere
<1>7. ASSUME NEW v \in Input, log' = [log EXCEPT ![c][c] = @ \o <<v>>],
             OnInput(c, pres, [q EXCEPT ![c] = Append(@, v)])
      PROVE  QueueAligned'
  <2> DEFINE p == [q EXCEPT ![c] = Append(@, v)]
  <2>1. /\ <<v>> \in Seq(Input) /\ Append(q[c], v) = q[c] \o <<v>>
        /\ Append(q[c], v) \in Seq(Input)
    BY <1>1, <1>3, AppendIsConcat, AppendProperties
  <2>2. p \in [User -> Seq(Input)]
    BY <1>3, <2>1
  <2>3. ASSUME NEW u \in pres PROVE Aligned(log'[c][u], p[u], frame[c])
    <3>1. CASE u = c
      <4>1. log'[c][u] = log[c][u] \o <<v>> /\ p[u] = q[u] \o <<v>>
        BY <1>1, <1>3, <1>7, <2>1, <3>1
      <4>2. Aligned(log[c][u] \o <<v>>, q[u] \o <<v>>, frame[c])
        BY <1>1, <1>4, <2>1, AlignedConcat
      <4> QED
        BY <4>1, <4>2
    <3>2. CASE u # c
      <4>1. log'[c][u] = log[c][u] /\ p[u] = q[u]
        BY <1>1, <1>3, <1>5, <1>7, <3>2
      <4> QED
        BY <1>4, <4>1
    <3> QED
      BY <3>1, <3>2
  <2>4. OnInput(c, pres, p)
    BY <1>7
  <2> HIDE DEF p
  <2>5. /\ \A u \in pres : Aligned(log'[c][u], queue'[c][u], frame'[c])
        /\ \A d \in User \ {c} : queue'[d] = queue[d] /\ frame'[d] = frame[d]
    BY <1>1, <1>5, <2>2, <2>3, <2>4, OnInputAligned
  <2>6. \A d \in members \ {c} : log'[d] = log[d]
    BY <1>1, <1>7
  <2> QED
    BY <1>1, <1>2, <1>5, <2>5, <2>6, AlignedElsewhere
<1> QED
  BY <1>2, <1>6, <1>7

LEMMA QueueAlignedStep ==
  ASSUME TypeOK, TypeOK', QueueAligned, [Next]_vars
  PROVE  QueueAligned'
<1> USE DEF serverVars, inputVars, controlVars
<1> SUFFICES ASSUME NEW c \in User,
                    Emulate(c) \/ Receive(c) \/ Serve(c) \/ ReceiveUdp(c) \/ Command(c)
                      \/ ServerQuit(c)
             PROVE  QueueAligned'
  BY DEF Next, Finished, vars, QueueAligned
<1>1. CASE Emulate(c)
  BY <1>1, EmulateAligned
<1>2. CASE ReceiveInput(c)
  <2> DEFINE m == Head(down[c])
  <2>1. /\ AcceptInputs(c, m) /\ c \in members /\ members' = members /\ present' = present
    BY <1>2 DEF ReceiveInput, Receives, ServiceIdle
  <2>2. m \in InputPacket
    BY <1>2, QueueParts, PacketParts DEF ReceiveInput, Receives, TypeOK
  <2> HIDE DEF m
  <2> QED
    BY <2>1, <2>2, AcceptAligned
<1>3. CASE ReceiveDatagram(c)
  <2> PICK m \in downUdp[c] : AcceptInputs(c, m)
    BY <1>3 DEF ReceiveDatagram
  <2>1. m \in InputPacket /\ c \in members /\ members' = members /\ present' = present
    BY <1>3 DEF ReceiveDatagram, ServiceIdle, TypeOK
  <2> QED
    BY <2>1, AcceptAligned
<1>4. CASE ReceiveDelegate(c)
  <2> DEFINE w == Head(down[c]).user
  <2>1. /\ w \in User /\ c \in members /\ members' = members /\ present' = present
    BY <1>4, QueueParts, PacketParts DEF ReceiveDelegate, Receives, ServiceIdle, TypeOK
  <2>2. \/ UNCHANGED inputVars
        \/ \E v \in Input :
              /\ log' = [log EXCEPT ![c][w] = @ \o <<v, v>>]
              /\ OnInput(c, present[c], [queue[c] EXCEPT ![w] = @ \o <<v, v>>])
    BY <1>4 DEF ReceiveDelegate, SendInputs
  <2> HIDE DEF w
  <2>3. CASE UNCHANGED inputVars
    BY <2>1, <2>3 DEF QueueAligned
  <2>4. ASSUME NEW v \in Input, log' = [log EXCEPT ![c][w] = @ \o <<v, v>>],
               OnInput(c, present[c], [queue[c] EXCEPT ![w] = @ \o <<v, v>>])
        PROVE  QueueAligned'
    <3>1. <<v, v>> \in Seq(Input)
      OBVIOUS
    <3> QED
      BY <2>1, <2>4, <3>1, ExtendAligned
  <2> QED
    BY <2>2, <2>3, <2>4
<1>5. CASE ReceiveQuit(c)
  <2>1. c \in members
    BY <1>5 DEF ReceiveQuit, Receives, ServiceIdle
  <2> QED
    BY <1>5, <2>1, QuitAligned
<1>6. CASE ServerQuit(c)
  <2>1. /\ members' = members \ {c} /\ members \in SUBSET User
        /\ \A d \in User \ {c} :
              /\ present'[d] = present[d] /\ log'[d] = log[d]
              /\ queue'[d] = queue[d] /\ frame'[d] = frame[d]
    BY <1>6 DEF ServerQuit, TypeOK
  <2> QED
    BY <2>1, AlignedElsewhere
<1>7. CASE UNCHANGED <<members, present, log, queue, frame>>
  BY <1>7 DEF QueueAligned
<1> QED
  BY <1>1, <1>2, <1>3, <1>4, <1>5, <1>6, <1>7
     DEF Receive, ReceiveRequest, Serve, ServerInput, ServerDelegate, ServerRequest,
         ReceiveUdp, ReceiveOrphanDatagram, ServerDatagram, Command, GolfCommand, AuthCommand

(* However inputs reach a client, over TCP, in a datagram's history, by its  *)
(* own send_input or the delegation of someone's stream, its queues hold     *)
(* exactly the inputs from the next frame on: on_input never merges an input *)
(* of another frame, and its assertion on input_id holds.                    *)
THEOREM QueueAlignedAlways == Spec => []QueueAligned
<1>1. Init => QueueAligned
  <2> SUFFICES ASSUME Init, NEW c \in members, NEW u \in present[c]
               PROVE  Aligned(log[c][u], queue[c][u], frame[c])
    BY DEF QueueAligned, Aligned
  <2>1. log[c][u] = <<>> /\ queue[c][u] = <<>> /\ frame[c] = 0
    BY DEF Init, NoInputs
  <2>2. SubSeq(log[c][u], 1, 0) = <<>> /\ Len(log[c][u]) = 0
    BY <2>1, SubSeqEmpty, EmptySeq
  <2> QED
    BY <2>1, <2>2 DEF Aligned
<1>2. TypeOK /\ TypeOK' /\ QueueAligned /\ [Next]_vars => QueueAligned'
  BY QueueAlignedStep
<1> QED
  BY <1>1, <1>2, TypeCorrect, PTL DEF Spec

-----------------------------------------------------------------------------
(* The order of QUIT and everything else.  What is on the way to a client   *)
(* that lists the users P while M are members is sound when no QUIT about a *)
(* member is on the way, and every other packet names listed users whose    *)
(* QUIT does not come before it.                                            *)

IsQuit(m, u) == m.type = "QUIT" /\ m.user = u

Names(m) ==
    CASE m.type = "QUIT" -> {}
      [] m.type = "INPUT_DATA" -> {m.user}
      [] OTHER -> {m.user, m.authority}

Sound(s, P, M) ==
    /\ \A u \in M : u \in P /\ \A i \in 1..Len(s) : ~IsQuit(s[i], u)
    /\ \A i \in 1..Len(s) : \A n \in Names(s[i]) :
          n \in P /\ \A j \in 1..i-1 : ~IsQuit(s[j], n)

QuitOrder == \A c \in members : Sound(down[c], present[c], members)

LEMMA SoundConcat ==
  ASSUME NEW s \in Seq(Packet), NEW ps \in Seq(Packet), NEW P, NEW M, Sound(s, P, M),
         \A i \in 1..Len(ps) : ps[i].type # "QUIT" /\ Names(ps[i]) \subseteq M
  PROVE  Sound(s \o ps, P, M)
<1> DEFINE t == s \o ps
<1>1. /\ Len(s) \in Nat /\ Len(ps) \in Nat /\ Len(t) = Len(s) + Len(ps)
      /\ \A i \in 1..Len(s) : t[i] = s[i]
      /\ \A i \in 1..Len(t) : i > Len(s) => t[i] = ps[i - Len(s)] /\ i - Len(s) \in 1..Len(ps)
  BY LenProperties, ConcatProperties
<1> HIDE DEF t
<1>2. ASSUME NEW u \in M, NEW i \in 1..Len(t) PROVE ~IsQuit(t[i], u)
  <2>1. CASE i <= Len(s)
    BY <1>1, <2>1 DEF Sound
  <2>2. CASE i > Len(s)
    BY <1>1, <2>2 DEF IsQuit
  <2> QED
    BY <1>1, <2>1, <2>2
<1>3. ASSUME NEW i \in 1..Len(t), NEW n \in Names(t[i])
      PROVE  n \in P /\ \A j \in 1..i-1 : ~IsQuit(t[j], n)
  <2>1. CASE i <= Len(s)
    <3>1. t[i] = s[i] /\ i \in 1..Len(s)
      BY <1>1, <2>1
    <3>2. \A j \in 1..i-1 : t[j] = s[j]
      BY <1>1, <2>1
    <3> QED
      BY <1>3, <3>1, <3>2 DEF Sound
  <2>2. CASE i > Len(s)
    <3>1. n \in M
      BY <1>1, <1>3, <2>2
    <3>2. \A j \in 1..i-1 : j \in 1..Len(t)
      BY <1>1
    <3> QED
      BY <1>2, <3>1, <3>2 DEF Sound
  <2> QED
    BY <1>1, <2>1, <2>2
<1>4. \A u \in M : u \in P
  BY DEF Sound
<1>5. Sound(t, P, M)
  BY <1>2, <1>3, <1>4 DEF Sound
<1> QED
  BY <1>5 DEF t

LEMMA SoundQuit ==
  ASSUME NEW s \in Seq(Packet), NEW P, NEW M, Sound(s, P, M), NEW g \in User
  PROVE  Sound(Append(s, Quit(g)), P, M \ {g})
<1> DEFINE t == Append(s, Quit(g))
<1>1. Quit(g) \in Packet /\ Quit(g).type = "QUIT" /\ Quit(g).user = g
  BY DEF Quit, Packet, QuitPacket
<1>2. /\ Len(s) \in Nat /\ Len(t) = Len(s) + 1 /\ t[Len(s) + 1] = Quit(g)
      /\ \A i \in 1..Len(s) : t[i] = s[i]
  BY <1>1, LenProperties, AppendProperties
<1> HIDE DEF t
<1>3. ASSUME NEW u \in M \ {g}, NEW i \in 1..Len(t) PROVE ~IsQuit(t[i], u)
  <2>1. CASE i \in 1..Len(s)
    BY <1>2, <2>1 DEF Sound
  <2>2. CASE i = Len(s) + 1
    BY <1>1, <1>2, <2>2 DEF IsQuit
  <2> QED
    BY <1>2, <2>1, <2>2
<1>4. ASSUME NEW i \in 1..Len(t), NEW n \in Names(t[i])
      PROVE  n \in P /\ \A j \in 1..i-1 : ~IsQuit(t[j], n)
  <2>1. i \in 1..Len(s)
    BY <1>1, <1>2, <1>4 DEF Names
  <2>2. t[i] = s[i] /\ \A j \in 1..i-1 : t[j] = s[j]
    BY <1>2, <2>1
  <2> QED
    BY <1>4, <2>1, <2>2 DEF Sound
<1>5. \A u \in M \ {g} : u \in P
  BY DEF Sound
<1>6. Sound(t, P, M \ {g})
  BY <1>3, <1>4, <1>5 DEF Sound
<1> QED
  BY <1>6 DEF t

LEMMA SoundTail ==
  ASSUME NEW s \in Seq(Packet), NEW P, NEW M, Sound(s, P, M), s # <<>>
  PROVE  /\ Sound(Tail(s), P, M)
         /\ Head(s).type = "QUIT" => Sound(Tail(s), P \ {Head(s).user}, M)
         /\ Names(Head(s)) \subseteq P
<1> DEFINE t == Tail(s)
<1>1. Len(s) \in Nat /\ Len(s) >= 1
  BY EmptySeq, LenProperties
<1>2. Head(s) = s[1]
  BY <1>1
<1>3. /\ Len(t) = Len(s) - 1
      /\ \A i \in 1..Len(t) : t[i] = s[i + 1]
  BY HeadTailProperties
<1> HIDE DEF t
<1>4. \A u \in M : u \in P /\ \A i \in 1..Len(t) : ~IsQuit(t[i], u)
  BY <1>1, <1>3 DEF Sound
<1>5. ASSUME NEW i \in 1..Len(t), NEW n \in Names(t[i])
      PROVE  /\ n \in P /\ ~IsQuit(s[1], n)
             /\ \A j \in 1..i-1 : ~IsQuit(t[j], n)
  <2>1. t[i] = s[i + 1] /\ i + 1 \in 1..Len(s) /\ 1 \in 1..((i + 1) - 1)
    BY <1>1, <1>3
  <2>2. \A j \in 1..i-1 : t[j] = s[j + 1] /\ j + 1 \in 1..((i + 1) - 1)
    BY <1>1, <1>3
  <2> QED
    BY <1>5, <2>1, <2>2 DEF Sound
<1>6. Sound(t, P, M)
  BY <1>4, <1>5 DEF Sound
<1>7. ASSUME s[1].type = "QUIT"
      PROVE  Sound(t, P \ {s[1].user}, M)
  <2>1. s[1].user \notin M
    BY <1>1, <1>7 DEF Sound, IsQuit
  <2>2. \A i \in 1..Len(t) : s[1].user \notin Names(t[i])
    BY <1>5, <1>7 DEF IsQuit
  <2> QED
    BY <1>4, <1>5, <2>1, <2>2 DEF Sound
<1>8. Names(s[1]) \subseteq P
  BY <1>1 DEF Sound
<1> QED
  BY <1>2, <1>6, <1>7, <1>8 DEF t

LEMMA SendAllSound ==
  ASSUME TypeOK, QuitOrder, NEW to \in SUBSET User, NEW ps \in Seq(Packet), SendAll(to, ps),
         UNCHANGED <<members, present>>,
         \A i \in 1..Len(ps) : ps[i].type # "QUIT" /\ Names(ps[i]) \subseteq members
  PROVE  QuitOrder'
<1> SUFFICES ASSUME NEW d \in members
             PROVE  Sound(down'[d], present[d], members)
  BY DEF QuitOrder
<1>1. d \in User /\ down[d] \in Seq(Packet) /\ Sound(down[d], present[d], members)
  BY DEF TypeOK, QuitOrder
<1>2. down'[d] = IF d \in to THEN down[d] \o ps ELSE down[d]
  BY <1>1 DEF SendAll
<1> QED
  BY <1>1, <1>2, SoundConcat

LEMMA RelaySound ==
  ASSUME TypeOK, QuitOrder, NEW c \in User, NEW m \in InputPacket, RelayInputs(c, m),
         UNCHANGED <<members, present>>
  PROVE  QuitOrder'
<1> DEFINE fresh == IF m.user \in members THEN Fresh(m, srvLog[m.user]) ELSE <<>>
           ps == Packets(m.user, srvLog[m.user], fresh)
<1>1. m.user \in User /\ srvLog[m.user] \in Seq(Input) /\ members \ {c} \in SUBSET User
  BY DEF TypeOK, InputPacket
<1>2. fresh \in Seq(Input) /\ (m.user \notin members => fresh = <<>>)
  BY <1>1, FreshType, EmptySeq
<1>3. SendAll(members \ {c}, ps)
  BY DEF RelayInputs
<1> HIDE DEF fresh
<1>4. /\ ps \in Seq(Packet) /\ Len(ps) = Len(fresh)
      /\ \A i \in 1..Len(fresh) : ps[i].type = "INPUT_DATA" /\ ps[i].user = m.user
  BY <1>1, <1>2, PacketsType
<1> HIDE DEF ps
<1>5. \A i \in 1..Len(ps) : m.user \in members
  BY <1>2, <1>4, EmptySeq
<1>6. \A i \in 1..Len(ps) : ps[i].type # "QUIT" /\ Names(ps[i]) \subseteq members
  BY <1>4, <1>5 DEF Names
<1> QED
  BY <1>1, <1>3, <1>4, <1>6, SendAllSound

LEMMA QuitOrderStep ==
  ASSUME TypeOK, QuitOrder, [Next]_vars
  PROVE  QuitOrder'
<1> USE DEF serverVars, inputVars, controlVars
<1> SUFFICES ASSUME NEW c \in User,
                    Emulate(c) \/ Receive(c) \/ Serve(c) \/ ReceiveUdp(c) \/ Command(c)
                      \/ ServerQuit(c)
             PROVE  QuitOrder'
  BY DEF Next, Finished, vars, QuitOrder
<1>1. CASE UNCHANGED <<members, present, down>>
  BY <1>1 DEF QuitOrder
<1>2. CASE Receive(c)
  <2> DEFINE m == Head(down[c])
  <2>1. /\ c \in members /\ down[c] # <<>> /\ down' = [down EXCEPT ![c] = Tail(@)]
        /\ members' = members
        /\ \/ present' = present
           \/ m.type = "QUIT" /\ present' = [present EXCEPT ![c] = present[c] \ {m.user}]
    BY <1>2 DEF Receive, ReceiveInput, ReceiveDelegate, ReceiveRequest, ReceiveQuit,
                Receives, ServiceIdle, Consume
  <2>2. /\ down \in [User -> Seq(Packet)] /\ present \in [User -> SUBSET User]
        /\ members \in SUBSET User
    BY DEF TypeOK
  <2>3. /\ Sound(Tail(down[c]), present[c], members)
        /\ m.type = "QUIT" => Sound(Tail(down[c]), present[c] \ {m.user}, members)
    BY <2>1, <2>2, SoundTail DEF QuitOrder
  <2> HIDE DEF m
  <2>4. Sound(down'[c], present'[c], members')
    BY <2>1, <2>2, <2>3
  <2>5. \A d \in members \ {c} : down'[d] = down[d] /\ present'[d] = present[d]
    BY <2>1, <2>2
  <2> QED
    BY <2>1, <2>4, <2>5 DEF QuitOrder
<1>3. CASE Serve(c)
  <2> DEFINE m == Head(up[c])
  <2>1. m \in Packet /\ UNCHANGED <<members, present>>
    BY <1>3, QueueParts DEF Serve, ServerInput, ServerDelegate, ServerRequest, Handles, TypeOK
  <2>2. CASE ServerInput(c)
    <3>1. RelayInputs(c, m) /\ m \in InputPacket
      BY <2>1, <2>2, PacketParts DEF ServerInput, Handles
    <3> HIDE DEF m
    <3> QED
      BY <2>1, <3>1, RelaySound
  <2>3. CASE ServerDelegate(c) \/ ServerRequest(c)
    <3>1. /\ m.type \in {"DELEGATE_AUTHORITY", "REQUEST_AUTHORITY"}
          /\ \/ SendAll(members \ {c}, <<m>>) /\ {m.user, m.authority} \subseteq members
             \/ down' = down
      BY <2>3 DEF ServerDelegate, ServerRequest, Handles
    <3> HIDE DEF m
    <3>2. <<m>> \in Seq(Packet) /\ members \ {c} \in SUBSET User
      BY <2>1 DEF TypeOK
    <3>3. CASE {m.user, m.authority} \subseteq members
      <4>1. \A i \in 1..Len(<<m>>) : <<m>>[i].type # "QUIT" /\ Names(<<m>>[i]) \subseteq members
        BY <3>1, <3>3 DEF Names
      <4> QED
        BY <1>1, <2>1, <3>1, <3>2, <4>1, SendAllSound
    <3>4. CASE down' = down
      BY <1>1, <2>1, <3>4
    <3> QED
      BY <3>1, <3>3, <3>4
  <2> QED
    BY <1>3, <2>2, <2>3 DEF Serve
<1>4. CASE ServerDatagram(c)
  <2> PICK m \in upUdp[c] : RelayInputs(c, m)
    BY <1>4 DEF ServerDatagram
  <2>1. m \in InputPacket /\ UNCHANGED <<members, present>>
    BY <1>4 DEF ServerDatagram, TypeOK
  <2> QED
    BY <2>1, RelaySound
<1>5. CASE ServerQuit(c)
  <2> SUFFICES ASSUME NEW d \in members \ {c}
               PROVE  Sound(down'[d], present'[d], members \ {c})
    BY <1>5 DEF QuitOrder, ServerQuit
  <2>1. d \in User /\ down[d] \in Seq(Packet) /\ present \in [User -> SUBSET User]
    BY DEF TypeOK
  <2>2. down'[d] = Append(down[d], Quit(c)) /\ present'[d] = present[d]
    BY <1>5, <2>1 DEF ServerQuit
  <2> QED
    BY <2>1, <2>2, SoundQuit DEF QuitOrder
<1> QED
  BY <1>1, <1>2, <1>3, <1>4, <1>5
     DEF Emulate, ProcessInput, SendInput, GolfSwing, ChangeNext, FinishInput, TakeInput,
         ReceiveUdp, ReceiveDatagram, ReceiveOrphanDatagram, Command, GolfCommand, AuthCommand

(* The server never relays an input of a user over TCP after the QUIT about *)
(* that user, whoever holds authority over the stream and however late the  *)
(* holder's packets reach the server: client::on_receive always finds the   *)
(* user of an INPUT_DATA packet, and never misreads the rest of it.         *)
THEOREM NoOrphanInputAlways == Spec => []NoOrphanInput
<1>1. Init => QuitOrder
  <2>1. Len(<<>>) = 0
    BY EmptySeq
  <2> QED
    BY <2>1 DEF Init, QuitOrder, Sound
<1>2. TypeOK /\ QuitOrder /\ [Next]_vars => QuitOrder'
  BY QuitOrderStep
<1>3. TypeOK /\ QuitOrder => NoOrphanInput
  <2> SUFFICES ASSUME TypeOK, QuitOrder, NEW c \in members, down[c] # <<>>,
                      Head(down[c]).type = "INPUT_DATA"
               PROVE  Head(down[c]).user \in present[c]
    BY DEF NoOrphanInput
  <2>1. down[c] \in Seq(Packet) /\ Sound(down[c], present[c], members)
    BY DEF TypeOK, QuitOrder
  <2> QED
    BY <2>1, SoundTail DEF Names
<1> QED
  BY <1>1, <1>2, <1>3, TypeCorrect, PTL DEF Spec

=============================================================================
