---------------------------- MODULE TunnelProofs ----------------------------
(***************************************************************************)
(* The tunnel for every chain of hops, every number of bytes and every     *)
(* capacity of the links: bytes arrive once and in order, and end of file  *)
(* is not truncation.                                                      *)
(***************************************************************************)
EXTENDS Tunnel, TLAPS, WellFoundedInduction, SequenceTheorems

(* The variables as functions on their whole domains.                       *)
Shape ==
    /\ pipe \in [Dirs -> [Links -> Seq(Nat)]]
    /\ sent \in [Dirs -> Nat]
    /\ got \in [Dirs -> [bytes : Seq(Nat), eof : BOOLEAN]]

(* The bytes a + 1 to c, in order.                                          *)
Numbers(a, c) == [n \in 1 .. c - a |-> a + n]

(* A direction cut at the links: b[0] bytes were read, and the link at      *)
(* distance i from the receiver holds the bytes b[i] + 1 to b[i + 1].       *)
Boundaries(d, b) ==
    /\ got[d].bytes = Numbers(0, b[0])
    /\ b[Len(hops) + 1] = sent[d]
    /\ \A i \in Links : b[i] <= b[i + 1] /\ AtDistance(d, i) = Numbers(b[i], b[i + 1])

FlowInv ==
    lost = {} => \A d \in Dirs : \E b \in [0 .. Len(hops) + 1 -> 0 .. MaxBytes[d]] : Boundaries(d, b)

(* A copy is at its end when it has drained what it reads from, whose       *)
(* writer has finished; a link is finished by a copy at its end; a receiver *)
(* is at its end when it has drained the last link.                         *)
EofInv ==
    lost = {} => \A d \in Dirs :
        /\ \A h \in HopIds :
             /\ hop[h][d] = "eof" => fin[d][In(h, d)] /\ pipe[d][In(h, d)] = <<>>
             /\ fin[d][Out(h, d)] => hop[h][d] = "eof"
        /\ got[d].eof => fin[d][LastLink(d)] /\ pipe[d][LastLink(d)] = <<>>

TunnelInv == TypeOK /\ Shape /\ FlowInv /\ EofInv
-----------------------------------------------------------------------------
(* A set of natural numbers that is not empty has a least element: the      *)
(* induction along the chain.                                               *)
LEMMA LeastNat ==
    ASSUME NEW T \in SUBSET Nat, T # {}
    PROVE  \E x \in T : \A y \in T : x <= y
<1>1. IsWellFoundedOn(OpToRel(<, Nat), Nat)
  BY NatLessThanWellFounded, Zenon
<1>2. PICK x \in T : \A y \in T : ~ (<<y, x>> \in OpToRel(<, Nat))
  BY <1>1, WFMin, Zenon
<1>3. \A y \in T : ~ (y < x)
  BY <1>2 DEF OpToRel
<1> QED BY <1>3

(* A set that has 0 and with every number below n its successor has all     *)
(* numbers up to n.                                                         *)
LEMMA UpTo ==
    ASSUME NEW n \in Nat, NEW S, 0 \in S, \A i \in 0 .. n - 1 : i \in S => i + 1 \in S
    PROVE  \A i \in 0 .. n : i \in S
<1> SUFFICES ASSUME NEW j \in 0 .. n, j \notin S PROVE FALSE
  OBVIOUS
<1> DEFINE T == {i \in 0 .. n : i \notin S}
<1>1. T \in SUBSET Nat /\ T # {}
  OBVIOUS
<1>2. PICK m \in T : \A y \in T : m <= y
  <2> HIDE DEF T
  <2> QED BY <1>1, LeastNat
<1>3. m # 0
  BY <1>2
<1>4. m - 1 \in 0 .. n - 1 /\ m - 1 \in S
  BY <1>2, <1>3
<1>5. m \in S
  BY <1>4
<1> QED BY <1>2, <1>5

(* Runs of consecutive bytes. *)
LEMMA NumbersSeq ==
    ASSUME NEW a \in Nat, NEW c \in Nat, a <= c
    PROVE  Numbers(a, c) \in Seq(Nat) /\ Len(Numbers(a, c)) = c - a
BY DEF Numbers

LEMMA NumbersEmpty ==
    ASSUME NEW a \in Nat, NEW c \in Nat, a <= c
    PROVE  Numbers(a, c) = <<>> <=> a = c
<1>1. Len(Numbers(a, c)) = c - a /\ Numbers(a, c) \in Seq(Nat)
  BY NumbersSeq
<1>2. a = c => Numbers(a, c) = <<>>
  BY DEF Numbers
<1>3. Numbers(a, c) = <<>> => a = c
  BY <1>1
<1> QED BY <1>2, <1>3

LEMMA NumbersAppend ==
    ASSUME NEW a \in Nat, NEW c \in Nat, a <= c
    PROVE  Append(Numbers(a, c), c + 1) = Numbers(a, c + 1)
BY DEF Numbers

LEMMA NumbersHead ==
    ASSUME NEW a \in Nat, NEW c \in Nat, a < c
    PROVE  Head(Numbers(a, c)) = a + 1 /\ Tail(Numbers(a, c)) = Numbers(a + 1, c)
<1>1. Numbers(a, c) \in Seq(Nat) /\ Len(Numbers(a, c)) = c - a
  BY NumbersSeq
<1>2. Head(Numbers(a, c)) = a + 1
  BY <1>1 DEF Numbers
<1>3. Tail(Numbers(a, c)) = Numbers(a + 1, c)
  <2>1. Numbers(a + 1, c) \in Seq(Nat) /\ Len(Numbers(a + 1, c)) = c - (a + 1)
    BY NumbersSeq
  <2>2. Numbers(a, c) # <<>>
    BY NumbersEmpty
  <2>3. /\ Tail(Numbers(a, c)) \in Seq(Nat)
        /\ Len(Tail(Numbers(a, c))) = c - (a + 1)
        /\ \A i \in 1 .. c - (a + 1) : Tail(Numbers(a, c))[i] = Numbers(a, c)[i + 1]
    BY <1>1, <2>2, HeadTailProperties
  <2>4. \A i \in 1 .. c - (a + 1) : Numbers(a, c)[i + 1] = Numbers(a + 1, c)[i]
    BY DEF Numbers
  <2> QED BY <2>1, <2>3, <2>4, SeqEqual
<1> QED BY <1>2, <1>3

LEMMA NumbersJoin ==
    ASSUME NEW a \in Nat, NEW b \in Nat, NEW c \in Nat, a <= b, b <= c
    PROVE  Numbers(a, b) \o Numbers(b, c) = Numbers(a, c)
BY DEF Numbers

-----------------------------------------------------------------------------
(* The links of a hop. *)
LEMMA HopLinks ==
    ASSUME TypeOK, NEW h \in HopIds, NEW d \in Dirs
    PROVE  /\ Len(hops) \in Nat \ {0}
           /\ In(h, d) \in Links /\ Out(h, d) \in Links /\ In(h, d) # Out(h, d)
           /\ FirstLink(d) \in Links /\ LastLink(d) \in Links
<1>1. Len(hops) \in Nat \ {0}
  BY TunnelAssumption DEF TypeOK
<1> QED BY <1>1 DEF HopIds, Links, In, Out, FirstLink, LastLink, Dirs

LEMMA EndLinks ==
    ASSUME TypeOK, NEW d \in Dirs
    PROVE  Len(hops) \in Nat \ {0} /\ FirstLink(d) \in Links /\ LastLink(d) \in Links
<1>1. Len(hops) \in Nat \ {0}
  BY TunnelAssumption DEF TypeOK
<1> QED BY <1>1 DEF Links, FirstLink, LastLink

(* What a hop moves: the oldest byte of the link it reads becomes the       *)
(* newest of the link it writes.                                            *)
LEMMA MoveEffect ==
    ASSUME TypeOK, Shape, NEW h \in HopIds, NEW d \in Dirs, Move(h, d)
    PROVE  /\ pipe' \in [Dirs -> [Links -> Seq(Nat)]]
           /\ pipe'[d][In(h, d)] = Tail(pipe[d][In(h, d)])
           /\ pipe'[d][Out(h, d)] = Append(pipe[d][Out(h, d)], Head(pipe[d][In(h, d)]))
           /\ \A i \in Links \ {In(h, d), Out(h, d)} : pipe'[d][i] = pipe[d][i]
           /\ \A e \in Dirs \ {d} : pipe'[e] = pipe[e]
<1>1. In(h, d) \in Links /\ Out(h, d) \in Links /\ In(h, d) # Out(h, d)
  BY HopLinks
<1>2. Tail(pipe[d][In(h, d)]) \in Seq(Nat) /\ Head(pipe[d][In(h, d)]) \in Nat
  BY <1>1, HeadTailProperties DEF Shape, Move
<1>3. Append(pipe[d][Out(h, d)], Head(pipe[d][In(h, d)])) \in Seq(Nat)
  BY <1>1, <1>2 DEF Shape
<1>4. pipe' = [pipe EXCEPT ![d] = [[pipe[d] EXCEPT ![In(h, d)] = Tail(pipe[d][In(h, d)])]
                 EXCEPT ![Out(h, d)] = Append(pipe[d][Out(h, d)], Head(pipe[d][In(h, d)]))]]
  BY <1>1 DEF Move, Shape
<1> QED BY <1>1, <1>2, <1>3, <1>4 DEF Shape

(* What a sender writes, and a receiver reads. *)
LEMMA SendEffect ==
    ASSUME TypeOK, Shape, NEW d \in Dirs, Send(d)
    PROVE  /\ pipe' \in [Dirs -> [Links -> Seq(Nat)]]
           /\ pipe'[d][FirstLink(d)] = Append(pipe[d][FirstLink(d)], sent[d] + 1)
           /\ \A i \in Links \ {FirstLink(d)} : pipe'[d][i] = pipe[d][i]
           /\ \A e \in Dirs \ {d} : pipe'[e] = pipe[e]
           /\ sent' \in [Dirs -> Nat] /\ sent'[d] = sent[d] + 1
           /\ \A e \in Dirs \ {d} : sent'[e] = sent[e]
<1>1. FirstLink(d) \in Links
  BY EndLinks
<1>2. Append(pipe[d][FirstLink(d)], sent[d] + 1) \in Seq(Nat)
  BY <1>1 DEF Shape
<1> QED BY <1>1, <1>2 DEF Send, Shape

LEMMA ReceiveEffect ==
    ASSUME TypeOK, Shape, NEW d \in Dirs, Receive(d), pipe[d][LastLink(d)] # <<>>
    PROVE  /\ pipe' \in [Dirs -> [Links -> Seq(Nat)]]
           /\ pipe'[d][LastLink(d)] = Tail(pipe[d][LastLink(d)])
           /\ \A i \in Links \ {LastLink(d)} : pipe'[d][i] = pipe[d][i]
           /\ \A e \in Dirs \ {d} : pipe'[e] = pipe[e] /\ got'[e] = got[e]
           /\ got' \in [Dirs -> [bytes : Seq(Nat), eof : BOOLEAN]]
           /\ got'[d].bytes = Append(got[d].bytes, Head(pipe[d][LastLink(d)]))
           /\ got'[d].eof = got[d].eof
<1>1. LastLink(d) \in Links
  BY EndLinks
<1>2. Tail(pipe[d][LastLink(d)]) \in Seq(Nat) /\ Head(pipe[d][LastLink(d)]) \in Nat
  BY <1>1, HeadTailProperties DEF Shape
<1>3. Append(got[d].bytes, Head(pipe[d][LastLink(d)])) \in Seq(Nat)
  BY <1>2 DEF Shape
<1>4. /\ pipe' = [pipe EXCEPT ![d][LastLink(d)] = Tail(@)]
      /\ got' = [got EXCEPT ![d].bytes = Append(@, Head(pipe[d][LastLink(d)]))]
  BY DEF Receive
<1>5. got' \in [Dirs -> [bytes : Seq(Nat), eof : BOOLEAN]]
  BY <1>3, <1>4 DEF Shape
<1>6. /\ got'[d].bytes = Append(got[d].bytes, Head(pipe[d][LastLink(d)]))
      /\ got'[d].eof = got[d].eof
      /\ \A e \in Dirs \ {d} : got'[e] = got[e]
  BY <1>4 DEF Shape
<1>7. /\ pipe' \in [Dirs -> [Links -> Seq(Nat)]]
      /\ pipe'[d][LastLink(d)] = Tail(pipe[d][LastLink(d)])
      /\ \A i \in Links \ {LastLink(d)} : pipe'[d][i] = pipe[d][i]
      /\ \A e \in Dirs \ {d} : pipe'[e] = pipe[e]
  BY <1>1, <1>2, <1>4 DEF Shape
<1> QED BY <1>5, <1>6, <1>7
-----------------------------------------------------------------------------
(* The initial states. *)
LEMMA InitInv == Init => TunnelInv
<1> SUFFICES ASSUME Init PROVE TunnelInv
  OBVIOUS
<1>1. Len(hops) \in Nat \ {0}
  BY TunnelAssumption DEF Init
<1>2. <<>> \in Seq(Nat) /\ Len(<<>>) = 0 /\ \A d \in Dirs : <<>> \in Seq(1 .. MaxBytes[d])
  OBVIOUS
<1>3. Shape
  BY <1>2 DEF Init, Shape
<1>4. TypeOK
  <2>1. /\ Capacity \in Nat
        /\ \A d \in Dirs : MaxBytes[d] \in Nat
    BY TunnelAssumption DEF Dirs
  <2>2. \A d \in Dirs, i \in Links : pipe[d][i] = <<>>
    BY DEF Init
  <2>3. \A d \in Dirs : sent[d] = 0 /\ got[d].bytes = <<>> /\ got[d].eof = FALSE
    BY DEF Init
  <2>4. hop \in [HopIds -> [request : {"copy", "eof", "error"}, reply : {"copy", "eof", "error"},
                            open : BOOLEAN]]
    BY DEF Init
  <2>5. hops \in Chains /\ fin \in [Dirs -> [Links -> BOOLEAN]] /\ lost \subseteq Links
    BY DEF Init
  <2>6. ASSUME NEW d \in Dirs
        PROVE  /\ sent[d] \in 0 .. MaxBytes[d]
               /\ got[d].bytes \in Seq(1 .. MaxBytes[d]) /\ got[d].eof \in BOOLEAN
               /\ \A i \in Links : pipe[d][i] \in Seq(1 .. MaxBytes[d]) /\ Len(pipe[d][i]) <= Capacity
    <3>1. MaxBytes[d] \in Nat /\ Capacity \in Nat
      BY <2>1
    <3>2. got[d].eof \in BOOLEAN
      BY <2>3, Zenon
    <3>3. sent[d] \in 0 .. MaxBytes[d]
      BY <2>3, <3>1
    <3>4. got[d].bytes \in Seq(1 .. MaxBytes[d])
      BY <1>2, <2>3, Zenon
    <3>5. \A i \in Links : pipe[d][i] \in Seq(1 .. MaxBytes[d]) /\ Len(pipe[d][i]) <= Capacity
      <4>1. \A i \in Links : pipe[d][i] \in Seq(1 .. MaxBytes[d]) /\ Len(pipe[d][i]) = 0
        BY <1>2, <2>2, Zenon
      <4> QED BY <3>1, <4>1
    <3> QED BY <3>2, <3>3, <3>4, <3>5
  <2> QED BY <2>4, <2>5, <2>6 DEF TypeOK
<1>5. ASSUME NEW d \in Dirs
      PROVE  \E b \in [0 .. Len(hops) + 1 -> 0 .. MaxBytes[d]] : Boundaries(d, b)
  <2> DEFINE b == [i \in 0 .. Len(hops) + 1 |-> 0]
  <2>1. b \in [0 .. Len(hops) + 1 -> 0 .. MaxBytes[d]]
    BY TunnelAssumption DEF Dirs
  <2>2. Numbers(0, 0) = <<>>
    BY NumbersEmpty
  <2>3. got[d].bytes = <<>> /\ sent[d] = 0
    BY DEF Init
  <2>4. ASSUME NEW i \in Links PROVE b[i] = 0 /\ b[i + 1] = 0 /\ AtDistance(d, i) = <<>>
    BY <1>1 DEF Init, AtDistance, Links
  <2>5. b[0] = 0 /\ b[Len(hops) + 1] = 0
    BY <1>1
  <2>6. Boundaries(d, b)
    <3> HIDE DEF b
    <3> QED BY <2>2, <2>3, <2>4, <2>5 DEF Boundaries
  <2> QED BY <2>1, <2>6
<1>6. EofInv
  BY <1>1 DEF Init, EofInv, Dirs, HopIds, Links, In, Out
<1> QED BY <1>3, <1>4, <1>5, <1>6 DEF TunnelInv, FlowInv

(* Every variable keeps its type, and no link takes more than it can hold. *)
LEMMA TypeStep == TunnelInv /\ [Next]_vars => TypeOK' /\ Shape'
<1> SUFFICES ASSUME TunnelInv, [Next]_vars PROVE TypeOK' /\ Shape'
  OBVIOUS
<1> USE DEF TunnelInv
<1>1. hops' = hops /\ Links' = Links /\ HopIds' = HopIds
  BY DEF Next, vars, Send, CloseWrite, Receive, Hop, Move, BridgeEof, BridgeFails, RelayEnds,
         RelayReturns, Lose, Links, HopIds
<1>0. Capacity \in Nat \ {0} /\ \A d \in Dirs : MaxBytes[d] \in Nat
  BY TunnelAssumption DEF Dirs
<1> DEFINE PipeOK == \A d \in Dirs, i \in Links :
                       pipe[d][i] \in Seq(1 .. MaxBytes[d]) /\ Len(pipe[d][i]) <= Capacity
           HopType == [request : {"copy", "eof", "error"}, reply : {"copy", "eof", "error"},
                       open : BOOLEAN]
<1>2. ASSUME NEW d \in Dirs, Send(d) PROVE TypeOK' /\ Shape'
  <2>0. sent[d] \in 0 .. MaxBytes[d] /\ sent[d] < MaxBytes[d] /\ sent'[d] = sent[d] + 1
    BY <1>2, SendEffect DEF Send, TypeOK
  <2>1. sent'[d] \in 1 .. MaxBytes[d]
    BY <1>0, <2>0
  <2>2. /\ FirstLink(d) \in Links
        /\ pipe[d][FirstLink(d)] \in Seq(1 .. MaxBytes[d]) /\ Len(pipe[d][FirstLink(d)]) < Capacity
    BY <1>2, EndLinks DEF Send, TypeOK
  <2>3. pipe'[d][FirstLink(d)] = Append(pipe[d][FirstLink(d)], sent'[d])
    BY <1>2, <2>0, SendEffect
  <2>4. /\ pipe'[d][FirstLink(d)] \in Seq(1 .. MaxBytes[d])
        /\ Len(pipe'[d][FirstLink(d)]) <= Capacity
    BY <1>0, <2>1, <2>2, <2>3, AppendProperties
  <2>5. /\ \A i \in Links \ {FirstLink(d)} : pipe'[d][i] = pipe[d][i]
        /\ \A e \in Dirs \ {d} : pipe'[e] = pipe[e] /\ sent'[e] = sent[e]
    BY <1>2, SendEffect
  <2>6. PipeOK'
    BY <1>1, <2>4, <2>5 DEF TypeOK
  <2>7. ASSUME NEW e \in Dirs PROVE sent'[e] \in 0 .. MaxBytes[e]
    <3>1. sent[e] \in 0 .. MaxBytes[e]
      BY DEF TypeOK
    <3>2. CASE e = d
      BY <1>0, <2>1, <3>2
    <3>3. CASE e # d
      BY <2>5, <3>1, <3>3
    <3> QED BY <3>2, <3>3
  <2> QED BY <1>1, <1>2, <2>6, <2>7, SendEffect DEF Send, TypeOK, Shape
<1>3. ASSUME NEW d \in Dirs, CloseWrite(d) PROVE TypeOK' /\ Shape'
  <2>1. fin' \in [Dirs -> [Links -> BOOLEAN]]
    BY <1>3 DEF CloseWrite, TypeOK
  <2> QED BY <1>1, <1>3, <2>1 DEF CloseWrite, TypeOK, Shape
<1>4. ASSUME NEW d \in Dirs, Receive(d), pipe[d][LastLink(d)] # <<>> PROVE TypeOK' /\ Shape'
  <2>1. /\ LastLink(d) \in Links
        /\ pipe[d][LastLink(d)] \in Seq(1 .. MaxBytes[d]) /\ Len(pipe[d][LastLink(d)]) <= Capacity
    BY EndLinks DEF TypeOK
  <2>2. /\ Head(pipe[d][LastLink(d)]) \in 1 .. MaxBytes[d]
        /\ Tail(pipe[d][LastLink(d)]) \in Seq(1 .. MaxBytes[d])
        /\ Len(Tail(pipe[d][LastLink(d)])) = Len(pipe[d][LastLink(d)]) - 1
    BY <1>4, <2>1, HeadTailProperties
  <2>3. got[d].bytes \in Seq(1 .. MaxBytes[d])
    BY DEF TypeOK
  <2>4. Append(got[d].bytes, Head(pipe[d][LastLink(d)])) \in Seq(1 .. MaxBytes[d])
    BY <2>2, <2>3, AppendProperties
  <2>5. /\ pipe'[d][LastLink(d)] = Tail(pipe[d][LastLink(d)])
        /\ \A i \in Links \ {LastLink(d)} : pipe'[d][i] = pipe[d][i]
        /\ \A e \in Dirs \ {d} : pipe'[e] = pipe[e] /\ got'[e] = got[e]
        /\ got'[d].bytes = Append(got[d].bytes, Head(pipe[d][LastLink(d)]))
        /\ got'[d].eof = got[d].eof
    BY <1>4, ReceiveEffect
  <2>6. Len(Tail(pipe[d][LastLink(d)])) <= Capacity
    BY <1>0, <2>1, <2>2
  <2>7. PipeOK'
    BY <1>1, <2>2, <2>5, <2>6 DEF TypeOK
  <2>8. \A e \in Dirs : got'[e].bytes \in Seq(1 .. MaxBytes[e]) /\ got'[e].eof \in BOOLEAN
    BY <2>4, <2>5 DEF TypeOK
  <2> QED BY <1>1, <1>4, <2>7, <2>8, ReceiveEffect DEF Receive, TypeOK, Shape
<1>5. ASSUME NEW d \in Dirs, Receive(d), pipe[d][LastLink(d)] = <<>> PROVE TypeOK' /\ Shape'
  <2>1. got' = [got EXCEPT ![d].eof = TRUE] /\ pipe' = pipe
    BY <1>5 DEF Receive
  <2>2. got' \in [Dirs -> [bytes : Seq(Nat), eof : BOOLEAN]]
    BY <2>1 DEF Shape
  <2>3. \A e \in Dirs : got'[e].bytes = got[e].bytes
    BY <2>1 DEF Shape
  <2> QED BY <1>1, <1>5, <2>1, <2>2, <2>3 DEF Receive, TypeOK, Shape
<1>6. ASSUME NEW h \in HopIds, NEW d \in Dirs, Move(h, d) PROVE TypeOK' /\ Shape'
  <2>1. In(h, d) \in Links /\ Out(h, d) \in Links
    BY HopLinks
  <2>2. pipe[d][In(h, d)] # <<>> /\ Len(pipe[d][Out(h, d)]) < Capacity
    BY <1>6 DEF Move
  <2>3. /\ pipe[d][In(h, d)] \in Seq(1 .. MaxBytes[d]) /\ Len(pipe[d][In(h, d)]) <= Capacity
        /\ pipe[d][Out(h, d)] \in Seq(1 .. MaxBytes[d])
    BY <2>1 DEF TypeOK
  <2>4. /\ Head(pipe[d][In(h, d)]) \in 1 .. MaxBytes[d]
        /\ Tail(pipe[d][In(h, d)]) \in Seq(1 .. MaxBytes[d])
        /\ Len(Tail(pipe[d][In(h, d)])) = Len(pipe[d][In(h, d)]) - 1
    BY <2>2, <2>3, HeadTailProperties
  <2>5. /\ Append(pipe[d][Out(h, d)], Head(pipe[d][In(h, d)])) \in Seq(1 .. MaxBytes[d])
        /\ Len(Append(pipe[d][Out(h, d)], Head(pipe[d][In(h, d)]))) <= Capacity
    BY <1>0, <2>2, <2>3, <2>4, AppendProperties
  <2>6. Len(Tail(pipe[d][In(h, d)])) <= Capacity
    BY <1>0, <2>3, <2>4
  <2>7. /\ pipe'[d][In(h, d)] = Tail(pipe[d][In(h, d)])
        /\ pipe'[d][Out(h, d)] = Append(pipe[d][Out(h, d)], Head(pipe[d][In(h, d)]))
        /\ \A i \in Links \ {In(h, d), Out(h, d)} : pipe'[d][i] = pipe[d][i]
        /\ \A e \in Dirs \ {d} : pipe'[e] = pipe[e]
    BY <1>6, MoveEffect
  <2>8. PipeOK'
    BY <1>1, <2>4, <2>5, <2>6, <2>7 DEF TypeOK
  <2> QED BY <1>1, <1>6, <2>8, MoveEffect DEF Move, TypeOK, Shape
<1>7. ASSUME NEW h \in HopIds, NEW d \in Dirs, BridgeEof(h, d) PROVE TypeOK' /\ Shape'
  <2>1. fin' \in [Dirs -> [Links -> BOOLEAN]]
    BY <1>7 DEF BridgeEof, TypeOK
  <2>2. ASSUME NEW open \in BOOLEAN PROVE [hop[h] EXCEPT ![d] = "eof", !.open = open] \in HopType
    BY DEF TypeOK, Dirs
  <2>3. hop' \in [HopIds -> HopType]
    BY <1>7, <2>2 DEF BridgeEof, TypeOK
  <2> QED BY <1>1, <1>7, <2>1, <2>3 DEF BridgeEof, TypeOK, Shape
<1>8. ASSUME NEW h \in HopIds, NEW d \in Dirs, BridgeFails(h, d) PROVE TypeOK' /\ Shape'
  <2>1. [hop[h] EXCEPT ![d] = "error", !.open = FALSE] \in HopType
    BY DEF TypeOK, Dirs
  <2>2. hop' \in [HopIds -> HopType]
    BY <1>8, <2>1 DEF BridgeFails, TypeOK
  <2>3. lost' \subseteq Links
    BY <1>8, HopLinks DEF BridgeFails, TypeOK, Links, HopIds
  <2> QED BY <1>1, <1>8, <2>2, <2>3 DEF BridgeFails, TypeOK, Shape
<1>9. ASSUME NEW h \in HopIds, NEW d \in Dirs, RelayEnds(h, d) PROVE TypeOK' /\ Shape'
  <2>1. [hop[h] EXCEPT ![d] = "error"] \in HopType /\ [hop[h] EXCEPT ![d] = "eof"] \in HopType
    BY DEF TypeOK, Dirs
  <2>2. hop' \in [HopIds -> HopType]
    BY <1>9, <2>1 DEF RelayEnds, TypeOK
  <2> QED BY <1>1, <1>9, <2>2 DEF RelayEnds, TypeOK, Shape
<1>10. ASSUME NEW h \in HopIds, RelayReturns(h) PROVE TypeOK' /\ Shape'
  <2>1. [hop[h] EXCEPT !.open = FALSE] \in HopType
    BY DEF TypeOK, Dirs
  <2>2. hop' \in [HopIds -> HopType]
    BY <1>10, <2>1 DEF RelayReturns, TypeOK
  <2>3. lost' \subseteq Links
    <3>1. {h - 1, h} \subseteq Links
      BY HopLinks DEF Links, HopIds, Dirs
    <3> QED BY <1>10, <3>1 DEF RelayReturns, TypeOK
  <2>4. fin' \in [Dirs -> [Links -> BOOLEAN]]
    <3>1. \A d \in Dirs : [fin[d] EXCEPT ![Out(h, d)] = TRUE] \in [Links -> BOOLEAN]
      BY DEF TypeOK
    <3>2. CASE fin' = [d \in Dirs |-> [fin[d] EXCEPT ![Out(h, d)] = TRUE]]
      BY <3>1, <3>2
    <3>3. CASE fin' = [fin EXCEPT !["reply"][h - 1] = TRUE]
      BY <3>3 DEF TypeOK
    <3> QED BY <1>10, <3>2, <3>3 DEF RelayReturns
  <2> QED BY <1>1, <1>10, <2>2, <2>3, <2>4 DEF RelayReturns, TypeOK, Shape
<1>11. ASSUME NEW i \in Links, Lose(i) PROVE TypeOK' /\ Shape'
  BY <1>1, <1>11 DEF Lose, TypeOK, Shape
<1>12. CASE UNCHANGED vars
  BY <1>1, <1>12 DEF vars, TypeOK, Shape
<1> QED BY <1>2, <1>3, <1>4, <1>5, <1>6, <1>7, <1>8, <1>9, <1>10, <1>11, <1>12 DEF Next, Hop
-----------------------------------------------------------------------------
(* A lost connection stays lost, and the chain is chosen once. *)
LEMMA LostStays ==
    ASSUME [Next]_vars
    PROVE  /\ lost' = {} => lost = {}
           /\ hops' = hops
<1>1. ASSUME NEW h \in HopIds, RelayReturns(h) PROVE (lost' = {} => lost = {}) /\ hops' = hops
  BY <1>1 DEF RelayReturns
<1>2. ASSUME NEW h \in HopIds, NEW d \in Dirs, BridgeFails(h, d)
      PROVE  (lost' = {} => lost = {}) /\ hops' = hops
  BY <1>2 DEF BridgeFails
<1>3. ASSUME NEW h \in HopIds, NEW d \in Dirs, Move(h, d) \/ BridgeEof(h, d) \/ RelayEnds(h, d)
      PROVE  lost' = lost /\ hops' = hops
  BY <1>3 DEF Move, BridgeEof, RelayEnds
<1>4. ASSUME NEW d \in Dirs, Send(d) \/ CloseWrite(d) \/ Receive(d)
      PROVE  lost' = lost /\ hops' = hops
  BY <1>4 DEF Send, CloseWrite, Receive
<1>5. ASSUME NEW i \in Links, Lose(i) PROVE lost' # {} /\ hops' = hops
  BY <1>5 DEF Lose
<1>6. CASE UNCHANGED vars
  BY <1>6 DEF vars
<1> QED BY <1>1, <1>2, <1>3, <1>4, <1>5, <1>6 DEF Next, Hop

(* A direction whose bytes do not move keeps its boundaries. *)
LEMMA SameFlow ==
    ASSUME NEW d \in Dirs, NEW b, Boundaries(d, b), hops' = hops, pipe'[d] = pipe[d],
           sent'[d] = sent[d], got'[d].bytes = got[d].bytes
    PROVE  Boundaries(d, b)'
BY DEF Boundaries, AtDistance, Links

(* The values of the boundaries are numbers up to what was sent. *)
LEMMA BoundaryNat ==
    ASSUME TypeOK, NEW d \in Dirs, NEW b \in [0 .. Len(hops) + 1 -> 0 .. MaxBytes[d]]
    PROVE  /\ Len(hops) \in Nat \ {0} /\ MaxBytes[d] \in Nat
           /\ \A i \in 0 .. Len(hops) + 1 : b[i] \in Nat /\ b[i] <= MaxBytes[d]
           /\ \A i \in Links : i \in 0 .. Len(hops) + 1 /\ i + 1 \in 0 .. Len(hops) + 1
<1>1. Len(hops) \in Nat \ {0} /\ MaxBytes[d] \in Nat
  BY TunnelAssumption DEF TypeOK, Dirs
<1> QED BY <1>1 DEF Links

(* Sending moves the boundary at the sender. *)
LEMMA SendFlow ==
    ASSUME TypeOK, Shape, hops' = hops, NEW d \in Dirs, Send(d),
           NEW b \in [0 .. Len(hops) + 1 -> 0 .. MaxBytes[d]], Boundaries(d, b)
    PROVE  \E c \in [0 .. Len(hops) + 1 -> 0 .. MaxBytes[d]] : Boundaries(d, c)'
<1> DEFINE n == Len(hops)
<1>0. PICK c : c = [b EXCEPT ![n + 1] = sent[d] + 1]
  OBVIOUS
<1>1. n \in Nat \ {0} /\ MaxBytes[d] \in Nat /\ \A i \in 0 .. n + 1 : b[i] \in Nat
  BY BoundaryNat
<1>2. sent[d] \in Nat /\ sent[d] + 1 \in 0 .. MaxBytes[d]
  BY <1>1 DEF Shape, Send
<1>3. c \in [0 .. n + 1 -> 0 .. MaxBytes[d]]
  BY <1>0, <1>1, <1>2
<1>4. c[n + 1] = sent[d] + 1 /\ \A i \in 0 .. n : c[i] = b[i]
  BY <1>0, <1>1
<1>5. /\ pipe'[d][FirstLink(d)] = Append(pipe[d][FirstLink(d)], sent[d] + 1)
      /\ \A i \in Links \ {FirstLink(d)} : pipe'[d][i] = pipe[d][i]
      /\ sent'[d] = sent[d] + 1
  BY SendEffect
<1>6. AtDistance(d, n)' = Append(AtDistance(d, n), sent[d] + 1)
  BY <1>1, <1>5 DEF AtDistance, FirstLink, Dirs
<1>7. \A i \in 0 .. n - 1 : AtDistance(d, i)' = AtDistance(d, i)
  <2>1. CASE d = "request"
    BY <1>1, <1>5, <2>1 DEF AtDistance, FirstLink, Links
  <2>2. CASE d = "reply"
    BY <1>1, <1>5, <2>2 DEF AtDistance, FirstLink, Links
  <2> QED BY <2>1, <2>2 DEF Dirs
<1>8. b[n] <= sent[d] /\ AtDistance(d, n) = Numbers(b[n], sent[d])
  BY <1>1 DEF Boundaries, Links
<1>9. AtDistance(d, n)' = Numbers(b[n], sent[d] + 1)
  <2>1. b[n] \in Nat
    BY <1>1
  <2>2. Append(Numbers(b[n], sent[d]), sent[d] + 1) = Numbers(b[n], sent[d] + 1)
    BY <1>2, <1>8, <2>1, NumbersAppend
  <2> QED BY <1>6, <1>8, <2>2
<1>10. ASSUME NEW i \in Links PROVE c[i] <= c[i + 1] /\ AtDistance(d, i)' = Numbers(c[i], c[i + 1])
  <2>1. CASE i = n
    BY <1>1, <1>2, <1>4, <1>8, <1>9, <2>1
  <2>2. CASE i # n
    <3>1. i \in 0 .. n - 1 /\ i + 1 \in 0 .. n
      BY <1>1, <2>2 DEF Links
    <3>2. b[i] <= b[i + 1] /\ AtDistance(d, i) = Numbers(b[i], b[i + 1])
      BY DEF Boundaries
    <3> QED BY <1>4, <1>7, <3>1, <3>2
  <2> QED BY <2>1, <2>2
<1>11. got'[d].bytes = Numbers(0, c[0])
  BY <1>1, <1>4 DEF Send, Boundaries
<1>12. Boundaries(d, c)'
  <2>1. Links' = Links /\ c[Len(hops') + 1] = sent'[d]
    BY <1>4, <1>5 DEF Links
  <2> QED BY <1>10, <1>11, <2>1 DEF Boundaries
<1> QED BY <1>3, <1>12

(* Receiving moves the boundary at the receiver. *)
LEMMA ReceiveFlow ==
    ASSUME TypeOK, Shape, hops' = hops, NEW d \in Dirs, Receive(d), pipe[d][LastLink(d)] # <<>>,
           NEW b \in [0 .. Len(hops) + 1 -> 0 .. MaxBytes[d]], Boundaries(d, b)
    PROVE  \E c \in [0 .. Len(hops) + 1 -> 0 .. MaxBytes[d]] : Boundaries(d, c)'
<1> DEFINE n == Len(hops)
           c == [b EXCEPT ![0] = b[0] + 1]
<1>1. /\ n \in Nat \ {0} /\ MaxBytes[d] \in Nat
      /\ \A i \in 0 .. n + 1 : b[i] \in Nat /\ b[i] <= MaxBytes[d]
  BY BoundaryNat
<1>2. AtDistance(d, 0) = pipe[d][LastLink(d)]
  BY <1>1 DEF AtDistance, LastLink, Dirs
<1>3. b[0] \in Nat /\ b[1] \in Nat /\ b[1] <= MaxBytes[d]
  BY <1>1
<1>4. b[0] <= b[1] /\ AtDistance(d, 0) = Numbers(b[0], b[1])
  <2>1. 0 \in Links
    BY <1>1 DEF Links
  <2> QED BY <2>1 DEF Boundaries
<1>5. b[0] < b[1]
  BY <1>2, <1>3, <1>4, NumbersEmpty
<1>6. c \in [0 .. n + 1 -> 0 .. MaxBytes[d]]
  BY <1>1, <1>3, <1>5
<1>7. c[0] = b[0] + 1 /\ \A i \in 1 .. n + 1 : c[i] = b[i]
  BY <1>1
<1>8. /\ pipe'[d][LastLink(d)] = Tail(pipe[d][LastLink(d)])
      /\ \A i \in Links \ {LastLink(d)} : pipe'[d][i] = pipe[d][i]
      /\ got'[d].bytes = Append(got[d].bytes, Head(pipe[d][LastLink(d)]))
  BY ReceiveEffect
<1>9. AtDistance(d, 0)' = Tail(AtDistance(d, 0))
  BY <1>1, <1>8 DEF AtDistance, LastLink, Dirs
<1>10. \A i \in 1 .. n : AtDistance(d, i)' = AtDistance(d, i)
  BY <1>1, <1>8 DEF AtDistance, LastLink, Links, Dirs
<1>11. Head(AtDistance(d, 0)) = b[0] + 1 /\ Tail(AtDistance(d, 0)) = Numbers(b[0] + 1, b[1])
  BY <1>3, <1>4, <1>5, NumbersHead
<1>12. got'[d].bytes = Numbers(0, b[0] + 1)
  <2>1. got[d].bytes = Numbers(0, b[0])
    BY DEF Boundaries
  <2>2. got'[d].bytes = Append(Numbers(0, b[0]), b[0] + 1)
    BY <1>2, <1>8, <1>11, <2>1
  <2>3. Append(Numbers(0, b[0]), b[0] + 1) = Numbers(0, b[0] + 1)
    <3>1. 0 \in Nat /\ 0 <= b[0]
      BY <1>3
    <3> QED BY <1>3, <3>1, NumbersAppend
  <2> QED BY <2>2, <2>3
<1>13. ASSUME NEW i \in Links PROVE c[i] <= c[i + 1] /\ AtDistance(d, i)' = Numbers(c[i], c[i + 1])
  <2>1. CASE i = 0
    <3>1. c[i] = b[0] + 1 /\ c[i + 1] = b[1]
      BY <1>1, <1>7, <2>1
    <3>2. b[0] + 1 <= b[1]
      BY <1>3, <1>5
    <3> QED BY <1>9, <1>11, <2>1, <3>1, <3>2
  <2>2. CASE i # 0
    <3>1. i \in 1 .. n /\ i + 1 \in 1 .. n + 1 /\ i \in 1 .. n + 1
      BY <1>1, <2>2 DEF Links
    <3>2. b[i] <= b[i + 1] /\ AtDistance(d, i) = Numbers(b[i], b[i + 1])
      BY DEF Boundaries
    <3> QED BY <1>7, <1>10, <3>1, <3>2
  <2> QED BY <2>1, <2>2
<1>14. c[n + 1] = sent'[d]
  BY <1>1, <1>7 DEF Receive, Boundaries
<1>15. Boundaries(d, c)'
  <2>1. Links' = Links /\ c[Len(hops') + 1] = sent'[d] /\ got'[d].bytes = Numbers(0, c[0])
    BY <1>7, <1>12, <1>14 DEF Links
  <2> HIDE DEF c
  <2> QED BY <1>13, <2>1 DEF Boundaries
<1> QED BY <1>6, <1>15

(* A hop moves the boundary between the links it joins. *)
LEMMA MoveFlow ==
    ASSUME TypeOK, Shape, hops' = hops, NEW h \in HopIds, NEW d \in Dirs, Move(h, d),
           NEW b \in [0 .. Len(hops) + 1 -> 0 .. MaxBytes[d]], Boundaries(d, b)
    PROVE  \E c \in [0 .. Len(hops) + 1 -> 0 .. MaxBytes[d]] : Boundaries(d, c)'
<1> DEFINE n == Len(hops)
<1>j. PICK j : j = IF d = "request" THEN n - h ELSE h - 1
  OBVIOUS
<1>c. PICK c : c = [b EXCEPT ![j + 1] = b[j + 1] + 1]
  OBVIOUS
<1>1. /\ n \in Nat \ {0} /\ MaxBytes[d] \in Nat
      /\ \A i \in 0 .. n + 1 : b[i] \in Nat /\ b[i] <= MaxBytes[d]
  BY BoundaryNat
<1>2. j \in 0 .. n - 1 /\ j \in Links /\ j + 1 \in Links
  BY <1>j, <1>1 DEF HopIds, Links
<1>3. AtDistance(d, j) = pipe[d][Out(h, d)] /\ AtDistance(d, j + 1) = pipe[d][In(h, d)]
  BY <1>j, <1>1 DEF AtDistance, In, Out, Dirs, HopIds
<1>4. b[j] \in Nat /\ b[j + 1] \in Nat /\ b[j + 2] \in Nat /\ b[j + 2] <= MaxBytes[d]
  BY <1>1, <1>2
<1>5. /\ b[j] <= b[j + 1] /\ AtDistance(d, j) = Numbers(b[j], b[j + 1])
      /\ b[j + 1] <= b[j + 2] /\ AtDistance(d, j + 1) = Numbers(b[j + 1], b[j + 2])
  <2>1. (j + 1) + 1 = j + 2
    BY <1>2
  <2> QED BY <1>2, <2>1 DEF Boundaries
<1>6. b[j + 1] < b[j + 2]
  BY <1>3, <1>4, <1>5, NumbersEmpty DEF Move
<1>7. c \in [0 .. n + 1 -> 0 .. MaxBytes[d]]
  <2>1. b[j + 1] + 1 \in 0 .. MaxBytes[d]
    BY <1>1, <1>4, <1>6
  <2> QED BY <1>c, <2>1
<1>8. c[j + 1] = b[j + 1] + 1 /\ \A i \in 0 .. n + 1 : i # j + 1 => c[i] = b[i]
  BY <1>c, <1>1, <1>2
<1>9. /\ pipe'[d][In(h, d)] = Tail(pipe[d][In(h, d)])
      /\ pipe'[d][Out(h, d)] = Append(pipe[d][Out(h, d)], Head(pipe[d][In(h, d)]))
      /\ \A i \in Links \ {In(h, d), Out(h, d)} : pipe'[d][i] = pipe[d][i]
  BY MoveEffect
<1>10. /\ AtDistance(d, j + 1)' = Tail(AtDistance(d, j + 1))
       /\ AtDistance(d, j)' = Append(AtDistance(d, j), Head(AtDistance(d, j + 1)))
  <2>1. CASE d = "request"
    BY <1>j, <1>1, <1>3, <1>9, <2>1 DEF AtDistance, In, Out, HopIds
  <2>2. CASE d = "reply"
    BY <1>j, <1>1, <1>3, <1>9, <2>2 DEF AtDistance, In, Out, HopIds
  <2> QED BY <2>1, <2>2 DEF Dirs
<1>11. \A i \in Links : i # j /\ i # j + 1 => AtDistance(d, i)' = AtDistance(d, i)
  <2>1. CASE d = "request"
    BY <1>j, <1>1, <1>9, <2>1 DEF AtDistance, In, Out, HopIds, Links
  <2>2. CASE d = "reply"
    BY <1>j, <1>1, <1>9, <2>2 DEF AtDistance, In, Out, HopIds, Links
  <2> QED BY <2>1, <2>2 DEF Dirs
<1>12. /\ Head(AtDistance(d, j + 1)) = b[j + 1] + 1
       /\ Tail(AtDistance(d, j + 1)) = Numbers(b[j + 1] + 1, b[j + 2])
  BY <1>4, <1>5, <1>6, NumbersHead
<1>13. AtDistance(d, j)' = Numbers(b[j], b[j + 1] + 1)
  <2>1. Append(Numbers(b[j], b[j + 1]), b[j + 1] + 1) = Numbers(b[j], b[j + 1] + 1)
    BY <1>4, <1>5, NumbersAppend
  <2> QED BY <1>5, <1>10, <1>12, <2>1
<1>14. ASSUME NEW i \in Links PROVE c[i] <= c[i + 1] /\ AtDistance(d, i)' = Numbers(c[i], c[i + 1])
  <2>0. i \in 0 .. n + 1 /\ i + 1 \in 0 .. n + 1 /\ i \in Nat
    BY <1>1 DEF Links
  <2>1. CASE i = j
    <3>1. c[i] = b[j] /\ c[i + 1] = b[j + 1] + 1
      BY <1>2, <1>8, <2>0, <2>1
    <3> QED BY <1>4, <1>5, <1>13, <2>1, <3>1
  <2>2. CASE i = j + 1
    <3>1. c[i] = b[j + 1] + 1 /\ c[i + 1] = b[j + 2]
      BY <1>2, <1>8, <2>0, <2>2
    <3>2. b[j + 1] + 1 <= b[j + 2]
      BY <1>4, <1>6
    <3> QED BY <1>10, <1>12, <2>2, <3>1, <3>2
  <2>3. CASE i # j /\ i # j + 1
    <3>1. c[i] = b[i] /\ c[i + 1] = b[i + 1]
      BY <1>2, <1>8, <2>0, <2>3
    <3>2. b[i] <= b[i + 1] /\ AtDistance(d, i) = Numbers(b[i], b[i + 1])
      BY DEF Boundaries
    <3> QED BY <1>11, <2>3, <3>1, <3>2
  <2> QED BY <2>1, <2>2, <2>3
<1>15. c[0] = b[0] /\ c[n + 1] = b[n + 1]
  BY <1>1, <1>2, <1>8
<1>16. Boundaries(d, c)'
  <2>1. got'[d].bytes = Numbers(0, c[0]) /\ c[n + 1] = sent'[d]
    BY <1>15 DEF Boundaries, Move
  <2>2. Links' = Links /\ c[Len(hops') + 1] = sent'[d]
    BY <2>1 DEF Links
  <2> QED BY <1>14, <2>1, <2>2 DEF Boundaries
<1> QED BY <1>7, <1>16
(* Every step keeps the bytes of a direction consecutive along the chain. *)
LEMMA FlowStep == TunnelInv /\ [Next]_vars => FlowInv'
<1> SUFFICES ASSUME TunnelInv, [Next]_vars, lost' = {}, NEW d \in Dirs
             PROVE  \E c \in [0 .. Len(hops) + 1 -> 0 .. MaxBytes[d]] : Boundaries(d, c)'
  BY LostStays DEF FlowInv
<1> DEFINE Goal == \E c \in [0 .. Len(hops) + 1 -> 0 .. MaxBytes[d]] : Boundaries(d, c)'
<1>0. hops' = hops /\ lost = {} /\ TypeOK /\ Shape
  BY LostStays DEF TunnelInv
<1>1. PICK b \in [0 .. Len(hops) + 1 -> 0 .. MaxBytes[d]] : Boundaries(d, b)
  BY <1>0 DEF TunnelInv, FlowInv
<1>2. ASSUME pipe'[d] = pipe[d], sent'[d] = sent[d], got'[d].bytes = got[d].bytes PROVE Goal
  BY <1>0, <1>1, <1>2, SameFlow
<1>3. ASSUME NEW e \in Dirs, Send(e) PROVE Goal
  <2>1. CASE e = d
    BY <1>0, <1>1, <1>3, <2>1, SendFlow
  <2>2. CASE e # d
    BY <1>0, <1>2, <1>3, <2>2, SendEffect DEF Send
  <2> QED BY <2>1, <2>2
<1>4. ASSUME NEW e \in Dirs, Receive(e), pipe[e][LastLink(e)] # <<>> PROVE Goal
  <2>1. CASE e = d
    BY <1>0, <1>1, <1>4, <2>1, ReceiveFlow
  <2>2. CASE e # d
    BY <1>0, <1>2, <1>4, <2>2, ReceiveEffect DEF Receive
  <2> QED BY <2>1, <2>2
<1>5. ASSUME NEW e \in Dirs, Receive(e), pipe[e][LastLink(e)] = <<>> PROVE Goal
  <2>1. pipe' = pipe /\ sent' = sent /\ got' = [got EXCEPT ![e].eof = TRUE]
    BY <1>5 DEF Receive
  <2>2. got'[d].bytes = got[d].bytes
    BY <1>0, <2>1 DEF Shape
  <2> QED BY <1>2, <2>1, <2>2
<1>6. ASSUME NEW h \in HopIds, NEW e \in Dirs, Move(h, e) PROVE Goal
  <2>1. CASE e = d
    BY <1>0, <1>1, <1>6, <2>1, MoveFlow
  <2>2. CASE e # d
    BY <1>0, <1>2, <1>6, <2>2, MoveEffect DEF Move
  <2> QED BY <2>1, <2>2
<1>7. ASSUME NEW h \in HopIds, NEW e \in Dirs, BridgeEof(h, e) \/ BridgeFails(h, e) \/ RelayEnds(h, e)
      PROVE  Goal
  BY <1>2, <1>7 DEF BridgeEof, BridgeFails, RelayEnds
<1>8. ASSUME NEW h \in HopIds, RelayReturns(h) PROVE Goal
  BY <1>2, <1>8 DEF RelayReturns
<1>9. ASSUME NEW i \in Links, Lose(i) PROVE Goal
  BY <1>2, <1>9 DEF Lose
<1>10. ASSUME NEW e \in Dirs, CloseWrite(e) PROVE Goal
  BY <1>2, <1>10 DEF CloseWrite
<1>11. CASE UNCHANGED vars
  BY <1>2, <1>11 DEF vars
<1> HIDE DEF Goal
<1>12. Goal
  BY <1>3, <1>4, <1>5, <1>6, <1>7, <1>8, <1>9, <1>10, <1>11 DEF Next, Hop
<1> QED BY <1>12 DEF Goal

(* End of file travels along the chain behind the last byte: nothing is     *)
(* written to a link after its writer has finished.                         *)
LEMMA EofStep == TunnelInv /\ [Next]_vars => EofInv'
<1> SUFFICES ASSUME TunnelInv, [Next]_vars, lost' = {} PROVE EofInv'
  BY DEF EofInv
<1> DEFINE HopPart(d, h) ==
             /\ hop[h][d] = "eof" => fin[d][In(h, d)] /\ pipe[d][In(h, d)] = <<>>
             /\ fin[d][Out(h, d)] => hop[h][d] = "eof"
           EndPart(d) == got[d].eof => fin[d][LastLink(d)] /\ pipe[d][LastLink(d)] = <<>>
<1>0. hops' = hops /\ lost = {} /\ TypeOK /\ Shape /\ HopIds' = HopIds /\ Links' = Links
  BY LostStays DEF TunnelInv, HopIds, Links
<1>1. \A d \in Dirs : (\A h \in HopIds : HopPart(d, h)) /\ EndPart(d)
  BY <1>0 DEF TunnelInv, EofInv
<1>2. \A d \in Dirs : /\ LastLink(d)' = LastLink(d) /\ FirstLink(d)' = FirstLink(d)
                      /\ \A h \in HopIds : In(h, d)' = In(h, d) /\ Out(h, d)' = Out(h, d)
  BY <1>0 DEF LastLink, FirstLink, In, Out
<1>l. \A d \in Dirs : /\ LastLink(d) \in Links /\ FirstLink(d) \in Links
                      /\ \A h \in HopIds : In(h, d) \in Links /\ Out(h, d) \in Links
  BY <1>0, HopLinks, EndLinks
<1>3. ASSUME NEW e \in Dirs, Send(e) PROVE EofInv'
  <2>1. ~fin[e][FirstLink(e)] /\ fin' = fin /\ hop' = hop /\ got' = got
    BY <1>3 DEF Send
  <2>2. \A d \in Dirs, i \in Links : fin[d][i] => pipe'[d][i] = pipe[d][i]
    <3>1. /\ \A i \in Links \ {FirstLink(e)} : pipe'[e][i] = pipe[e][i]
          /\ \A d \in Dirs \ {e} : pipe'[d] = pipe[d]
      BY <1>0, <1>3, SendEffect
    <3> QED BY <2>1, <3>1
  <2>3. \A d \in Dirs : (\A h \in HopIds : HopPart(d, h)') /\ EndPart(d)'
    BY <1>0, <1>1, <1>2, <2>1, <2>2, <1>l
  <2> QED BY <1>0, <2>3 DEF EofInv
<1>4. ASSUME NEW e \in Dirs, CloseWrite(e) PROVE EofInv'
  <2>1. pipe' = pipe /\ hop' = hop /\ got' = got /\ fin' = [fin EXCEPT ![e][FirstLink(e)] = TRUE]
    BY <1>4 DEF CloseWrite
  <2>2. \A h \in HopIds : Out(h, e) # FirstLink(e)
    BY <1>0, HopLinks DEF Out, FirstLink, HopIds
  <2>3. \A d \in Dirs, i \in Links : fin[d][i] => fin'[d][i]
    BY <1>0, <2>1 DEF TypeOK
  <2>4. \A d \in Dirs, h \in HopIds : fin'[d][Out(h, d)] = fin[d][Out(h, d)]
    <3>1. \A i \in Links : i # FirstLink(e) => fin'[e][i] = fin[e][i]
      BY <1>0, <2>1 DEF TypeOK
    <3>2. \A d \in Dirs : d # e => fin'[d] = fin[d]
      BY <1>0, <2>1 DEF TypeOK
    <3> QED BY <1>l, <2>2, <3>1, <3>2
  <2>5. \A d \in Dirs : (\A h \in HopIds : HopPart(d, h)') /\ EndPart(d)'
    <3>1. ASSUME NEW d \in Dirs, NEW h \in HopIds PROVE HopPart(d, h)'
      <4>1. HopPart(d, h) /\ In(h, d) \in Links /\ In(h, d)' = In(h, d) /\ Out(h, d)' = Out(h, d)
        BY <1>1, <1>2, <1>l
      <4>2. hop'[h][d] = "eof" => fin'[d][In(h, d)] /\ pipe'[d][In(h, d)] = <<>>
        BY <2>1, <2>3, <4>1
      <4>3. fin'[d][Out(h, d)] => hop'[h][d] = "eof"
        BY <2>1, <2>4, <4>1
      <4> QED BY <4>1, <4>2, <4>3
    <3>2. \A d \in Dirs : EndPart(d)'
      BY <1>1, <1>2, <1>l, <2>1, <2>3
    <3> QED BY <3>1, <3>2
  <2> QED BY <1>0, <2>5 DEF EofInv
<1>5. ASSUME NEW e \in Dirs, Receive(e), pipe[e][LastLink(e)] # <<>> PROVE EofInv'
  <2>1. fin' = fin /\ hop' = hop
    BY <1>5 DEF Receive
  <2>2. \A h \in HopIds : In(h, e) # LastLink(e)
    BY <1>0, HopLinks DEF In, LastLink, HopIds
  <2>3. \A d \in Dirs : /\ got'[d].eof = got[d].eof
                        /\ got[d].eof => pipe'[d] = pipe[d]
                        /\ \A h \in HopIds : pipe'[d][In(h, d)] = pipe[d][In(h, d)]
    <3>1. /\ got'[e].eof = got[e].eof
          /\ \A i \in Links \ {LastLink(e)} : pipe'[e][i] = pipe[e][i]
          /\ \A d \in Dirs \ {e} : pipe'[d] = pipe[d] /\ got'[d] = got[d]
      BY <1>0, <1>5, ReceiveEffect
    <3>2. ~got[e].eof
      BY <1>1, <1>5
    <3>3. \A d \in Dirs : got'[d].eof = got[d].eof
      BY <3>1
    <3>4. \A d \in Dirs : got[d].eof => pipe'[d] = pipe[d]
      BY <3>1, <3>2
    <3>5. \A d \in Dirs, h \in HopIds : pipe'[d][In(h, d)] = pipe[d][In(h, d)]
      BY <1>l, <2>2, <3>1
    <3> QED BY <3>3, <3>4, <3>5
  <2>4. \A d \in Dirs : (\A h \in HopIds : HopPart(d, h)') /\ EndPart(d)'
    <3>1. ASSUME NEW d \in Dirs, NEW h \in HopIds PROVE HopPart(d, h)'
      <4>1. HopPart(d, h)
        BY <1>1
      <4>2. In(h, d)' = In(h, d) /\ Out(h, d)' = Out(h, d)
        BY <1>2
      <4>3. pipe'[d][In(h, d)] = pipe[d][In(h, d)]
        BY <2>3
      <4> QED BY <2>1, <4>1, <4>2, <4>3
    <3>2. ASSUME NEW d \in Dirs PROVE EndPart(d)'
      <4>1. EndPart(d)
        BY <1>1
      <4>2. LastLink(d)' = LastLink(d)
        BY <1>2
      <4>3. got'[d].eof = got[d].eof
        BY <2>3
      <4>4. got[d].eof => pipe'[d] = pipe[d]
        BY <2>3
      <4> QED BY <2>1, <4>1, <4>2, <4>3, <4>4
    <3> QED BY <3>1, <3>2
  <2> QED BY <1>0, <2>4 DEF EofInv
<1>6. ASSUME NEW e \in Dirs, Receive(e), pipe[e][LastLink(e)] = <<>> PROVE EofInv'
  <2>1. /\ fin' = fin /\ hop' = hop /\ pipe' = pipe /\ fin[e][LastLink(e)]
        /\ got' = [got EXCEPT ![e].eof = TRUE]
    BY <1>6 DEF Receive
  <2>2. \A d \in Dirs : d # e => got'[d].eof = got[d].eof
    BY <2>1, <1>0 DEF Shape
  <2>3. \A d \in Dirs : (\A h \in HopIds : HopPart(d, h)') /\ EndPart(d)'
    BY <1>0, <1>1, <1>2, <1>6, <2>1, <2>2
  <2> QED BY <1>0, <2>3 DEF EofInv
<1>7. ASSUME NEW g \in HopIds, NEW e \in Dirs, Move(g, e) PROVE EofInv'
  <2>1. fin' = fin /\ hop' = hop /\ got' = got /\ hop[g][e] = "copy" /\ pipe[e][In(g, e)] # <<>>
    BY <1>7 DEF Move, Copying
  <2>2. ~fin[e][Out(g, e)]
    BY <1>1, <2>1
  <2>3. \A i \in Links : fin[e][i] /\ pipe[e][i] = <<>> => pipe'[e][i] = <<>>
    BY <1>0, <1>7, <2>1, <2>2, MoveEffect
  <2>4. \A d \in Dirs, i \in Links : fin[d][i] /\ pipe[d][i] = <<>> => pipe'[d][i] = <<>>
    BY <1>0, <1>7, <2>3, MoveEffect
  <2>5. \A d \in Dirs : (\A h \in HopIds : HopPart(d, h)') /\ EndPart(d)'
    BY <1>0, <1>1, <1>2, <2>1, <2>4, <1>l
  <2> QED BY <1>0, <2>5 DEF EofInv
<1>8. ASSUME NEW g \in HopIds, NEW e \in Dirs, BridgeEof(g, e) PROVE EofInv'
  <2>1. /\ pipe' = pipe /\ got' = got /\ fin' = [fin EXCEPT ![e][Out(g, e)] = TRUE]
        /\ fin[e][In(g, e)] /\ pipe[e][In(g, e)] = <<>>
    BY <1>8 DEF BridgeEof, AtEof
  <2>2. /\ hop'[g][e] = "eof"
        /\ \A d \in Dirs, h \in HopIds : d # e \/ h # g => hop'[h][d] = hop[h][d]
    BY <1>0, <1>8 DEF BridgeEof, TypeOK, Dirs
  <2>3. \A d \in Dirs, i \in Links : fin[d][i] => fin'[d][i]
    BY <1>0, <2>1 DEF TypeOK
  <2>4. \A d \in Dirs, h \in HopIds : d # e \/ h # g => fin'[d][Out(h, d)] = fin[d][Out(h, d)]
    <3>1. \A h \in HopIds : h # g => Out(h, e) # Out(g, e)
      BY <1>0, HopLinks DEF Out, HopIds
    <3>2. \A i \in Links : i # Out(g, e) => fin'[e][i] = fin[e][i]
      BY <1>0, <2>1 DEF TypeOK
    <3>3. \A d \in Dirs : d # e => fin'[d] = fin[d]
      BY <1>0, <2>1 DEF TypeOK
    <3> QED BY <1>l, <3>1, <3>2, <3>3
  <2>5. ASSUME NEW d \in Dirs, NEW h \in HopIds PROVE HopPart(d, h)'
    <3>1. HopPart(d, h) /\ In(h, d) \in Links /\ In(h, d)' = In(h, d) /\ Out(h, d)' = Out(h, d)
      BY <1>1, <1>2, <1>l
    <3>2. hop'[h][d] = "eof" => fin'[d][In(h, d)] /\ pipe'[d][In(h, d)] = <<>>
      BY <2>1, <2>2, <2>3, <3>1
    <3>3. fin'[d][Out(h, d)] => hop'[h][d] = "eof"
      BY <2>1, <2>2, <2>4, <3>1
    <3> QED BY <3>1, <3>2, <3>3
  <2>6. \A d \in Dirs : EndPart(d)'
    BY <1>0, <1>1, <1>2, <2>1, <2>3, <1>l
  <2> QED BY <1>0, <2>5, <2>6 DEF EofInv
<1>9. ASSUME NEW g \in HopIds, NEW e \in Dirs, BridgeFails(g, e) PROVE EofInv'
  BY <1>9 DEF BridgeFails
<1>10. ASSUME NEW g \in HopIds, NEW e \in Dirs, RelayEnds(g, e) PROVE EofInv'
  <2>1. pipe' = pipe /\ got' = got /\ fin' = fin
    BY <1>10 DEF RelayEnds
  <2>2. /\ hop'[g][e] \in {"eof", "error"}
        /\ hop'[g][e] = "eof" => fin[e][In(g, e)] /\ pipe[e][In(g, e)] = <<>>
        /\ hop[g][e] = "copy"
        /\ \A d \in Dirs, h \in HopIds : d # e \/ h # g => hop'[h][d] = hop[h][d]
    BY <1>0, <1>10 DEF RelayEnds, AtEof, Copying, TypeOK, Dirs
  <2>3. \A d \in Dirs : (\A h \in HopIds : HopPart(d, h)') /\ EndPart(d)'
    BY <1>0, <1>1, <1>2, <2>1, <2>2
  <2> QED BY <1>0, <2>3 DEF EofInv
<1>11. ASSUME NEW g \in HopIds, RelayReturns(g) PROVE EofInv'
  <2>1. /\ pipe' = pipe /\ got' = got /\ \A d \in Dirs : hop[g][d] = "eof"
        /\ fin' = [d \in Dirs |-> [fin[d] EXCEPT ![Out(g, d)] = TRUE]]
    BY <1>11 DEF RelayReturns
  <2>2. \A d \in Dirs, h \in HopIds : hop'[h][d] = hop[h][d]
    BY <1>0, <1>11 DEF RelayReturns, TypeOK, Dirs
  <2>3. \A d \in Dirs, i \in Links : fin[d][i] => fin'[d][i]
    BY <1>0, <2>1 DEF TypeOK
  <2>4. \A d \in Dirs, h \in HopIds : h # g => fin'[d][Out(h, d)] = fin[d][Out(h, d)]
    <3>1. \A d \in Dirs, h \in HopIds : h # g => Out(h, d) # Out(g, d)
      BY <1>0, HopLinks DEF Out, HopIds
    <3>2. \A d \in Dirs, i \in Links : i # Out(g, d) => fin'[d][i] = fin[d][i]
      BY <1>0, <2>1 DEF TypeOK
    <3> QED BY <1>l, <3>1, <3>2
  <2>5. ASSUME NEW d \in Dirs, NEW h \in HopIds PROVE HopPart(d, h)'
    <3>1. HopPart(d, h) /\ In(h, d) \in Links /\ In(h, d)' = In(h, d) /\ Out(h, d)' = Out(h, d)
      BY <1>1, <1>2, <1>l
    <3>2. hop'[h][d] = "eof" => fin'[d][In(h, d)] /\ pipe'[d][In(h, d)] = <<>>
      BY <2>1, <2>2, <2>3, <3>1
    <3>3. fin'[d][Out(h, d)] => hop'[h][d] = "eof"
      BY <2>1, <2>2, <2>4, <3>1
    <3> QED BY <3>1, <3>2, <3>3
  <2>6. \A d \in Dirs : EndPart(d)'
    BY <1>0, <1>1, <1>2, <2>1, <2>3, <1>l
  <2> QED BY <1>0, <2>5, <2>6 DEF EofInv
<1>12. ASSUME NEW i \in Links, Lose(i) PROVE EofInv'
  BY <1>12 DEF Lose
<1>13. CASE UNCHANGED vars
  <2>1. \A d \in Dirs : (\A h \in HopIds : HopPart(d, h)') /\ EndPart(d)'
    BY <1>0, <1>1, <1>2, <1>13 DEF vars
  <2> QED BY <1>0, <2>1 DEF EofInv
<1> QED BY <1>3, <1>4, <1>5, <1>6, <1>7, <1>8, <1>9, <1>10, <1>11, <1>12, <1>13 DEF Next, Hop

-----------------------------------------------------------------------------
(* What is under way in a direction is the run of bytes between its first   *)
(* boundary and its last.                                                   *)
LEMMA FlightIsRun ==
    ASSUME TypeOK, NEW d \in Dirs, NEW b \in [0 .. Len(hops) + 1 -> Nat], Boundaries(d, b)
    PROVE  /\ InFlight(d) = Numbers(b[0], b[Len(hops) + 1])
           /\ b[0] <= b[Len(hops) + 1]
<1> DEFINE Extend(f) == [i \in Links |-> IF i = 0 THEN AtDistance(d, 0) ELSE f[i - 1] \o AtDistance(d, i)]
           Runs == [i \in Links |-> Numbers(b[0], b[i + 1])]
           Joined == CHOOSE f : f = Extend(f)
<1>0. Len(hops) \in Nat /\ Links = 0 .. Len(hops)
  BY EndLinks DEF Links
<1>1. InFlight(d) = Joined[Len(hops)]
  BY DEF InFlight
<1>2. \A i \in Links : b[i] \in Nat /\ b[i + 1] \in Nat /\ b[i] <= b[i + 1] /\ AtDistance(d, i) = Numbers(b[i], b[i + 1])
  BY <1>0 DEF Boundaries
<1>3. \A i \in Links : b[0] <= b[i + 1]
  <2> DEFINE S == {i \in Links : b[0] <= b[i + 1]}
  <2>1. 0 \in S
    BY <1>0, <1>2
  <2>2. \A i \in 0 .. Len(hops) - 1 : i \in S => i + 1 \in S
    <3> SUFFICES ASSUME NEW i \in 0 .. Len(hops) - 1, i \in S PROVE i + 1 \in S
      OBVIOUS
    <3>1. i + 1 \in Links /\ 0 \in Links
      BY <1>0
    <3>2. b[0] \in Nat /\ b[i + 1] \in Nat /\ b[(i + 1) + 1] \in Nat /\ b[i + 1] <= b[(i + 1) + 1]
      BY <1>2, <3>1
    <3> QED BY <3>1, <3>2
  <2>3. \A i \in 0 .. Len(hops) : i \in S
    <3> HIDE DEF S
    <3> QED BY <1>0, <2>1, <2>2, UpTo
  <2> QED BY <1>0, <2>3
<1>4. \A i \in Links : i # 0 => Runs[i - 1] \o AtDistance(d, i) = Runs[i]
  <2> SUFFICES ASSUME NEW i \in Links, i # 0 PROVE Runs[i - 1] \o AtDistance(d, i) = Runs[i]
    OBVIOUS
  <2>1. i - 1 \in Links /\ (i - 1) + 1 = i /\ 0 \in Links
    BY <1>0
  <2>2. Runs[i - 1] = Numbers(b[0], b[i]) /\ Runs[i] = Numbers(b[0], b[i + 1])
    BY <2>1
  <2>3. b[0] \in Nat /\ b[i] \in Nat /\ b[i + 1] \in Nat /\ b[0] <= b[i] /\ b[i] <= b[i + 1]
    BY <1>2, <1>3, <2>1
  <2>4. AtDistance(d, i) = Numbers(b[i], b[i + 1])
    BY <1>2
  <2> HIDE DEF Runs
  <2> QED BY <2>2, <2>3, <2>4, NumbersJoin
<1>5. Runs[0] = AtDistance(d, 0)
  BY <1>0, <1>2
<1>6. Runs = Extend(Runs)
  <2>1. \A i \in Links : Runs[i] = Extend(Runs)[i]
    <3>1. \A i \in Links : Extend(Runs)[i] = IF i = 0 THEN AtDistance(d, 0) ELSE Runs[i - 1] \o AtDistance(d, i)
      <4> HIDE DEF Runs
      <4> QED OBVIOUS
    <3> HIDE DEF Extend, Runs
    <3> QED BY <1>4, <1>5, <3>1
  <2>2. Runs = [i \in Links |-> Runs[i]] /\ Extend(Runs) = [i \in Links |-> Extend(Runs)[i]]
    OBVIOUS
  <2> HIDE DEF Extend, Runs
  <2> QED BY <2>1, <2>2
<1>7. Joined = Extend(Joined)
  <2> HIDE DEF Extend, Runs
  <2> QED BY <1>6, Zenon
<1>8. \A i \in Links : Joined[i] = Runs[i]
  <2>0. \A i \in Links : Joined[i] = IF i = 0 THEN AtDistance(d, 0) ELSE Joined[i - 1] \o AtDistance(d, i)
    <3> HIDE DEF Joined
    <3> QED BY <1>7
  <2> HIDE DEF Joined, Runs
  <2> DEFINE S == {i \in Links : Joined[i] = Runs[i]}
  <2>1. 0 \in S
    BY <1>0, <1>5, <2>0
  <2>2. \A i \in 0 .. Len(hops) - 1 : i \in S => i + 1 \in S
    <3> SUFFICES ASSUME NEW i \in 0 .. Len(hops) - 1, i \in S PROVE i + 1 \in S
      OBVIOUS
    <3>1. i + 1 \in Links /\ i + 1 # 0 /\ (i + 1) - 1 = i
      BY <1>0
    <3>2. Joined[i + 1] = Joined[i] \o AtDistance(d, i + 1) /\ Runs[i + 1] = Runs[i] \o AtDistance(d, i + 1)
      BY <1>4, <2>0, <3>1
    <3> QED BY <3>1, <3>2
  <2>3. \A i \in 0 .. Len(hops) : i \in S
    <3> HIDE DEF S
    <3> QED BY <1>0, <2>1, <2>2, UpTo
  <2> QED BY <1>0, <2>3
<1>9. Len(hops) \in Links
  BY <1>0
<1> QED BY <1>1, <1>3, <1>8, <1>9

(* The inductive invariant, from the lemmas on each of its parts. *)
LEMMA TunnelInvariant == Spec => []TunnelInv
<1>1. Init => TunnelInv
  BY InitInv
<1>2. TunnelInv /\ [Next]_vars => TunnelInv'
  BY TypeStep, FlowStep, EofStep DEF TunnelInv
<1> QED BY <1>1, <1>2, PTL DEF Spec

(* Every variable keeps its type, and no link ever holds more than its      *)
(* capacity, whatever the chain and the capacity are.                       *)
THEOREM TunnelTypeOK == Spec => []TypeOK
<1>1. TunnelInv => TypeOK
  BY DEF TunnelInv
<1> QED BY <1>1, TunnelInvariant, PTL

(* Every byte arrives once and in order, over a chain of any number of      *)
(* hops: bridge and the relay's copies neither drop nor reorder, in any     *)
(* interleaving, while no connection is lost.                               *)
THEOREM BytesArriveInOrder == Spec => []InOrder
<1>1. TunnelInv => InOrder
  <2> SUFFICES ASSUME TunnelInv, lost = {}, NEW d \in Dirs
               PROVE  got[d].bytes \o InFlight(d) = [n \in 1 .. sent[d] |-> n]
    BY DEF InOrder
  <2>1. MaxBytes[d] \in Nat
    BY TunnelAssumption DEF Dirs
  <2>2. PICK b \in [0 .. Len(hops) + 1 -> 0 .. MaxBytes[d]] : Boundaries(d, b)
    BY DEF TunnelInv, FlowInv
  <2>3. b \in [0 .. Len(hops) + 1 -> Nat] /\ TypeOK /\ Len(hops) \in Nat
    BY <2>1, EndLinks DEF TunnelInv
  <2>4. InFlight(d) = Numbers(b[0], sent[d]) /\ b[0] <= sent[d] /\ got[d].bytes = Numbers(0, b[0])
    BY <2>2, <2>3, FlightIsRun DEF Boundaries
  <2>5. b[0] \in Nat /\ sent[d] \in Nat
    BY <2>2, <2>3 DEF Boundaries
  <2>6. Numbers(0, b[0]) \o Numbers(b[0], sent[d]) = Numbers(0, sent[d])
    BY <2>4, <2>5, NumbersJoin
  <2>7. Numbers(0, sent[d]) = [n \in 1 .. sent[d] |-> n]
    BY <2>5 DEF Numbers
  <2> QED BY <2>4, <2>6, <2>7
<1> QED BY <1>1, TunnelInvariant, PTL

(* A finished receiver has read everything: end of file was passed on by    *)
(* each copy in turn only after it had drained what it reads from, so the   *)
(* chain behind it is empty back to the sender, who has closed.             *)
LEMMA EofIsComplete == TunnelInv => EofMeansComplete
<1> SUFFICES ASSUME TunnelInv, lost = {}, NEW d \in Dirs, got[d].eof
             PROVE  fin[d][FirstLink(d)] /\ Len(got[d].bytes) = sent[d]
  BY DEF EofMeansComplete
<1> DEFINE Link(i) == IF d = "request" THEN Len(hops) - i ELSE i
           S == {i \in Links : fin[d][Link(i)] /\ AtDistance(d, i) = <<>>}
<1>0. Len(hops) \in Nat \ {0} /\ Links = 0 .. Len(hops) /\ MaxBytes[d] \in Nat /\ TypeOK
  BY EndLinks, TunnelAssumption DEF Links, Dirs, TunnelInv
<1>1. 0 \in S
  <2>1. fin[d][LastLink(d)] /\ pipe[d][LastLink(d)] = <<>>
    BY DEF TunnelInv, EofInv
  <2>2. LastLink(d) = Link(0)
    BY <1>0 DEF LastLink
  <2> QED BY <1>0, <2>1, <2>2 DEF AtDistance
<1>2. \A i \in 0 .. Len(hops) - 1 : i \in S => i + 1 \in S
  <2> SUFFICES ASSUME NEW i \in 0 .. Len(hops) - 1, i \in S PROVE i + 1 \in S
    OBVIOUS
  <2>1. PICK h \in HopIds : Out(h, d) = Link(i) /\ In(h, d) = Link(i + 1)
    <3>1. CASE d = "request"
      <4>1. Len(hops) - i \in HopIds
        BY <1>0 DEF HopIds
      <4>2. Out(Len(hops) - i, d) = Link(i) /\ In(Len(hops) - i, d) = Link(i + 1)
        BY <1>0, <3>1 DEF In, Out
      <4> QED BY <4>1, <4>2
    <3>2. CASE d # "request"
      <4>1. i + 1 \in HopIds
        BY <1>0 DEF HopIds
      <4>2. Out(i + 1, d) = Link(i) /\ In(i + 1, d) = Link(i + 1)
        BY <1>0, <3>2 DEF In, Out
      <4> QED BY <4>1, <4>2
    <3> QED BY <3>1, <3>2
  <2>2. hop[h][d] = "eof" => fin[d][In(h, d)] /\ pipe[d][In(h, d)] = <<>>
    BY DEF TunnelInv, EofInv
  <2>3. fin[d][Out(h, d)] => hop[h][d] = "eof"
    BY DEF TunnelInv, EofInv
  <2>4. fin[d][Link(i)]
    OBVIOUS
  <2>5. fin[d][Link(i + 1)] /\ pipe[d][Link(i + 1)] = <<>>
    <3> HIDE DEF Link
    <3> QED BY <2>1, <2>2, <2>3, <2>4
  <2>6. AtDistance(d, i + 1) = pipe[d][Link(i + 1)] /\ i + 1 \in Links
    BY <1>0 DEF AtDistance
  <2> HIDE DEF Link
  <2> QED BY <2>5, <2>6
<1>3. \A i \in Links : i \in S
  <2> HIDE DEF S
  <2> QED BY <1>0, <1>1, <1>2, UpTo
<1>4. fin[d][FirstLink(d)]
  <2>1. Len(hops) \in S /\ FirstLink(d) = Link(Len(hops))
    BY <1>0, <1>3 DEF FirstLink
  <2> HIDE DEF Link
  <2> QED BY <2>1
<1>5. PICK b \in [0 .. Len(hops) + 1 -> 0 .. MaxBytes[d]] : Boundaries(d, b)
  BY DEF TunnelInv, FlowInv
<1>6. \A i \in Links : b[i] = b[i + 1]
  <2> SUFFICES ASSUME NEW i \in Links PROVE b[i] = b[i + 1]
    OBVIOUS
  <2>1. b[i] \in Nat /\ b[i + 1] \in Nat
    BY <1>0, <1>5
  <2>2. b[i] <= b[i + 1] /\ AtDistance(d, i) = Numbers(b[i], b[i + 1])
    BY <1>5 DEF Boundaries
  <2>3. AtDistance(d, i) = <<>>
    BY <1>3
  <2> QED BY <2>1, <2>2, <2>3, NumbersEmpty
<1>7. b[0] = b[Len(hops) + 1]
  <2> DEFINE E == {i \in Links : b[i + 1] = b[0]}
  <2>1. 0 \in E
    BY <1>0, <1>6
  <2>2. \A i \in 0 .. Len(hops) - 1 : i \in E => i + 1 \in E
    BY <1>0, <1>6
  <2>3. \A i \in 0 .. Len(hops) : i \in E
    <3> HIDE DEF E
    <3> QED BY <1>0, <2>1, <2>2, UpTo
  <2> QED BY <1>0, <2>3
<1>8. Len(got[d].bytes) = sent[d]
  <2>1. got[d].bytes = Numbers(0, b[0]) /\ sent[d] = b[0] /\ b[0] \in Nat
    BY <1>0, <1>5, <1>7 DEF Boundaries
  <2>2. ASSUME NEW n \in Nat PROVE Len(Numbers(0, n)) = n
    BY DEF Numbers
  <2> QED BY <2>1, <2>2
<1> QED BY <1>4, <1>8

(* End of file is not truncation: while no connection is lost, an end that  *)
(* reads it has read all the other end wrote before closing, over bridges   *)
(* and relays alike.                                                        *)
THEOREM EofIsNotTruncation == Spec => []EofMeansComplete
<1> QED BY EofIsComplete, TunnelInvariant, PTL
=============================================================================
