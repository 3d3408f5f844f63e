---------------------------- MODULE StreamProofs ----------------------------
(***************************************************************************)
(* The two parsers of a byte stream, for every sequence of requests or     *)
(* frames, every limit and every way in which the stream is handed over:   *)
(* the request loop of the static file service (StaticHttp) and the frame  *)
(* codec (Frames).  Both arguments place the reader at an offset of all    *)
(* that was written and say which byte is where.                           *)
(***************************************************************************)
EXTENDS StaticHttp, Frames, TLAPS, WellFoundedInduction, SequenceTheorems

(* A set of natural numbers that is not empty has a least element. *)
LEMMA LeastNat ==
    ASSUME NEW T \in SUBSET Nat, T # {}
    PROVE  \E x \in T : \A y \in T : x <= y
<1>1. IsWellFoundedOn(OpToRel(<, Nat), Nat)
  BY NatLessThanWellFounded, Zenon
<1>2. PICK x \in T : \A y \in T : ~ (<<y, x>> \in OpToRel(<, Nat))
  BY <1>1, WFMin, Zenon
<1>3. \A y \in T : ~ (y < x)
  BY <1>2 DEF OpToRel
<1> QED BY <1>3

LEMMA MinIsLeast ==
    ASSUME NEW T \in SUBSET Nat, T # {}
    PROVE  Min(T) \in T /\ \A y \in T : Min(T) <= y
<1>1. \E x \in T : \A y \in T : x <= y
  BY LeastNat
<1> QED BY <1>1, Zenon DEF Min

(* A set that has 0 and with every number below n its successor has all     *)
(* numbers up to n.                                                         *)
LEMMA UpTo ==
    ASSUME NEW n \in Nat, NEW S, 0 \in S, \A i \in 0 .. n - 1 : i \in S => i + 1 \in S
    PROVE  \A i \in 0 .. n : i \in S
<1> SUFFICES ASSUME NEW j \in 0 .. n, j \notin S PROVE FALSE
  OBVIOUS
<1> DEFINE T == {i \in 0 .. n : i \notin S}
<1>1. T \in SUBSET Nat /\ T # {}
  OBVIOUS
<1>2. PICK m \in T : \A y \in T : m <= y
  <2> HIDE DEF T
  <2> QED BY <1>1, LeastNat
<1>3. m # 0
  BY <1>2
<1>4. m - 1 \in 0 .. n - 1 /\ m - 1 \in S
  BY <1>2, <1>3
<1>5. m \in S
  BY <1>4
<1> QED BY <1>2, <1>5

-----------------------------------------------------------------------------
(* Offsets: f[i] is the total of the first i lengths. *)
IsTotal(f, n, len) ==
    /\ f \in [0 .. n -> Nat]
    /\ f[0] = 0
    /\ \A i \in 1 .. n : f[i] = f[i - 1] + len[i]

LEMMA TotalExists ==
    ASSUME NEW n \in Nat, NEW len \in [1 .. n -> Nat]
    PROVE  \E f : IsTotal(f, n, len)
<1> DEFINE S == {m \in 0 .. n : \E f : IsTotal(f, m, len)}
<1>1. 0 \in S
  <2>1. IsTotal([i \in 0 .. 0 |-> 0], 0, len)
    BY DEF IsTotal
  <2> QED BY <2>1
<1>2. ASSUME NEW m \in 0 .. n - 1, m \in S
      PROVE  m + 1 \in S
  <2>1. PICK f : IsTotal(f, m, len)
    BY <1>2
  <2> DEFINE g == [i \in 0 .. m + 1 |-> IF i <= m THEN f[i] ELSE f[m] + len[m + 1]]
  <2>2. IsTotal(g, m + 1, len)
    <3>1. f \in [0 .. m -> Nat] /\ f[m] \in Nat /\ len[m + 1] \in Nat
      BY <2>1 DEF IsTotal
    <3>2. g \in [0 .. m + 1 -> Nat] /\ g[0] = 0
      BY <2>1, <3>1 DEF IsTotal
    <3>3. \A i \in 1 .. m : g[i] = g[i - 1] + len[i]
      <4>1. \A i \in 0 .. m : g[i] = f[i]
        OBVIOUS
      <4>2. \A i \in 1 .. m : i - 1 \in 0 .. m /\ i \in 0 .. m
        OBVIOUS
      <4> QED BY <2>1, <4>1, <4>2 DEF IsTotal
    <3>4. g[m + 1] = g[m] + len[m + 1]
      BY <3>1
    <3> HIDE DEF g
    <3>5. \A i \in 1 .. m + 1 : g[i] = g[i - 1] + len[i]
      <4> TAKE i \in 1 .. m + 1
      <4>1. CASE i \in 1 .. m
        BY <4>1, <3>3
      <4>2. CASE i = m + 1
        BY <4>2, <3>4
      <4> QED BY <4>1, <4>2
    <3> QED BY <3>2, <3>5 DEF IsTotal
  <2>3. m + 1 \in 0 .. n
    OBVIOUS
  <2> QED BY <2>2, <2>3
<1>3. \A i \in 0 .. n : i \in S
  <2> HIDE DEF S
  <2> QED BY <1>1, <1>2, UpTo
<1> QED BY <1>3

LEMMA TotalMonotone ==
    ASSUME NEW n \in Nat, NEW len \in [1 .. n -> Nat], NEW f, IsTotal(f, n, len),
           NEW i \in 0 .. n, NEW j \in 0 .. n, i <= j
    PROVE  f[i] <= f[j]
<1> DEFINE S == {k \in 0 .. n - i : f[i] <= f[i + k]}
<1>1. 0 \in S
  BY DEF IsTotal
<1>2. ASSUME NEW k \in 0 .. n - i - 1, k \in S
      PROVE  k + 1 \in S
  <2>1. f[i + k + 1] = f[i + k] + len[i + k + 1] /\ f[i + k] \in Nat /\ f[i] \in Nat
    BY <1>2 DEF IsTotal
  <2> QED BY <1>2, <2>1
<1>3. \A k \in 0 .. n - i : k \in S
  <2> HIDE DEF S
  <2>1. n - i \in Nat
    OBVIOUS
  <2> QED BY <1>1, <1>2, <2>1, UpTo
<1>4. j - i \in 0 .. n - i /\ i + (j - i) = j
  OBVIOUS
<1> QED BY <1>3, <1>4

(* A position up to the total lies in one of the parts. *)
LEMMA TotalLocates ==
    ASSUME NEW n \in Nat, NEW len \in [1 .. n -> Nat], NEW f, IsTotal(f, n, len),
           NEW m \in 0 .. n, NEW a \in Nat \ {0}, a <= f[m]
    PROVE  \E i \in 1 .. m : f[i - 1] < a /\ a <= f[i]
<1> DEFINE T == {i \in 0 .. m : a <= f[i]}
<1>1. T \in SUBSET Nat /\ T # {}
  OBVIOUS
<1>2. PICK i \in T : \A y \in T : i <= y
  <2> HIDE DEF T
  <2> QED BY <1>1, LeastNat
<1>3. i # 0
  BY <1>2 DEF IsTotal
<1>4. i - 1 \in 0 .. m /\ i - 1 \notin T
  BY <1>2, <1>3
<1>5. f[i - 1] \in Nat
  BY <1>4 DEF IsTotal
<1> QED BY <1>2, <1>3, <1>4, <1>5

-----------------------------------------------------------------------------
(* The requests of a script. *)
LEMMA OffsetTotal ==
    ASSUME script \in Scripts
    PROVE  /\ Len(script) \in Nat
           /\ [i \in 1 .. Len(script) |-> Len(script[i])] \in [1 .. Len(script) -> Nat]
           /\ IsTotal(Offset, Len(script), [i \in 1 .. Len(script) |-> Len(script[i])])
<1> DEFINE n == Len(script)
           len == [i \in 1 .. n |-> Len(script[i])]
<1>1. script \in Seq(Seq(Bytes))
  BY ScriptsAssumption
<1>2. n \in Nat /\ len \in [1 .. n -> Nat]
  BY <1>1
<1>3. PICK f : IsTotal(f, n, len)
  <2> HIDE DEF n, len
  <2> QED BY <1>2, TotalExists
<1>4. f = [i \in 0 .. Len(script) |-> IF i = 0 THEN 0 ELSE f[i - 1] + Len(script[i])]
  BY <1>2, <1>3 DEF IsTotal
<1>5. Offset = [i \in 0 .. Len(script) |-> IF i = 0 THEN 0 ELSE Offset[i - 1] + Len(script[i])]
  BY <1>4, Zenon DEF Offset
<1>6. ASSUME NEW i \in 0 .. n PROVE Offset[i] \in Nat
  <2> DEFINE S == {k \in 0 .. n : Offset[k] \in Nat}
  <2>1. 0 \in S
    BY <1>2, <1>5
  <2>2. ASSUME NEW k \in 0 .. n - 1, k \in S PROVE k + 1 \in S
    <3>1. k + 1 \in 0 .. n /\ k + 1 # 0 /\ (k + 1) - 1 = k /\ Len(script[k + 1]) \in Nat
      BY <1>1, <1>2
    <3>2. Offset[k + 1] = Offset[k] + Len(script[k + 1])
      BY <1>5, <3>1
    <3> QED BY <2>2, <3>1, <3>2
  <2>3. \A k \in 0 .. n : k \in S
    <3> HIDE DEF S, n
    <3> QED BY <1>2, <2>1, <2>2, UpTo
  <2> QED BY <2>3
<1>7. Offset \in [0 .. n -> Nat]
  BY <1>5, <1>6
<1>8. Offset[0] = 0
  BY <1>2, <1>5
<1>9. \A i \in 1 .. n : Offset[i] = Offset[i - 1] + len[i]
  BY <1>2, <1>5
<1> QED BY <1>2, <1>7, <1>8, <1>9 DEF IsTotal

(* What the proofs below use of the offsets. *)
LEMMA OffsetFacts ==
    ASSUME script \in Scripts
    PROVE  /\ script \in Seq(Seq(Bytes)) /\ Len(script) \in Nat
           /\ Offset[0] = 0
           /\ \A i \in 0 .. Len(script) : Offset[i] \in Nat
           /\ \A i \in 1 .. Len(script) :
                /\ script[i] \in Seq(Bytes) /\ IsRequest(script[i])
                /\ Len(script[i]) \in Nat
                /\ Offset[i] = Offset[i - 1] + Len(script[i])
           /\ \A i, j \in 0 .. Len(script) : i <= j => Offset[i] <= Offset[j]
<1>1. script \in Seq(Seq(Bytes)) /\ \A i \in DOMAIN script : IsRequest(script[i])
  BY ScriptsAssumption
<1>2. \A i \in 1 .. Len(script) : script[i] \in Seq(Bytes) /\ IsRequest(script[i]) /\ Len(script[i]) \in Nat
  BY <1>1
<1>3. \A i, j \in 0 .. Len(script) : i <= j => Offset[i] <= Offset[j]
  BY OffsetTotal, TotalMonotone
<1>4. \A i \in 1 .. Len(script) : Offset[i] = Offset[i - 1] + Len(script[i])
  BY OffsetTotal DEF IsTotal
<1> QED BY <1>1, <1>2, <1>3, <1>4, OffsetTotal DEF IsTotal

(* Two positions: the terminators byte by byte. *)
LEMMA CrLfBytes ==
    ASSUME NEW s \in Seq(Bytes), NEW i \in 1 .. Len(s)
    PROVE  CrLfAt(s, i) <=>
             /\ i + 3 <= Len(s)
             /\ s[i] = "r" /\ s[i + 1] = "n" /\ s[i + 2] = "r" /\ s[i + 3] = "n"
<1>1. CASE i + 3 <= Len(s)
  <2> DEFINE t == SubSeq(s, i, i + 3)
  <2>1. t \in Seq(Bytes) /\ Len(t) = 4
    BY <1>1
  <2>2. t[1] = s[i] /\ t[2] = s[i + 1] /\ t[3] = s[i + 2] /\ t[4] = s[i + 3]
    BY <1>1
  <2>3. t = <<"r", "n", "r", "n">> <=> t[1] = "r" /\ t[2] = "n" /\ t[3] = "r" /\ t[4] = "n"
    <3> HIDE DEF t
    <3> QED BY <2>1
  <2> QED BY <1>1, <2>2, <2>3 DEF CrLfAt
<1>2. CASE ~(i + 3 <= Len(s))
  BY <1>2 DEF CrLfAt
<1> QED BY <1>1, <1>2

LEMMA LfBytes ==
    ASSUME NEW s \in Seq(Bytes), NEW i \in 1 .. Len(s)
    PROVE  LfAt(s, i) <=> i + 1 <= Len(s) /\ s[i] = "n" /\ s[i + 1] = "n"
<1>1. CASE i + 1 <= Len(s)
  <2> DEFINE t == SubSeq(s, i, i + 1)
  <2>1. t \in Seq(Bytes) /\ Len(t) = 2
    BY <1>1
  <2>2. t[1] = s[i] /\ t[2] = s[i + 1]
    BY <1>1
  <2>3. t = <<"n", "n">> <=> t[1] = "n" /\ t[2] = "n"
    <3> HIDE DEF t
    <3> QED BY <2>1
  <2> QED BY <1>1, <2>2, <2>3 DEF LfAt
<1>2. CASE ~(i + 1 <= Len(s))
  BY <1>2 DEF LfAt
<1> QED BY <1>1, <1>2

(* The searches find the first occurrence. *)
LEMMA FindLineEndFirst ==
    ASSUME NEW s \in Seq(Bytes), NEW e, e = FindLineEnd(s)
    PROVE  \/ e = 0 /\ \A i \in 1 .. Len(s) : s[i] # "n"
           \/ e \in 1 .. Len(s) /\ s[e] = "n" /\ \A i \in 1 .. e - 1 : s[i] # "n"
<1> DEFINE at == {i \in DOMAIN s : s[i] = "n"}
<1>1. at \in SUBSET Nat /\ DOMAIN s = 1 .. Len(s) /\ Len(s) \in Nat
  OBVIOUS
<1>2. CASE at = {}
  BY <1>1, <1>2 DEF FindLineEnd
<1>3. CASE at # {}
  <2>1. Min(at) \in at /\ \A y \in at : Min(at) <= y
    <3> HIDE DEF at
    <3> QED BY <1>1, <1>3, MinIsLeast
  <2>2. e = Min(at)
    BY <1>3 DEF FindLineEnd
  <2>3. e \in 1 .. Len(s) /\ s[e] = "n"
    BY <1>1, <2>1, <2>2
  <2>4. \A i \in 1 .. e - 1 : s[i] # "n"
    <3> TAKE i \in 1 .. e - 1
    <3>1. i \in DOMAIN s /\ ~(Min(at) <= i)
      BY <1>1, <2>2, <2>3
    <3> QED BY <2>1, <3>1
  <2> QED BY <2>3, <2>4
<1> QED BY <1>2, <1>3

TerminatorAt(s, i) == CrLfAt(s, i) \/ LfAt(s, i)
TerminatorEnd(s, i) == IF CrLfAt(s, i) THEN i + 3 ELSE i + 1

LEMMA FindHeaderTerminatorFirst ==
    ASSUME NEW s \in Seq(Bytes), NEW e, e = FindHeaderTerminator(s)
    PROVE  \/ e = 0 /\ \A i \in 1 .. Len(s) : ~TerminatorAt(s, i)
           \/ \E m \in 1 .. Len(s) :
                /\ TerminatorAt(s, m) /\ e = TerminatorEnd(s, m)
                /\ e \in 1 .. Len(s)
                /\ \A i \in 1 .. m - 1 : ~TerminatorAt(s, i)
<1> DEFINE at == {i \in DOMAIN s : CrLfAt(s, i) \/ LfAt(s, i)}
<1>1. at \in SUBSET Nat /\ DOMAIN s = 1 .. Len(s) /\ Len(s) \in Nat
  OBVIOUS
<1>2. CASE at = {}
  BY <1>1, <1>2 DEF FindHeaderTerminator, TerminatorAt
<1>3. CASE at # {}
  <2>1. Min(at) \in at /\ \A y \in at : Min(at) <= y
    <3> HIDE DEF at
    <3> QED BY <1>1, <1>3, MinIsLeast
  <2>2. e = TerminatorEnd(s, Min(at))
    BY <1>3 DEF FindHeaderTerminator, TerminatorEnd
  <2>3. Min(at) \in 1 .. Len(s) /\ TerminatorAt(s, Min(at))
    BY <1>1, <2>1 DEF TerminatorAt
  <2>4. e \in 1 .. Len(s)
    BY <1>1, <2>2, <2>3, CrLfBytes, LfBytes DEF TerminatorAt, TerminatorEnd
  <2>5. \A i \in 1 .. Min(at) - 1 : ~TerminatorAt(s, i)
    <3> TAKE i \in 1 .. Min(at) - 1
    <3>1. i \in DOMAIN s /\ ~(Min(at) <= i)
      BY <1>1, <2>3
    <3> QED BY <2>1, <3>1 DEF TerminatorAt
  <2> QED BY <2>2, <2>3, <2>4, <2>5
<1> QED BY <1>2, <1>3

-----------------------------------------------------------------------------
(* One request. *)
Start(req) == IF LfAt(req, Len(req) - 1) THEN Len(req) - 1 ELSE Len(req) - 3
LineOf(req) == Range(SubSeq(req, 1, LineLength(req))) \cap LineBytes

(* Where its terminator is. *)
LEMMA RequestEnd ==
    ASSUME NEW q, IsRequest(q)
    PROVE  /\ q \in Seq(Bytes) /\ Len(q) \in Nat
           /\ Start(q) \in 2 .. Len(q)
           /\ q[Start(q)] \in {"r", "n"} /\ q[1] \notin {"r", "n"}
           /\ \/ /\ CrLfAt(q, Start(q)) /\ Start(q) + 3 = Len(q)
                 /\ q[Start(q)] = "r" /\ q[Start(q) + 1] = "n"
                 /\ q[Start(q) + 2] = "r" /\ q[Start(q) + 3] = "n"
              \/ /\ LfAt(q, Start(q)) /\ Start(q) + 1 = Len(q)
                 /\ q[Start(q)] = "n" /\ q[Start(q) + 1] = "n"
           /\ \A i \in 1 .. Len(q) : TerminatorAt(q, i) => i = Start(q)
<1> DEFINE n == Len(q)
<1>1. q \in Seq(Bytes) /\ DOMAIN q = 1 .. n /\ q[1] \notin {"r", "n"}
  BY DEF IsRequest
<1>n. n \in Nat
  BY <1>1
<1>2. \A i \in 1 .. n : CrLfAt(q, i) => i + 3 = n
  BY <1>1 DEF IsRequest
<1>3. \A i \in 1 .. n : LfAt(q, i) => i + 1 = n
  BY <1>1 DEF IsRequest
<1>4. \E i \in 1 .. n : CrLfAt(q, i) \/ LfAt(q, i)
  BY <1>1 DEF IsRequest
<1>5. \A i \in 1 .. n : CrLfAt(q, i) =>
         i + 3 <= n /\ q[i] = "r" /\ q[i + 1] = "n" /\ q[i + 2] = "r" /\ q[i + 3] = "n"
  BY <1>1, CrLfBytes
<1>6. \A i \in 1 .. n : LfAt(q, i) <=> i + 1 <= n /\ q[i] = "n" /\ q[i + 1] = "n"
  BY <1>1, LfBytes
<1>s. Start(q) = IF LfAt(q, n - 1) THEN n - 1 ELSE n - 3
  BY DEF Start
<1> HIDE DEF n
<1>7. PICK m \in 1 .. n : CrLfAt(q, m) \/ LfAt(q, m)
  BY <1>4
<1>8. m # 1
  BY <1>1, <1>5, <1>6, <1>7
<1>9. CASE LfAt(q, m)
  <2>1. m + 1 = n /\ q[m] = "n" /\ q[m + 1] = "n"
    BY <1>3, <1>6, <1>9
  <2>2. m = n - 1
    BY <1>n, <2>1
  <2>3. Start(q) = m
    BY <1>9, <1>s, <2>2
  <2>4. \A i \in 1 .. n : LfAt(q, i) => i = m
    BY <1>n, <1>3, <2>1
  <2>5. \A i \in 1 .. n : ~CrLfAt(q, i)
    <3> SUFFICES ASSUME NEW i \in 1 .. n, CrLfAt(q, i) PROVE FALSE
      OBVIOUS
    <3>1. i + 3 = n /\ q[i + 2] = "r"
      BY <1>2, <1>5
    <3>2. i + 2 = m
      BY <1>n, <2>1, <3>1
    <3> QED BY <2>1, <3>1, <3>2
  <2>6. m \in 2 .. n
    BY <1>n, <1>8
  <2> QED BY <1>1, <1>n, <1>9, <2>1, <2>3, <2>4, <2>5, <2>6 DEF TerminatorAt, n
<1>10. CASE CrLfAt(q, m)
  <2>1. m + 3 = n /\ q[m] = "r" /\ q[m + 1] = "n" /\ q[m + 2] = "r" /\ q[m + 3] = "n"
    BY <1>2, <1>5, <1>10
  <2>2. n - 1 \in 1 .. n /\ n - 1 = m + 2 /\ n - 3 = m
    BY <1>n, <2>1
  <2>3. ~LfAt(q, n - 1)
    BY <1>6, <2>1, <2>2
  <2>4. Start(q) = m
    BY <1>s, <2>2, <2>3
  <2>5. \A i \in 1 .. n : CrLfAt(q, i) => i = m
    BY <1>n, <1>2, <2>1
  <2>6. \A i \in 1 .. n : ~LfAt(q, i)
    <3> SUFFICES ASSUME NEW i \in 1 .. n, LfAt(q, i) PROVE FALSE
      OBVIOUS
    <3>1. i = n - 1
      BY <1>n, <1>3
    <3> QED BY <2>3, <3>1
  <2>7. m \in 2 .. n
    BY <1>n, <1>8
  <2> QED BY <1>1, <1>n, <1>10, <2>1, <2>4, <2>5, <2>6, <2>7 DEF TerminatorAt, n
<1> QED BY <1>7, <1>9, <1>10

(* Where its line ends. *)
LEMMA RequestLine ==
    ASSUME NEW q, IsRequest(q)
    PROVE  /\ LineLength(q) \in 2 .. Len(q)
           /\ q[LineLength(q)] = "n"
           /\ \A i \in 1 .. LineLength(q) - 1 : q[i] # "n"
<1>1. q \in Seq(Bytes) /\ Len(q) \in Nat
  BY RequestEnd
<1>2. \E i \in 1 .. Len(q) : q[i] = "n"
  <2>1. Start(q) \in 2 .. Len(q)
    BY RequestEnd
  <2>2. \/ q[Start(q) + 3] = "n" /\ Start(q) + 3 = Len(q)
        \/ q[Start(q)] = "n"
    BY RequestEnd
  <2>3. Start(q) \in 1 .. Len(q) /\ (Start(q) + 3 = Len(q) => Start(q) + 3 \in 1 .. Len(q))
    BY <1>1, <2>1
  <2> QED BY <2>2, <2>3
<1>3. \/ LineLength(q) = 0 /\ \A i \in 1 .. Len(q) : q[i] # "n"
      \/ /\ LineLength(q) \in 1 .. Len(q) /\ q[LineLength(q)] = "n"
         /\ \A i \in 1 .. LineLength(q) - 1 : q[i] # "n"
  BY <1>1, FindLineEndFirst DEF LineLength
<1>4. q[1] # "n"
  BY RequestEnd
<1> QED BY <1>1, <1>2, <1>3, <1>4

(* A request with headers has its terminator after its line. *)
LEMMA TerminatorAfterLine ==
    ASSUME NEW q, IsRequest(q), HasHeaders(q)
    PROVE  LineLength(q) < Start(q)
<1>1. LineLength(q) \in 2 .. Len(q) /\ q[LineLength(q)] = "n" /\ Len(q) \in Nat
  BY RequestLine, RequestEnd
<1>2. Len(q) - LineLength(q) > 2
  BY DEF HasHeaders
<1>3. \/ Start(q) + 3 = Len(q) /\ q[Start(q)] = "r"
      \/ Start(q) + 1 = Len(q)
  BY RequestEnd
<1>4. Start(q) \in 2 .. Len(q)
  BY RequestEnd
<1>5. LineLength(q) # Start(q) \/ Start(q) + 1 = Len(q)
  BY <1>1, <1>3
<1> QED BY <1>1, <1>2, <1>3, <1>4, <1>5

LEMMA HeadersBytes ==
    ASSUME NEW q, IsRequest(q)
    PROVE  /\ HeadersOf(q) \in Seq(Bytes)
           /\ Len(HeadersOf(q)) = Len(q) - LineLength(q)
           /\ \A i \in 1 .. Len(q) - LineLength(q) : HeadersOf(q)[i] = q[LineLength(q) + i]
<1>1. q \in Seq(Bytes) /\ Len(q) \in Nat /\ LineLength(q) \in 2 .. Len(q)
  BY RequestLine, RequestEnd
<1> HIDE DEF LineLength
<1> QED BY <1>1 DEF HeadersOf

(* What its line says. *)
LEMMA LineSays ==
    ASSUME NEW q, IsRequest(q), NEW x \in LineBytes
    PROVE  x \in LineOf(q) <=> x \in Range(q)
<1>1. q \in Seq(Bytes) /\ Len(q) \in Nat /\ LineLength(q) \in 2 .. Len(q)
  BY RequestLine, RequestEnd
<1> DEFINE l == SubSeq(q, 1, LineLength(q))
<1>2. l \in Seq(Bytes) /\ Len(l) = LineLength(q) /\ \A i \in 1 .. LineLength(q) : l[i] = q[i]
  BY <1>1
<1>3. DOMAIN l = 1 .. LineLength(q) /\ DOMAIN q = 1 .. Len(q)
  BY <1>1, <1>2
<1>4. Range(l) = {l[i] : i \in 1 .. LineLength(q)} /\ Range(q) = {q[i] : i \in 1 .. Len(q)}
  BY <1>3 DEF Range
<1>5. \A i \in 1 .. Len(q) : ~(i <= LineLength(q)) => q[i] \notin LineBytes
  BY <1>1 DEF IsRequest
<1>6. x \in Range(l) <=> x \in Range(q)
  <2>1. ASSUME x \in Range(l) PROVE x \in Range(q)
    <3>1. PICK i \in 1 .. LineLength(q) : x = l[i]
      BY <1>4, <2>1
    <3>2. i \in 1 .. Len(q) /\ x = q[i]
      BY <1>1, <1>2, <3>1
    <3> QED BY <1>4, <3>2
  <2>2. ASSUME x \in Range(q) PROVE x \in Range(l)
    <3>1. PICK i \in 1 .. Len(q) : x = q[i]
      BY <1>4, <2>2
    <3>2. i \in 1 .. LineLength(q)
      BY <1>1, <1>5, <3>1
    <3>3. x = l[i]
      BY <1>2, <3>1, <3>2
    <3> QED BY <1>4, <3>2, <3>3
  <2> QED BY <2>1, <2>2
<1> QED BY <1>6 DEF LineOf

(* What its headers say. *)
LEMMA HeadersSay ==
    ASSUME NEW q, IsRequest(q), NEW x \in {"c", "k", "b"}
    PROVE  x \in Fields(HeadersOf(q)) <=> x \in Range(q)
<1> DEFINE h == HeadersOf(q)
<1>1. q \in Seq(Bytes) /\ Len(q) \in Nat /\ LineLength(q) \in 2 .. Len(q)
  BY RequestLine, RequestEnd
<1>2. /\ h \in Seq(Bytes) /\ Len(h) = Len(q) - LineLength(q) /\ DOMAIN h = 1 .. Len(h)
      /\ \A i \in 1 .. Len(h) : h[i] = q[LineLength(q) + i]
  BY HeadersBytes
<1>3. Range(q) = {q[i] : i \in 1 .. Len(q)}
  BY <1>1 DEF Range
<1>4. \A i \in 1 .. Len(q) : i <= LineLength(q) => q[i] \notin {"c", "k", "b"}
  BY <1>1 DEF IsRequest
<1>5. \A i \in 1 .. Len(h) : EmptyLineAt(h, i) => i >= Len(h) - 1
  BY <1>2 DEF IsRequest
<1>6. ASSUME NEW i \in 1 .. Len(q), i >= Len(q) - 1 PROVE q[i] \in {"r", "n"}
  BY <1>1, <1>6, RequestEnd
<1> HIDE DEF h
<1>7. ASSUME x \in Fields(h) PROVE x \in Range(q)
  <2>1. PICK i \in 1 .. Len(h) : x = h[i]
    BY <1>2, <1>7 DEF Fields
  <2>2. LineLength(q) + i \in 1 .. Len(q) /\ x = q[LineLength(q) + i]
    BY <1>1, <1>2, <2>1
  <2> QED BY <1>3, <2>2
<1>8. ASSUME x \in Range(q) PROVE x \in Fields(h)
  <2>1. PICK i \in 1 .. Len(q) : x = q[i]
    BY <1>3, <1>8
  <2>2. ~(i <= LineLength(q)) /\ ~(i >= Len(q) - 1)
    BY <1>4, <1>6, <2>1
  <2>3. i - LineLength(q) \in 1 .. Len(h) /\ i - LineLength(q) < Len(h) - 1
        /\ LineLength(q) + (i - LineLength(q)) = i
    BY <1>1, <1>2, <2>2
  <2>4. x = h[i - LineLength(q)]
    BY <1>2, <2>1, <2>3
  <2>5. \A j \in 1 .. i - LineLength(q) : ~EmptyLineAt(h, j)
    <3> TAKE j \in 1 .. i - LineLength(q)
    <3>1. j \in 1 .. Len(h) /\ ~(j >= Len(h) - 1)
      BY <1>1, <1>2, <2>3
    <3> QED BY <1>5, <3>1
  <2> QED BY <1>2, <2>3, <2>4, <2>5 DEF Fields
<1> QED BY <1>7, <1>8 DEF h

(* What becomes of the connection, once line and headers are read. *)
LEMMA KeepAliveIsAsked ==
    ASSUME NEW q, IsRequest(q), line = LineOf(q), taken = HeadersOf(q)
    PROVE  KeepAlive <=> ~LastOne(q)
<1>1. ("o" \in line <=> "o" \in Range(q)) /\ ("v" \in line <=> "v" \in Range(q))
  BY LineSays DEF LineBytes
<1>2. "k" \in Fields(taken) <=> "k" \in Range(q)
  BY HeadersSay
<1>3. "c" \in Fields(taken) <=> "c" \in Range(q)
  BY HeadersSay
<1> QED BY <1>1, <1>2, <1>3 DEF KeepAlive, LastOne, OtherVersion, AsksToClose

-----------------------------------------------------------------------------
(***************************************************************************)
(* The request loop.                                                       *)
(***************************************************************************)

(* Which byte is where: what was sent and not yet consumed is in the chunk  *)
(* and behind it.                                                           *)
Unread(b, r, p) == IF p <= Len(b) THEN b[p] ELSE r[p - Len(b)]

StreamInv ==
    /\ consumed + Len(buffer) + Len(rest) = Offset[sent]
    /\ \A i \in 1 .. sent : \A j \in 1 .. Len(script[i]) :
         Offset[i - 1] + j > consumed => Unread(buffer, rest, (Offset[i - 1] + j) - consumed) = script[i][j]

(* However the stream is cut: a response takes a terminator, and there is   *)
(* one per request.                                                         *)
ReachInv ==
    \E n \in served .. sent :
        /\ Offset[n] <= consumed
        /\ phase \in {"respond", "write"} => n > served

(* No chunk has ended inside the terminator of a request. *)
ChunkInv ==
    \A i \in 1 .. sent :
        ~ /\ Offset[i - 1] + Start(script[i]) <= consumed + Len(buffer)
          /\ consumed + Len(buffer) < Offset[i]

(* The request being read, and how much of it was. *)
Asked == script[served + 1]

LineInv ==
    phase = "line" =>
        /\ consumed = Offset[served] + Len(taken)
        /\ served = sent => taken = <<>>
        /\ served < sent => Len(taken) < LineLength(Asked)
        /\ \A j \in 1 .. Len(taken) : taken[j] = Asked[j]

HeadersInv ==
    phase = "headers" =>
        /\ served < sent
        /\ consumed = Offset[served] + LineLength(Asked) + Len(taken)
        /\ LineLength(Asked) + Len(taken) < Start(Asked)
        /\ \A j \in 1 .. Len(taken) : taken[j] = Asked[LineLength(Asked) + j]
        /\ line = LineOf(Asked)

AskedInv ==
    phase \in {"respond", "write"} =>
        /\ served < sent
        /\ consumed = Offset[served + 1]
        /\ taken = HeadersOf(Asked)
        /\ line = LineOf(Asked)

BaseInv ==
    /\ TypeOK /\ StreamInv /\ ReachInv
    /\ closed => sent = Len(script)
    /\ phase = "write" => response \in BuildResponse

HttpInv ==
    /\ BaseInv
    /\ Framed => ChunkInv /\ LineInv /\ HeadersInv /\ AskedInv
    /\ ClosesWhenAsked

(* What every step leaves alone. *)
LEMMA ScriptKept ==
    ASSUME [Next]_vars
    PROVE  script' = script /\ listing' = listing /\ Offset' = Offset /\ (cut => cut')
<1>1. script' = script /\ listing' = listing /\ (cut => cut')
  <2>1. PeerSends \/ PeerCloses \/ EndOfStream \/ StreamLost \/ Build \/ Respond \/ UNCHANGED vars
        => script' = script /\ listing' = listing /\ (cut => cut')
    BY DEF vars, PeerSends, PeerCloses, EndOfStream, StreamLost, Build, Respond
  <2>2. Arrive => script' = script /\ listing' = listing /\ (cut => cut')
    BY DEF Arrive
  <2>3. ReadRequestLine \/ ReadHeaders => script' = script /\ listing' = listing /\ (cut => cut')
    BY DEF ReadRequestLine, ReadHeaders
  <2> QED BY <2>1, <2>2, <2>3 DEF Next, Server
<1>2. Offset' = Offset
  BY <1>1, Zenon DEF Offset
<1> QED BY <1>1, <1>2

LEMMA FramedKept ==
    ASSUME [Next]_vars, Framed'
    PROVE  Framed
BY ScriptKept DEF Framed, HasHeaders

(* What a read does, once for both. *)
ReadBy(n) ==
    /\ n \in 0 .. Len(buffer)
    /\ Consume(n)
    /\ rest' = rest /\ sent' = sent /\ closed' = closed /\ served' = served /\ cut' = cut
    /\ response' = response

LEMMA ReadFacts ==
    ASSUME BaseInv, NEW n, ReadBy(n)
    PROVE  /\ buffer' \in Seq(Bytes) /\ consumed' \in Nat
           /\ Len(buffer') = Len(buffer) - n /\ consumed' = consumed + n
           /\ \A p \in 1 .. Len(buffer) - n : buffer'[p] = buffer[p + n]
<1>1. buffer \in Seq(Bytes) /\ Len(buffer) \in Nat /\ consumed \in Nat
  BY DEF BaseInv, TypeOK
<1>2. n \in 0 .. Len(buffer) /\ buffer' = SubSeq(buffer, n + 1, Len(buffer)) /\ consumed' = consumed + n
  BY DEF ReadBy, Consume
<1> QED BY <1>1, <1>2

LEMMA ReadStream ==
    ASSUME BaseInv, [Next]_vars, NEW n, ReadBy(n)
    PROVE  StreamInv'
<1>1. /\ buffer \in Seq(Bytes) /\ Len(buffer) \in Nat /\ rest \in Seq(Bytes) /\ Len(rest) \in Nat
      /\ consumed \in Nat /\ sent \in Nat /\ n \in 0 .. Len(buffer)
  BY DEF BaseInv, TypeOK, ReadBy
<1>2. /\ Len(buffer') = Len(buffer) - n /\ consumed' = consumed + n
      /\ \A p \in 1 .. Len(buffer) - n : buffer'[p] = buffer[p + n]
  BY ReadFacts
<1>3. rest' = rest /\ sent' = sent /\ script' = script /\ Offset' = Offset
  BY ScriptKept DEF ReadBy
<1>4. consumed' + Len(buffer') + Len(rest') = Offset'[sent']
  BY <1>1, <1>2, <1>3 DEF BaseInv, StreamInv
<1>5. ASSUME NEW i \in 1 .. sent, NEW j \in 1 .. Len(script[i]), Offset[i - 1] + j > consumed + n
      PROVE  Unread(buffer', rest, (Offset[i - 1] + j) - (consumed + n)) = script[i][j]
  <2> DEFINE a == Offset[i - 1] + j
  <2>1. Offset[i - 1] \in Nat /\ j \in Nat /\ a \in Nat
    <3>1. i - 1 \in 0 .. Len(script) /\ i \in 1 .. Len(script) /\ script \in Scripts
      BY DEF BaseInv, TypeOK
    <3> QED BY <3>1, OffsetFacts
  <2>2. a > consumed
    BY <1>1, <1>5, <2>1
  <2>3. Unread(buffer, rest, a - consumed) = script[i][j]
    <3>1. \A k \in 1 .. sent : \A l \in 1 .. Len(script[k]) :
            Offset[k - 1] + l > consumed =>
              Unread(buffer, rest, (Offset[k - 1] + l) - consumed) = script[k][l]
      BY DEF BaseInv, StreamInv
    <3> QED BY <2>2, <3>1, Zenon DEF a
  <2>4. a > consumed + n
    BY <1>5
  <2> HIDE DEF a
  <2>5. Unread(buffer', rest, a - (consumed + n)) = Unread(buffer, rest, a - consumed)
    <3>1. CASE a - consumed <= Len(buffer)
      <4>1. a - (consumed + n) \in 1 .. Len(buffer) - n /\ a - (consumed + n) <= Len(buffer')
            /\ a - (consumed + n) + n = a - consumed
        BY <1>1, <1>2, <2>1, <2>4, <3>1
      <4> QED BY <1>2, <3>1, <4>1 DEF Unread
    <3>2. CASE ~(a - consumed <= Len(buffer))
      <4>1. ~(a - (consumed + n) <= Len(buffer'))
            /\ a - (consumed + n) - Len(buffer') = a - consumed - Len(buffer)
        BY <1>1, <1>2, <2>1, <3>2
      <4> QED BY <3>2, <4>1 DEF Unread
    <3> QED BY <3>1, <3>2
  <2> QED BY <2>3, <2>5, Zenon DEF a
<1>6. \A i \in 1 .. sent' : \A j \in 1 .. Len(script'[i]) :
        Offset'[i - 1] + j > consumed' =>
          Unread(buffer', rest', (Offset'[i - 1] + j) - consumed') = script'[i][j]
  BY <1>2, <1>3, <1>5
<1> QED BY <1>4, <1>6 DEF StreamInv

(* The types that the arithmetic below needs. *)
LEMMA BaseFacts ==
    ASSUME BaseInv
    PROVE  /\ script \in Scripts /\ Len(script) \in Nat
           /\ sent \in 0 .. Len(script) /\ served \in 0 .. Len(script) /\ served <= sent
           /\ consumed \in Nat /\ Offset[sent] \in Nat
           /\ buffer \in Seq(Bytes) /\ Len(buffer) \in Nat
           /\ rest \in Seq(Bytes) /\ Len(rest) \in Nat
           /\ taken \in Seq(Bytes) /\ Len(taken) \in Nat
           /\ consumed + Len(buffer) <= Offset[sent]
           /\ consumed + Len(buffer) + Len(rest) = Offset[sent]
<1>1. /\ script \in Scripts
      /\ sent \in 0 .. Len(script) /\ served \in 0 .. Len(script)
      /\ consumed \in Nat
      /\ buffer \in Seq(Bytes) /\ rest \in Seq(Bytes) /\ taken \in Seq(Bytes)
  BY DEF BaseInv, TypeOK
<1>2. Len(script) \in Nat /\ Offset[sent] \in Nat
  BY <1>1, OffsetFacts
<1>3. Len(buffer) \in Nat /\ Len(rest) \in Nat /\ Len(taken) \in Nat
  BY <1>1
<1>4. served <= sent
  BY <1>1, <1>2 DEF BaseInv, ReachInv
<1>5. consumed + Len(buffer) + Len(rest) = Offset[sent]
  BY DEF BaseInv, StreamInv
<1> QED BY <1>1, <1>2, <1>3, <1>4, <1>5

(* A byte of the chunk. *)
LEMMA ByteAt ==
    ASSUME BaseInv, NEW k \in 1 .. sent, NEW j \in 1 .. Len(script[k]), NEW p \in 1 .. Len(buffer),
           consumed + p = Offset[k - 1] + j
    PROVE  buffer[p] = script[k][j]
<1>1. k \in 1 .. Len(script) /\ k - 1 \in 0 .. Len(script) /\ script \in Scripts
      /\ consumed \in Nat /\ Len(buffer) \in Nat
  BY BaseFacts, SMTT(30)
<1>2. Offset[k - 1] \in Nat /\ Len(script[k]) \in Nat
  BY <1>1, OffsetFacts
<1>3. Offset[k - 1] + j > consumed /\ (Offset[k - 1] + j) - consumed = p
  BY <1>1, <1>2
<1>4. Unread(buffer, rest, (Offset[k - 1] + j) - consumed) = script[k][j]
  BY <1>3 DEF BaseInv, StreamInv
<1> QED BY <1>1, <1>3, <1>4 DEF Unread

(* A terminator in the chunk is that of a request, however the stream was   *)
(* cut: it cannot reach into the next request, which begins with neither CR *)
(* nor LF.                                                                  *)
LEMMA TerminatorFits ==
    ASSUME BaseInv, NEW m \in 1 .. Len(buffer), NEW t \in {1, 3}, m + t <= Len(buffer),
           \A d \in 0 .. t : buffer[m + d] \in {"r", "n"}
    PROVE  \E k \in 1 .. sent : \E j \in 1 .. Len(script[k]) :
             /\ j + t <= Len(script[k])
             /\ consumed + m = Offset[k - 1] + j
             /\ \A d \in 0 .. t : buffer[m + d] = script[k][j + d]
<1>0. script \in Scripts /\ Len(script) \in Nat /\ sent \in 0 .. Len(script) /\ sent \in Nat
      /\ consumed \in Nat /\ Len(buffer) \in Nat /\ Offset[sent] \in Nat
      /\ consumed + Len(buffer) <= Offset[sent]
  BY BaseFacts
<1>t. t \in Nat /\ m \in Nat
  BY <1>0
<1>1. \E k \in 1 .. sent : Offset[k - 1] < consumed + m /\ consumed + m <= Offset[k]
  <2>1. consumed + m \in Nat \ {0} /\ consumed + m <= Offset[sent]
    BY <1>0
  <2> QED BY <1>0, <2>1, OffsetTotal, TotalLocates
<1>2. PICK k \in 1 .. sent : Offset[k - 1] < consumed + m /\ consumed + m <= Offset[k]
  BY <1>1
<1>3. k \in 1 .. Len(script) /\ k - 1 \in 0 .. Len(script) /\ k \in 0 .. Len(script)
  BY <1>0
<1>4. /\ Offset[k - 1] \in Nat /\ Offset[k] \in Nat /\ Len(script[k]) \in Nat
      /\ Offset[k] = Offset[k - 1] + Len(script[k])
  BY <1>0, <1>3, OffsetFacts
<1> DEFINE j == (consumed + m) - Offset[k - 1]
<1>5. j \in 1 .. Len(script[k]) /\ consumed + m = Offset[k - 1] + j
  BY <1>0, <1>2, <1>4, SMTT(30)
<1> HIDE DEF j
<1>6. j + t <= Len(script[k])
  <2> SUFFICES ASSUME ~(j + t <= Len(script[k])) PROVE FALSE
    OBVIOUS
  <2> DEFINE d == Len(script[k]) + 1 - j
  <2>1. d \in 0 .. t /\ m + d \in 1 .. Len(buffer) /\ consumed + (m + d) = Offset[k] + 1
    <3>1. j \in Nat /\ j <= Len(script[k]) /\ Len(script[k]) < j + t
      BY <1>t, <1>4, <1>5
    <3>2. d \in 1 .. t
      BY <1>t, <1>4, <3>1
    <3>3. consumed + (m + d) = Offset[k] + 1
      <4>1. consumed \in Nat /\ Offset[k - 1] \in Nat /\ consumed + m = Offset[k - 1] + j
            /\ Offset[k] = Offset[k - 1] + Len(script[k]) /\ Len(script[k]) \in Nat
        BY <1>0, <1>4, <1>5
      <4>2. d \in Nat /\ j + d = Len(script[k]) + 1
        BY <1>t, <3>1, <3>2, <4>1
      <4> HIDE DEF d
      <4>3. consumed + (m + d) = Offset[k - 1] + (j + d)
        BY <1>t, <3>1, <4>1, <4>2, SMTT(30)
      <4>4. Offset[k - 1] + (Len(script[k]) + 1) = Offset[k] + 1
        BY <4>1
      <4> QED BY <4>2, <4>3, <4>4
    <3> HIDE DEF d
    <3>4. m + d \in 1 .. Len(buffer)
      BY <1>t, <1>0, <3>2
    <3> QED BY <1>t, <3>2, <3>3, <3>4
  <2>2. Offset[k] < Offset[sent]
    <3> HIDE DEF d
    <3>1. m + d \in Nat /\ m + d <= Len(buffer)
      BY <1>0, <2>1
    <3> QED BY <1>0, <1>4, <2>1, <3>1, SMTT(30)
  <2>3. k # sent
    BY <1>0, <2>2
  <2>4. k + 1 \in 1 .. sent /\ k + 1 \in 1 .. Len(script) /\ (k + 1) - 1 = k
    BY <1>0, <2>3
  <2>5. IsRequest(script[k + 1])
    BY <1>0, <2>4, OffsetFacts
  <2>6. 1 \in 1 .. Len(script[k + 1]) /\ script[k + 1][1] \notin {"r", "n"}
    BY <2>5, RequestEnd
  <2> HIDE DEF d
  <2>7. buffer[m + d] = script[k + 1][1]
    BY <2>1, <2>4, <2>6, ByteAt
  <2> QED BY <2>1, <2>6, <2>7
<1>7. ASSUME NEW d \in 0 .. t PROVE buffer[m + d] = script[k][j + d]
  <2>1. j + d \in 1 .. Len(script[k]) /\ m + d \in 1 .. Len(buffer)
        /\ consumed + (m + d) = Offset[k - 1] + (j + d)
    <3>1. consumed \in Nat /\ Offset[k - 1] \in Nat /\ consumed + m = Offset[k - 1] + j
          /\ j \in Nat /\ j >= 1 /\ d \in Nat /\ d <= t
      BY <1>t, <1>0, <1>4, <1>5
    <3>2. consumed + (m + d) = Offset[k - 1] + (j + d)
      BY <1>t, <3>1
    <3>3. j + d \in 1 .. Len(script[k])
      BY <1>t, <1>4, <1>6, <3>1
    <3>4. m + d \in 1 .. Len(buffer)
      BY <1>t, <1>0, <3>1
    <3> QED BY <3>2, <3>3, <3>4
  <2> QED BY <2>1, ByteAt
<1> QED BY <1>5, <1>6, <1>7

LEMMA TerminatorEndsRequest ==
    ASSUME BaseInv, NEW m \in 1 .. Len(buffer), TerminatorAt(buffer, m)
    PROVE  \E k \in 1 .. sent :
             Offset[k] = consumed + TerminatorEnd(buffer, m) /\ Offset[k - 1] < consumed + m
<1>0. script \in Scripts /\ Len(script) \in Nat /\ sent \in 0 .. Len(script)
      /\ consumed \in Nat /\ buffer \in Seq(Bytes) /\ Len(buffer) \in Nat
  BY BaseFacts
<1>1. ASSUME NEW k \in 1 .. sent
      PROVE  /\ IsRequest(script[k]) /\ script[k] \in Seq(Bytes) /\ Len(script[k]) \in Nat
             /\ Offset[k] = Offset[k - 1] + Len(script[k])
             /\ Offset[k - 1] \in Nat
  <2>1. k \in 1 .. Len(script) /\ k - 1 \in 0 .. Len(script)
    BY <1>0
  <2> QED BY <1>0, <2>1, OffsetFacts
<1>2. CASE CrLfAt(buffer, m)
  <2>1. m + 3 <= Len(buffer) /\ buffer[m] = "r" /\ buffer[m + 1] = "n"
        /\ buffer[m + 2] = "r" /\ buffer[m + 3] = "n"
    BY <1>0, <1>2, CrLfBytes
  <2>2. \A d \in 0 .. 3 : buffer[m + d] \in {"r", "n"}
    <3>1. \A d \in 0 .. 3 : d = 0 \/ d = 1 \/ d = 2 \/ d = 3
      OBVIOUS
    <3> QED BY <2>1, <3>1
  <2>k. PICK k \in 1 .. sent : \E j \in 1 .. Len(script[k]) :
             /\ j + 3 <= Len(script[k])
             /\ consumed + m = Offset[k - 1] + j
             /\ \A d \in 0 .. 3 : buffer[m + d] = script[k][j + d]
    BY <2>1, <2>2, TerminatorFits
  <2>3. PICK j \in 1 .. Len(script[k]) :
             /\ j + 3 <= Len(script[k])
             /\ consumed + m = Offset[k - 1] + j
             /\ \A d \in 0 .. 3 : buffer[m + d] = script[k][j + d]
    BY <2>k
  <2>4. buffer[m + 0] = script[k][j + 0] /\ buffer[m + 1] = script[k][j + 1]
        /\ buffer[m + 2] = script[k][j + 2] /\ buffer[m + 3] = script[k][j + 3]
    BY <2>3
  <2>5. j + 0 = j /\ m + 0 = m
    BY <1>0, <1>1
  <2>6. CrLfAt(script[k], j)
    <3> DEFINE q == script[k]
    <3>1. q \in Seq(Bytes) /\ j \in 1 .. Len(q) /\ j + 3 <= Len(q)
      BY <1>1, <2>3
    <3>2. q[j] = "r" /\ q[j + 1] = "n" /\ q[j + 2] = "r" /\ q[j + 3] = "n"
      BY <2>1, <2>4, <2>5
    <3> HIDE DEF q
    <3>3. CrLfAt(q, j)
      BY <3>1, <3>2, CrLfBytes
    <3> QED BY <3>3 DEF q
  <2>7. j + 3 = Len(script[k])
    <3>1. j \in DOMAIN script[k] /\ IsRequest(script[k])
      BY <1>1
    <3> QED BY <2>6, <3>1 DEF IsRequest
  <2>8. TerminatorEnd(buffer, m) = m + 3
    BY <1>2 DEF TerminatorEnd
  <2>9. Offset[k] = consumed + (m + 3)
    <3>1. Offset[k] = Offset[k - 1] + (j + 3) /\ Offset[k - 1] \in Nat /\ j \in Nat
      BY <1>1, <2>7
    <3>2. consumed + m = Offset[k - 1] + j
      BY <2>3
    <3>3. m \in Nat /\ consumed \in Nat
      BY <1>0
    <3> QED BY <3>1, <3>2, <3>3
  <2>10. Offset[k - 1] < consumed + m
    BY <1>0, <1>1, <2>3
  <2> QED BY <2>8, <2>9, <2>10
<1>3. CASE LfAt(buffer, m) /\ ~CrLfAt(buffer, m)
  <2>1. m + 1 <= Len(buffer) /\ buffer[m] = "n" /\ buffer[m + 1] = "n"
    BY <1>0, <1>3, LfBytes
  <2>2. \A d \in 0 .. 1 : buffer[m + d] \in {"r", "n"}
    <3>1. \A d \in 0 .. 1 : d = 0 \/ d = 1
      OBVIOUS
    <3> QED BY <2>1, <3>1
  <2>k. PICK k \in 1 .. sent : \E j \in 1 .. Len(script[k]) :
             /\ j + 1 <= Len(script[k])
             /\ consumed + m = Offset[k - 1] + j
             /\ \A d \in 0 .. 1 : buffer[m + d] = script[k][j + d]
    BY <2>1, <2>2, TerminatorFits
  <2>3. PICK j \in 1 .. Len(script[k]) :
             /\ j + 1 <= Len(script[k])
             /\ consumed + m = Offset[k - 1] + j
             /\ \A d \in 0 .. 1 : buffer[m + d] = script[k][j + d]
    BY <2>k
  <2>4. buffer[m + 0] = script[k][j + 0] /\ buffer[m + 1] = script[k][j + 1]
    BY <2>3
  <2>5. j + 0 = j /\ m + 0 = m
    BY <1>0, <1>1
  <2>6. LfAt(script[k], j)
    BY <1>1, <2>1, <2>3, <2>4, <2>5, LfBytes, SMTT(30)
  <2>7. j + 1 = Len(script[k])
    <3>1. j \in DOMAIN script[k] /\ IsRequest(script[k])
      BY <1>1
    <3> QED BY <2>6, <3>1 DEF IsRequest
  <2>8. TerminatorEnd(buffer, m) = m + 1
    BY <1>3 DEF TerminatorEnd
  <2>9. Offset[k] = consumed + (m + 1)
    <3>1. Offset[k] = Offset[k - 1] + (j + 1) /\ Offset[k - 1] \in Nat /\ j \in Nat
      BY <1>1, <2>7
    <3>2. consumed + m = Offset[k - 1] + j
      BY <2>3
    <3>3. m \in Nat /\ consumed \in Nat
      BY <1>0
    <3> QED BY <3>1, <3>2, <3>3
  <2>10. Offset[k - 1] < consumed + m
    BY <1>0, <1>1, <2>3
  <2> QED BY <2>8, <2>9, <2>10
<1> QED BY <1>2, <1>3 DEF TerminatorAt

(* A read fails, goes on with the whole chunk, or gets to its end. *)
LEMMA ReadLineCases ==
    ASSUME BaseInv, ReadRequestLine, NEW e, e = FindLineEnd(buffer)
    PROVE  /\ phase = "line" /\ buffer # <<>>
           /\ \/ /\ ReadBy(0) /\ phase' = "failed" /\ taken' = taken /\ line' = line
              \/ /\ e = 0 /\ ReadBy(Len(buffer)) /\ Len(taken) + Len(buffer) <= MaxRequestLine
                 /\ taken' = taken \o buffer /\ phase' = phase /\ line' = line
              \/ /\ e # 0 /\ ReadBy(e) /\ Len(taken) + e <= MaxRequestLine
                 /\ ParsedLine(taken \o SubSeq(buffer, 1, e))
<1>0. /\ buffer \in Seq(Bytes) /\ Len(buffer) \in Nat /\ consumed \in Nat
      /\ Len(taken) \in Nat /\ MaxRequestLine \in Nat
  BY BaseFacts, HttpAssumption
<1>1. /\ phase = "line" /\ buffer # <<>>
      /\ rest' = rest /\ sent' = sent /\ closed' = closed /\ served' = served /\ cut' = cut
      /\ response' = response
      /\ \/ ReadFails(e, MaxRequestLine)
         \/ ReadOn(e, MaxRequestLine)
         \/ ReadTo(e, MaxRequestLine) /\ ParsedLine(taken \o SubSeq(buffer, 1, e))
  BY DEF ReadRequestLine
<1>2. e \in 0 .. Len(buffer)
  BY <1>0, FindLineEndFirst
<1>3. CASE ReadFails(e, MaxRequestLine)
  <2>1. SubSeq(buffer, 0 + 1, Len(buffer)) = buffer /\ consumed + 0 = consumed
    BY <1>0
  <2>2. ReadBy(0)
    BY <1>0, <1>1, <1>3, <2>1 DEF ReadFails, ReadBy, Consume
  <2> QED BY <1>1, <1>3, <2>2 DEF ReadFails
<1>4. CASE ReadOn(e, MaxRequestLine)
  <2>1. ReadBy(Len(buffer))
    BY <1>0, <1>1, <1>4 DEF ReadOn, ReadBy, ReadLength
  <2>2. Len(taken) + Len(buffer) <= MaxRequestLine
    BY <1>0, <1>4 DEF ReadOn, ReadLength, TooLong
  <2> QED BY <1>1, <1>4, <2>1, <2>2 DEF ReadOn
<1>5. CASE ReadTo(e, MaxRequestLine) /\ ParsedLine(taken \o SubSeq(buffer, 1, e))
  <2>1. ReadBy(e)
    BY <1>1, <1>2, <1>5 DEF ReadTo, ReadBy, ReadLength
  <2>2. Len(taken) + e <= MaxRequestLine
    BY <1>0, <1>2, <1>5 DEF ReadTo, ReadLength, TooLong
  <2> QED BY <1>1, <1>5, <2>1, <2>2 DEF ReadTo
<1> QED BY <1>1, <1>3, <1>4, <1>5

LEMMA ReadHeadersCases ==
    ASSUME BaseInv, ReadHeaders, NEW e, e = FindHeaderTerminator(buffer)
    PROVE  /\ phase = "headers" /\ buffer # <<>>
           /\ \/ /\ ReadBy(0) /\ phase' = "failed" /\ taken' = taken /\ line' = line
              \/ /\ e = 0 /\ ReadBy(Len(buffer)) /\ Len(taken) + Len(buffer) <= MaxHeaders
                 /\ taken' = taken \o buffer /\ phase' = phase /\ line' = line
              \/ /\ e # 0 /\ ReadBy(e) /\ Len(taken) + e <= MaxHeaders
                 /\ ParsedHeaders(taken \o SubSeq(buffer, 1, e))
<1>0. /\ buffer \in Seq(Bytes) /\ Len(buffer) \in Nat /\ consumed \in Nat
      /\ Len(taken) \in Nat /\ MaxHeaders \in Nat
  BY BaseFacts, HttpAssumption
<1>1. /\ phase = "headers" /\ buffer # <<>>
      /\ rest' = rest /\ sent' = sent /\ closed' = closed /\ served' = served /\ cut' = cut
      /\ response' = response
      /\ \/ ReadFails(e, MaxHeaders)
         \/ ReadOn(e, MaxHeaders)
         \/ ReadTo(e, MaxHeaders) /\ ParsedHeaders(taken \o SubSeq(buffer, 1, e))
  BY DEF ReadHeaders
<1>2. e \in 0 .. Len(buffer)
  BY <1>0, FindHeaderTerminatorFirst
<1>3. CASE ReadFails(e, MaxHeaders)
  <2>1. SubSeq(buffer, 0 + 1, Len(buffer)) = buffer /\ consumed + 0 = consumed
    BY <1>0
  <2>2. ReadBy(0)
    BY <1>0, <1>1, <1>3, <2>1 DEF ReadFails, ReadBy, Consume
  <2> QED BY <1>1, <1>3, <2>2 DEF ReadFails
<1>4. CASE ReadOn(e, MaxHeaders)
  <2>1. ReadBy(Len(buffer))
    BY <1>0, <1>1, <1>4 DEF ReadOn, ReadBy, ReadLength
  <2>2. Len(taken) + Len(buffer) <= MaxHeaders
    BY <1>0, <1>4 DEF ReadOn, ReadLength, TooLong
  <2> QED BY <1>1, <1>4, <2>1, <2>2 DEF ReadOn
<1>5. CASE ReadTo(e, MaxHeaders) /\ ParsedHeaders(taken \o SubSeq(buffer, 1, e))
  <2>1. ReadBy(e)
    BY <1>1, <1>2, <1>5 DEF ReadTo, ReadBy, ReadLength
  <2>2. Len(taken) + e <= MaxHeaders
    BY <1>0, <1>2, <1>5 DEF ReadTo, ReadLength, TooLong
  <2> QED BY <1>1, <1>5, <2>1, <2>2 DEF ReadTo
<1> QED BY <1>1, <1>3, <1>4, <1>5

(* What a read keeps, whatever it finds. *)
LEMMA ReadTaken ==
    ASSUME BaseInv, NEW e \in 1 .. Len(buffer)
    PROVE  /\ taken \o SubSeq(buffer, 1, e) \in Seq(Bytes)
           /\ Len(taken \o SubSeq(buffer, 1, e)) = Len(taken) + e
           /\ \A j \in 1 .. Len(taken) : (taken \o SubSeq(buffer, 1, e))[j] = taken[j]
           /\ \A j \in 1 .. e : (taken \o SubSeq(buffer, 1, e))[Len(taken) + j] = buffer[j]
<1>0. /\ buffer \in Seq(Bytes) /\ Len(buffer) \in Nat
      /\ taken \in Seq(Bytes) /\ Len(taken) \in Nat
  BY BaseFacts
<1> DEFINE u == SubSeq(buffer, 1, e)
<1>1. u \in Seq(Bytes) /\ Len(u) = e /\ \A j \in 1 .. e : u[j] = buffer[j]
  BY <1>0
<1> HIDE DEF u
<1>2. taken \o u \in Seq(Bytes) /\ Len(taken \o u) = Len(taken) + e
      /\ \A j \in 1 .. Len(taken) : (taken \o u)[j] = taken[j]
  BY <1>0, <1>1
<1>3. \A j \in 1 .. e : (taken \o u)[Len(taken) + j] = u[j]
  BY <1>0, <1>1
<1> QED BY <1>1, <1>2, <1>3 DEF u

-----------------------------------------------------------------------------
(* The parts of BaseInv, step by step. *)
LEMMA HttpInit == Init => HttpInv
<1> SUFFICES ASSUME Init PROVE HttpInv
  OBVIOUS
<1>1. /\ script \in Scripts /\ sent = 0 /\ served = 0 /\ consumed = 0 /\ listing \in BOOLEAN
      /\ closed = FALSE /\ cut = FALSE /\ line = {} /\ response = NoResponse
      /\ rest = <<>> /\ buffer = <<>> /\ taken = <<>> /\ phase = "line"
  BY DEF Init
<1>2. Len(script) \in Nat /\ Offset[0] = 0
  BY <1>1, OffsetFacts
<1>3. TypeOK
  <2>1. <<>> \in Seq(Bytes) /\ Len(<<>>) = 0 /\ MaxRequestLine \in Nat
    BY HttpAssumption
  <2>2. sent \in 0 .. Len(script) /\ served \in 0 .. Len(script) /\ consumed \in Nat
    BY <1>1, <1>2
  <2>3. rest \in Seq(Bytes) /\ buffer \in Seq(Bytes) /\ taken \in Seq(Bytes)
        /\ Len(taken) <= MaxRequestLine
    BY <1>1, <2>1
  <2>4. closed \in BOOLEAN /\ cut \in BOOLEAN /\ line \subseteq LineBytes
    BY <1>1
  <2>5. phase \in {"line", "headers", "respond", "write", "ended", "failed", "lost"} /\ phase # "headers"
    BY <1>1
  <2> QED BY <1>1, <2>2, <2>3, <2>4, <2>5 DEF TypeOK
<1>4. StreamInv
  BY <1>1, <1>2 DEF StreamInv
<1>5. ReachInv
  BY <1>1, <1>2 DEF ReachInv
<1>6. BaseInv
  BY <1>1, <1>3, <1>4, <1>5 DEF BaseInv
<1>7. ChunkInv /\ LineInv /\ HeadersInv /\ AskedInv
  BY <1>1, <1>2 DEF ChunkInv, LineInv, HeadersInv, AskedInv
<1>8. ClosesWhenAsked
  BY <1>1 DEF ClosesWhenAsked
<1> QED BY <1>6, <1>7, <1>8 DEF HttpInv

LEMMA BuildTypes ==
    \A r \in BuildResponse : r \in Responses
<1>1. \A n \in Nat, from \in Targets, moved \in BOOLEAN : OkResponse(n, from, moved) \in Responses
  BY DEF OkResponse, Responses, KeepAlive
<1>2. \A status \in {400, 403, 404, 405, 500} : ErrorResponse(status) \in Responses
  BY DEF ErrorResponse, Responses, KeepAlive, Targets
<1>3. ASSUME NEW opened \in Targets, NEW moved \in BOOLEAN
      PROVE  RenderDirectoryListing(opened, moved) \subseteq Responses /\ ReadFile(opened, moved) \subseteq Responses
  <2>1. {OkResponse(n, opened, moved) : n \in FileSizes} \subseteq Responses
    BY <1>1, HttpAssumption
  <2> QED BY <1>1, <1>2, <2>1 DEF RenderDirectoryListing, ReadFile
<1>4. ASSUME NEW seen \in Targets, NEW opened \in Targets
      PROVE  FromTarget(seen, opened) \subseteq Responses
  <2> DEFINE moved == seen # Resolved \/ opened # Resolved
  <2>1. moved \in BOOLEAN
    OBVIOUS
  <2> HIDE DEF moved
  <2>2. RenderDirectoryListing(opened, moved) \subseteq Responses /\ ReadFile(opened, moved) \subseteq Responses
    BY <1>3, <2>1
  <2> QED BY <1>2, <2>2 DEF FromTarget, moved
<1>5. FromFileSystem \subseteq Responses
  BY <1>2, <1>4 DEF FromFileSystem
<1> QED BY <1>2, <1>5 DEF BuildResponse

LEMMA HttpTypeStep ==
    ASSUME BaseInv, [Next]_vars
    PROVE  TypeOK'
<1>0. /\ script \in Scripts /\ Len(script) \in Nat
      /\ sent \in 0 .. Len(script) /\ served \in 0 .. Len(script)
      /\ consumed \in Nat /\ buffer \in Seq(Bytes) /\ rest \in Seq(Bytes) /\ taken \in Seq(Bytes)
      /\ Len(buffer) \in Nat /\ Len(rest) \in Nat /\ Len(taken) \in Nat
  BY BaseFacts
<1>t. /\ listing \in BOOLEAN /\ closed \in BOOLEAN /\ cut \in BOOLEAN
      /\ line \subseteq LineBytes /\ response \in Responses \cup {NoResponse}
      /\ phase \in {"line", "headers", "respond", "write", "ended", "failed", "lost"}
      /\ phase = "line" => Len(taken) <= MaxRequestLine
      /\ phase = "headers" => Len(taken) <= MaxHeaders
  BY DEF BaseInv, TypeOK
<1>a. MaxRequestLine \in Nat /\ MaxHeaders \in Nat /\ Len(<<>>) = 0 /\ <<>> \in Seq(Bytes)
  BY HttpAssumption
<1>s. script' = script /\ listing' = listing
  BY ScriptKept
<1>1. CASE PeerSends
  <2>1. sent' \in 0 .. Len(script) /\ rest' \in Seq(Bytes)
    <3>1. script[sent + 1] \in Seq(Bytes) /\ sent + 1 \in 1 .. Len(script)
      <4>1. sent + 1 \in 1 .. Len(script)
        BY <1>0, <1>1 DEF PeerSends
      <4> QED BY <1>0, <4>1, OffsetFacts
    <3>2. sent' = sent + 1 /\ rest' = rest \o script[sent + 1]
      BY <1>1 DEF PeerSends
    <3> QED BY <1>0, <3>1, <3>2
  <2> QED BY <1>0, <1>t, <1>s, <1>1, <2>1 DEF PeerSends, TypeOK
<1>2. CASE PeerCloses
  BY <1>0, <1>t, <1>s, <1>2 DEF PeerCloses, TypeOK
<1>3. CASE Arrive
  <2>1. PICK k \in 1 .. Len(rest) :
             /\ cut' = (cut \/ \E i \in 1 .. k : CutsTerminator(rest, i, k))
             /\ buffer' = SubSeq(rest, 1, k)
             /\ rest' = SubSeq(rest, k + 1, Len(rest))
    BY <1>3 DEF Arrive
  <2>2. buffer' \in Seq(Bytes) /\ rest' \in Seq(Bytes)
    BY <1>0, <2>1
  <2>3. cut' \in BOOLEAN
    BY <2>1
  <2> QED BY <1>0, <1>t, <1>s, <1>3, <2>2, <2>3 DEF Arrive, TypeOK
<1>4. CASE EndOfStream \/ StreamLost
  BY <1>0, <1>t, <1>s, <1>4 DEF EndOfStream, StreamLost, TypeOK
<1>5. CASE ReadRequestLine
  <2> DEFINE e == FindLineEnd(buffer)
  <2>1. ASSUME NEW n, ReadBy(n)
        PROVE  /\ buffer' \in Seq(Bytes) /\ consumed' \in Nat
               /\ rest' = rest /\ sent' = sent /\ closed' = closed /\ served' = served
               /\ cut' = cut /\ response' = response
    BY <2>1, ReadFacts DEF ReadBy
  <2>2. CASE ReadBy(0) /\ phase' = "failed" /\ taken' = taken /\ line' = line
    BY <1>0, <1>t, <1>s, <2>1, <2>2 DEF TypeOK
  <2>3. CASE /\ ReadBy(Len(buffer)) /\ Len(taken) + Len(buffer) <= MaxRequestLine
             /\ taken' = taken \o buffer /\ phase' = phase /\ line' = line
    <3>1. taken' \in Seq(Bytes) /\ Len(taken') = Len(taken) + Len(buffer)
      BY <1>0, <2>3
    <3>2. phase = "line"
      BY <1>5 DEF ReadRequestLine
    <3> QED BY <1>0, <1>t, <1>s, <2>1, <2>3, <3>1, <3>2 DEF TypeOK
  <2>4. CASE ReadBy(e) /\ ParsedLine(taken \o SubSeq(buffer, 1, e))
    <3>1. taken' = <<>> /\ line' \subseteq LineBytes /\ phase' \in {"failed", "headers"}
      BY <2>4 DEF ParsedLine
    <3> QED BY <1>0, <1>a, <1>t, <1>s, <2>1, <2>4, <3>1 DEF TypeOK
  <2> QED BY <1>5, <2>2, <2>3, <2>4, ReadLineCases
<1>6. CASE ReadHeaders
  <2> DEFINE e == FindHeaderTerminator(buffer)
  <2>1. ASSUME NEW n, ReadBy(n)
        PROVE  /\ buffer' \in Seq(Bytes) /\ consumed' \in Nat
               /\ rest' = rest /\ sent' = sent /\ closed' = closed /\ served' = served
               /\ cut' = cut /\ response' = response
    BY <2>1, ReadFacts DEF ReadBy
  <2>2. CASE ReadBy(0) /\ phase' = "failed" /\ taken' = taken /\ line' = line
    BY <1>0, <1>t, <1>s, <2>1, <2>2 DEF TypeOK
  <2>3. CASE /\ ReadBy(Len(buffer)) /\ Len(taken) + Len(buffer) <= MaxHeaders
             /\ taken' = taken \o buffer /\ phase' = phase /\ line' = line
    <3>1. taken' \in Seq(Bytes) /\ Len(taken') = Len(taken) + Len(buffer)
      BY <1>0, <2>3
    <3>2. phase = "headers"
      BY <1>6 DEF ReadHeaders
    <3> QED BY <1>0, <1>t, <1>s, <2>1, <2>3, <3>1, <3>2 DEF TypeOK
  <2>4. CASE e # 0 /\ ReadBy(e) /\ ParsedHeaders(taken \o SubSeq(buffer, 1, e))
    <3>1. taken' \in Seq(Bytes) /\ line' = line /\ phase' \in {"failed", "respond"}
      <4>1. e \in 1 .. Len(buffer)
        BY <1>0, <2>4 DEF ReadBy
      <4>2. taken \o SubSeq(buffer, 1, e) \in Seq(Bytes)
        BY <4>1, ReadTaken
      <4> QED BY <2>4, <4>2 DEF ParsedHeaders
    <3> QED BY <1>0, <1>a, <1>t, <1>s, <2>1, <2>4, <3>1 DEF TypeOK
  <2> QED BY <1>6, <2>2, <2>3, <2>4, ReadHeadersCases
<1>7. CASE Build
  <2>1. response' \in Responses
    BY <1>7, BuildTypes DEF Build
  <2> QED BY <1>0, <1>t, <1>s, <1>7, <2>1 DEF Build, TypeOK
<1>8. CASE Respond
  <2>1. served' = served + 1 /\ served + 1 \in 0 .. Len(script)
    BY <1>0, <1>8 DEF BaseInv, ReachInv, Respond
  <2>2. phase' \in {"line", "ended"}
    BY <1>8 DEF Respond, NextPhase
  <2>3. taken' = <<>> /\ line' = {} /\ response' = NoResponse
    BY <1>8 DEF Respond
  <2>4. /\ sent' = sent /\ closed' = closed /\ rest' = rest /\ buffer' = buffer
        /\ consumed' = consumed /\ cut' = cut
    BY <1>8 DEF Respond
  <2> QED BY <1>0, <1>a, <1>t, <1>s, <2>1, <2>2, <2>3, <2>4 DEF TypeOK
<1>9. CASE UNCHANGED vars
  BY <1>0, <1>t, <1>s, <1>9 DEF vars, TypeOK
<1> QED BY <1>1, <1>2, <1>3, <1>4, <1>5, <1>6, <1>7, <1>8, <1>9 DEF Next, Server

LEMMA StreamStep ==
    ASSUME BaseInv, [Next]_vars
    PROVE  StreamInv'
<1>0. /\ script \in Scripts /\ Len(script) \in Nat
      /\ sent \in 0 .. Len(script)
      /\ consumed \in Nat /\ buffer \in Seq(Bytes) /\ rest \in Seq(Bytes)
      /\ Len(buffer) \in Nat /\ Len(rest) \in Nat
      /\ consumed + Len(buffer) + Len(rest) = Offset[sent]
  BY BaseFacts
<1>i. \A i \in 1 .. sent : \A j \in 1 .. Len(script[i]) :
        Offset[i - 1] + j > consumed =>
          Unread(buffer, rest, (Offset[i - 1] + j) - consumed) = script[i][j]
  BY DEF BaseInv, StreamInv
<1>s. script' = script /\ Offset' = Offset
  BY ScriptKept
<1>1. CASE PeerSends
  <2> DEFINE q == script[sent + 1]
  <2>1. sent' = sent + 1 /\ rest' = rest \o q /\ buffer' = buffer /\ consumed' = consumed
    BY <1>1 DEF PeerSends
  <2>2. sent + 1 \in 1 .. Len(script) /\ (sent + 1) - 1 = sent /\ sent \in Nat
    BY <1>0, <1>1 DEF PeerSends
  <2>3. q \in Seq(Bytes) /\ Len(q) \in Nat /\ Offset[sent + 1] = Offset[sent] + Len(q)
        /\ Offset[sent] \in Nat
    BY <1>0, <2>2, OffsetFacts
  <2> HIDE DEF q
  <2>4. rest' \in Seq(Bytes) /\ Len(rest') = Len(rest) + Len(q)
        /\ (\A p \in 1 .. Len(rest) : rest'[p] = rest[p])
        /\ (\A p \in 1 .. Len(q) : rest'[Len(rest) + p] = q[p])
    BY <1>0, <2>1, <2>3
  <2>5. consumed + Len(buffer) + Len(rest') = Offset[sent + 1]
    BY <1>0, <2>3, <2>4
  <2>6. ASSUME NEW i \in 1 .. sent, NEW j \in 1 .. Len(script[i]), Offset[i - 1] + j > consumed
        PROVE  Unread(buffer, rest', (Offset[i - 1] + j) - consumed) = script[i][j]
    <3>1. Unread(buffer, rest, (Offset[i - 1] + j) - consumed) = script[i][j]
      BY <1>i, <2>6
    <3>2. Offset[i - 1] \in Nat /\ j \in Nat /\ Offset[i - 1] + j <= Offset[sent]
      <4>1. i \in 1 .. Len(script) /\ i - 1 \in 0 .. Len(script) /\ i \in 0 .. Len(script)
            /\ sent \in 0 .. Len(script) /\ i <= sent
        BY <1>0
      <4>2. Offset[i] <= Offset[sent] /\ Offset[i - 1] \in Nat /\ Offset[i] \in Nat
            /\ Len(script[i]) \in Nat /\ Offset[i] = Offset[i - 1] + Len(script[i])
        BY <1>0, <4>1, OffsetFacts
      <4> QED BY <2>3, <4>2
    <3> DEFINE a == (Offset[i - 1] + j) - consumed
    <3>3. a \in 1 .. Len(buffer) + Len(rest)
      <4>1. Offset[i - 1] + j <= consumed + Len(buffer) + Len(rest)
        BY <1>0, <3>2
      <4> QED BY <1>0, <2>6, <3>2, <4>1, SMTT(30)
    <3> HIDE DEF a
    <3>4. Unread(buffer, rest', a) = Unread(buffer, rest, a)
      <4>1. CASE a <= Len(buffer)
        BY <4>1 DEF Unread
      <4>2. CASE ~(a <= Len(buffer))
        <5>1. a - Len(buffer) \in 1 .. Len(rest)
          BY <1>0, <3>3, <4>2
        <5> QED BY <2>4, <4>2, <5>1 DEF Unread
      <4> QED BY <4>1, <4>2
    <3> QED BY <3>1, <3>4 DEF a
  <2>7. ASSUME NEW j \in 1 .. Len(q)
        PROVE  Unread(buffer, rest', (Offset[sent] + j) - consumed) = q[j]
    <3> DEFINE a == (Offset[sent] + j) - consumed
    <3>1. a = Len(buffer) + (Len(rest) + j)
      <4>1. Offset[sent] = consumed + (Len(buffer) + Len(rest))
        BY <1>0
      <4> QED BY <1>0, <2>3, <4>1
    <3> HIDE DEF a
    <3>2. ~(a <= Len(buffer)) /\ a - Len(buffer) = Len(rest) + j
      BY <1>0, <2>3, <3>1
    <3>3. Unread(buffer, rest', a) = q[j]
      BY <2>4, <3>2 DEF Unread
    <3> QED BY <3>3 DEF a
  <2>8. ASSUME NEW i \in 1 .. sent + 1, NEW j \in 1 .. Len(script[i]), Offset[i - 1] + j > consumed
        PROVE  Unread(buffer, rest', (Offset[i - 1] + j) - consumed) = script[i][j]
    <3>1. CASE i \in 1 .. sent
      BY <2>6, <2>8, <3>1
    <3>2. CASE i = sent + 1
      BY <2>2, <2>7, <2>8, <3>2 DEF q
    <3> QED BY <2>2, <3>1, <3>2
  <2> QED BY <1>s, <2>1, <2>5, <2>8 DEF StreamInv
<1>2. CASE Arrive
  <2>1. PICK k \in 1 .. Len(rest) :
             buffer' = SubSeq(rest, 1, k) /\ rest' = SubSeq(rest, k + 1, Len(rest))
    BY <1>2 DEF Arrive
  <2>2. /\ Len(buffer') = k /\ Len(rest') = Len(rest) - k
        /\ (\A p \in 1 .. k : buffer'[p] = rest[p])
        /\ (\A p \in 1 .. Len(rest) - k : rest'[p] = rest[p + k])
    BY <1>0, <2>1, SMTT(30)
  <2>3. buffer = <<>> /\ Len(buffer) = 0 /\ sent' = sent /\ consumed' = consumed
    BY <1>2 DEF Arrive
  <2>4. consumed + Len(buffer') + Len(rest') = Offset[sent]
    BY <1>0, <2>2, <2>3
  <2>5. ASSUME NEW a \in 1 .. Len(rest)
        PROVE  Unread(buffer', rest', a) = Unread(buffer, rest, a)
    <3>1. ~(a <= Len(buffer)) /\ a - Len(buffer) = a
      BY <1>0, <2>3
    <3>2. CASE a <= k
      BY <2>2, <3>1, <3>2 DEF Unread
    <3>3. CASE ~(a <= k)
      <4>1. a - k \in 1 .. Len(rest) - k /\ (a - k) + k = a
        BY <1>0, <3>3
      <4> QED BY <2>2, <3>1, <3>3, <4>1 DEF Unread
    <3> QED BY <3>2, <3>3
  <2>6. ASSUME NEW i \in 1 .. sent, NEW j \in 1 .. Len(script[i]), Offset[i - 1] + j > consumed
        PROVE  Unread(buffer', rest', (Offset[i - 1] + j) - consumed) = script[i][j]
    <3>1. Unread(buffer, rest, (Offset[i - 1] + j) - consumed) = script[i][j]
      BY <1>i, <2>6
    <3>2. Offset[i - 1] \in Nat /\ j \in Nat /\ Offset[i - 1] + j <= Offset[sent] /\ Offset[sent] \in Nat
      <4>1. i \in 1 .. Len(script) /\ i - 1 \in 0 .. Len(script) /\ i \in 0 .. Len(script)
            /\ sent \in 0 .. Len(script) /\ i <= sent
        BY <1>0
      <4>2. Offset[i] <= Offset[sent] /\ Offset[i - 1] \in Nat /\ Offset[i] \in Nat /\ Offset[sent] \in Nat
            /\ Len(script[i]) \in Nat /\ Offset[i] = Offset[i - 1] + Len(script[i])
        BY <1>0, <4>1, OffsetFacts
      <4> QED BY <4>2
    <3>3. (Offset[i - 1] + j) - consumed \in 1 .. Len(rest)
      BY <1>0, <2>3, <2>6, <3>2, SMTT(30)
    <3> QED BY <2>5, <3>1, <3>3
  <2> QED BY <1>s, <2>3, <2>4, <2>6 DEF StreamInv
<1>3. CASE ReadRequestLine
  <2>1. \E n : ReadBy(n)
    BY <1>3, ReadLineCases
  <2> QED BY <2>1, ReadStream
<1>4. CASE ReadHeaders
  <2>1. \E n : ReadBy(n)
    BY <1>4, ReadHeadersCases
  <2> QED BY <2>1, ReadStream
<1>5. CASE PeerCloses \/ EndOfStream \/ StreamLost \/ Build \/ Respond \/ UNCHANGED vars
  <2>1. sent' = sent /\ consumed' = consumed /\ buffer' = buffer /\ rest' = rest
    BY <1>5 DEF PeerCloses, EndOfStream, StreamLost, Build, Respond, vars
  <2> QED BY <1>0, <1>i, <1>s, <2>1 DEF StreamInv
<1> QED BY <1>1, <1>2, <1>3, <1>4, <1>5 DEF Next, Server

LEMMA ReachStep ==
    ASSUME BaseInv, [Next]_vars
    PROVE  ReachInv'
<1>0. /\ script \in Scripts /\ Len(script) \in Nat
      /\ sent \in 0 .. Len(script) /\ served \in 0 .. Len(script)
      /\ consumed \in Nat /\ Len(buffer) \in Nat /\ buffer \in Seq(Bytes)
  BY BaseFacts
<1>i. PICK n \in served .. sent :
        Offset[n] <= consumed /\ (phase \in {"respond", "write"} => n > served)
  BY DEF BaseInv, ReachInv
<1>n. n \in 0 .. Len(script) /\ Offset[n] \in Nat
  <2>1. n \in 0 .. Len(script)
    BY <1>0
  <2> QED BY <1>0, <2>1, OffsetFacts
<1>s. Offset' = Offset
  BY ScriptKept
<1>1. CASE PeerSends
  <2>1. n \in served' .. sent'
    BY <1>0, <1>1 DEF PeerSends
  <2> QED BY <1>i, <1>s, <1>1, <2>1 DEF PeerSends, ReachInv
<1>2. CASE PeerCloses \/ Arrive \/ EndOfStream \/ StreamLost \/ UNCHANGED vars
  <2>1. served' = served /\ sent' = sent /\ consumed' = consumed
        /\ (phase' \in {"respond", "write"} => phase \in {"respond", "write"})
    BY <1>2 DEF PeerCloses, Arrive, EndOfStream, StreamLost, vars
  <2> QED BY <1>i, <1>s, <2>1 DEF ReachInv
<1>3. ASSUME NEW m, ReadBy(m), phase' \notin {"respond", "write"}
      PROVE  ReachInv'
  <2>1. served' = served /\ sent' = sent /\ consumed' = consumed + m /\ m \in 0 .. Len(buffer)
    BY <1>3 DEF ReadBy, Consume
  <2>2. Offset[n] <= consumed'
    BY <1>0, <1>i, <1>n, <2>1
  <2> QED BY <1>i, <1>s, <1>3, <2>1, <2>2 DEF ReachInv
<1>4. CASE ReadRequestLine
  <2>1. PICK m : ReadBy(m) /\ phase' \in {"failed", "line", "headers"}
    BY <1>4, ReadLineCases DEF ParsedLine
  <2> QED BY <1>3, <2>1
<1>5. CASE ReadHeaders
  <2> DEFINE e == FindHeaderTerminator(buffer)
  <2>1. CASE ReadBy(0) /\ phase' = "failed"
    BY <1>3, <2>1
  <2>2. CASE ReadBy(Len(buffer)) /\ phase' = phase
    BY <1>3, <1>5, <2>2 DEF ReadHeaders
  <2>3. CASE e # 0 /\ ReadBy(e)
    <3>1. PICK m \in 1 .. Len(buffer) : TerminatorAt(buffer, m) /\ e = TerminatorEnd(buffer, m)
      BY <1>0, <2>3, FindHeaderTerminatorFirst
    <3>2. PICK k \in 1 .. sent : Offset[k] = consumed + e
      BY <3>1, TerminatorEndsRequest
    <3>3. served' = served /\ sent' = sent /\ consumed' = consumed + e /\ e \in 1 .. Len(buffer)
      BY <1>0, <2>3 DEF ReadBy, Consume
    <3>4. k \in 0 .. Len(script) /\ Offset[n] < Offset[k]
      BY <1>0, <1>i, <1>n, <3>2, <3>3
    <3>5. ~(k <= n)
      <4>1. Offset[k] \in Nat /\ (k <= n => Offset[k] <= Offset[n])
        BY <1>0, <1>n, <3>4, OffsetFacts
      <4> QED BY <1>n, <3>4, <4>1
    <3>6. k \in served .. sent /\ k > served
      BY <1>0, <3>5
    <3>7. Offset[k] <= consumed'
      <4>1. Offset[k] \in Nat
        BY <1>0, <3>4, OffsetFacts
      <4> QED BY <3>2, <3>3, <4>1
    <3> QED BY <1>s, <3>3, <3>6, <3>7 DEF ReachInv
  <2> QED BY <1>5, <2>1, <2>2, <2>3, ReadHeadersCases
<1>6. CASE Build
  BY <1>i, <1>s, <1>6 DEF Build, ReachInv
<1>7. CASE Respond
  <2>1. n > served /\ served' = served + 1 /\ sent' = sent /\ consumed' = consumed
        /\ phase' \notin {"respond", "write"}
    BY <1>i, <1>7 DEF Respond, NextPhase
  <2>2. n \in served' .. sent'
    BY <1>0, <2>1
  <2> QED BY <1>i, <1>s, <2>1, <2>2 DEF ReachInv
<1> QED BY <1>1, <1>2, <1>4, <1>5, <1>6, <1>7 DEF Next, Server

LEMMA BaseStep ==
    ASSUME BaseInv, [Next]_vars
    PROVE  BaseInv'
<1>1. TypeOK' /\ StreamInv' /\ ReachInv'
  BY HttpTypeStep, StreamStep, ReachStep
<1>2. closed' => sent' = Len(script')
  <2>0. closed => sent = Len(script)
    BY DEF BaseInv
  <2>s. script' = script
    BY ScriptKept
  <2>1. CASE PeerSends
    BY <2>0, <2>1 DEF PeerSends
  <2>2. CASE PeerCloses
    BY <2>2, <2>s DEF PeerCloses
  <2>3. CASE Arrive \/ EndOfStream \/ StreamLost \/ Build \/ Respond \/ UNCHANGED vars
    <3>1. closed' = closed /\ sent' = sent
      BY <2>3 DEF Arrive, EndOfStream, StreamLost, Build, Respond, vars
    <3> QED BY <2>0, <2>s, <3>1
  <2>4. CASE ReadRequestLine \/ ReadHeaders
    <3>1. closed' = closed /\ sent' = sent
      BY <2>4 DEF ReadRequestLine, ReadHeaders
    <3> QED BY <2>0, <2>s, <3>1
  <2> QED BY <2>1, <2>2, <2>3, <2>4 DEF Next, Server
<1>3. phase' = "write" => response' \in BuildResponse'
  <2>0. phase = "write" => response \in BuildResponse
    BY DEF BaseInv
  <2>s. listing' = listing
    BY ScriptKept
  <2>b. ASSUME line' = line, taken' = taken, NEW r, r \in BuildResponse PROVE r \in BuildResponse'
    <3>1. KeepAlive' = KeepAlive
      BY <2>b DEF KeepAlive, Fields, EmptyLineAt
    <3>2. /\ \A n, from, moved : OkResponse(n, from, moved)' = OkResponse(n, from, moved)
          /\ \A n : ErrorResponse(n)' = ErrorResponse(n)
      BY <2>b, <3>1 DEF OkResponse, ErrorResponse
    <3>3. CASE /\ "p" \notin line /\ "e" \notin line /\ "m" \notin line /\ "u" \notin line
               /\ \E seen, opened \in Targets : r \in FromTarget(seen, opened)
      <4>1. PICK seen \in Targets, opened \in Targets : r \in FromTarget(seen, opened)
        BY <3>3
      <4>2. \A moved : /\ RenderDirectoryListing(opened, moved)' = RenderDirectoryListing(opened, moved)
                       /\ ReadFile(opened, moved)' = ReadFile(opened, moved)
        BY <3>2 DEF RenderDirectoryListing, ReadFile
      <4>3. FromTarget(seen, opened)' = FromTarget(seen, opened)
        BY <2>b, <2>s, <3>2, <4>2 DEF FromTarget, Resolved
      <4>4. r \in FromTarget(seen, opened)'
        BY <4>1, <4>3
      <4>5. r \in (UNION {FromTarget(s, o) : s, o \in Targets})'
        BY <4>1, <4>4
      <4> QED BY <2>b, <3>3, <4>5 DEF BuildResponse, FromFileSystem, PercentDecodes
    <3>4. CASE \/ "p" \in line /\ r = ErrorResponse(405)
               \/ "p" \notin line /\ "e" \in line /\ r = ErrorResponse(400)
               \/ "p" \notin line /\ "e" \notin line /\ r \in {ErrorResponse(500), ErrorResponse(404)}
               \/ /\ "p" \notin line /\ "e" \notin line /\ "m" \notin line /\ "u" \in line
                  /\ r = ErrorResponse(403)
      BY <2>b, <3>2, <3>4 DEF BuildResponse, FromFileSystem, PercentDecodes
    <3> QED BY <2>b, <3>3, <3>4 DEF BuildResponse, FromFileSystem, PercentDecodes
  <2>1. CASE Build
    BY <2>b, <2>1 DEF Build
  <2>2. CASE PeerSends \/ PeerCloses \/ Arrive \/ UNCHANGED vars
    <3>1. phase' = phase /\ response' = response /\ line' = line /\ taken' = taken
      BY <2>2 DEF PeerSends, PeerCloses, Arrive, vars
    <3> QED BY <2>0, <2>b, <3>1
  <2>3. CASE EndOfStream \/ StreamLost \/ Respond
    BY <2>3 DEF EndOfStream, StreamLost, Respond, NextPhase
  <2>4. CASE ReadRequestLine
    <3>1. phase' \in {"failed", "line", "headers"}
      BY <2>4, ReadLineCases DEF ParsedLine
    <3> QED BY <3>1
  <2>5. CASE ReadHeaders
    <3>1. phase' \in {"failed", "headers", "respond"}
      BY <2>5, ReadHeadersCases DEF ParsedHeaders
    <3> QED BY <3>1
  <2> QED BY <2>1, <2>2, <2>3, <2>4, <2>5 DEF Next, Server
<1> QED BY <1>1, <1>2, <1>3 DEF BaseInv

-----------------------------------------------------------------------------
(* The parts of HttpInv that hold while requests are framed. *)
LEMMA AskedFacts ==
    ASSUME BaseInv, Framed, served < sent
    PROVE  /\ served + 1 \in 1 .. sent /\ (served + 1) - 1 = served
           /\ served + 1 \in 1 .. Len(script)
           /\ IsRequest(Asked) /\ Asked \in Seq(Bytes) /\ Len(Asked) \in Nat
           /\ Offset[served] \in Nat /\ Offset[served + 1] = Offset[served] + Len(Asked)
           /\ LineLength(Asked) \in 2 .. Len(Asked) /\ Start(Asked) \in 2 .. Len(Asked)
           /\ LineLength(Asked) < Start(Asked)
<1>0. script \in Scripts /\ Len(script) \in Nat /\ sent \in 0 .. Len(script) /\ served \in 0 .. Len(script)
  BY BaseFacts
<1>1. served + 1 \in 1 .. sent /\ (served + 1) - 1 = served /\ served + 1 \in 1 .. Len(script)
  BY <1>0
<1>2. IsRequest(Asked) /\ Asked \in Seq(Bytes) /\ Len(Asked) \in Nat
      /\ Offset[served] \in Nat /\ Offset[served + 1] = Offset[served] + Len(Asked)
  BY <1>0, <1>1, OffsetFacts DEF Asked
<1>3. HasHeaders(Asked)
  <2>1. DOMAIN script = 1 .. Len(script)
    BY <1>0, OffsetFacts
  <2> QED BY <1>1, <2>1 DEF Framed, Asked
<1> QED BY <1>1, <1>2, <1>3, RequestLine, RequestEnd, TerminatorAfterLine

(* A byte of the stream when the chunk is used up. *)
LEMMA RestAt ==
    ASSUME BaseInv, buffer = <<>>, NEW k \in 1 .. sent, NEW j \in 1 .. Len(script[k]),
           NEW p \in 1 .. Len(rest), consumed + p = Offset[k - 1] + j
    PROVE  rest[p] = script[k][j]
<1>1. k \in 1 .. Len(script) /\ k - 1 \in 0 .. Len(script) /\ script \in Scripts
      /\ consumed \in Nat /\ Len(rest) \in Nat /\ Len(buffer) = 0
  BY BaseFacts
<1>2. Offset[k - 1] \in Nat /\ Len(script[k]) \in Nat
  BY <1>1, OffsetFacts
<1>3. Offset[k - 1] + j > consumed /\ (Offset[k - 1] + j) - consumed = p
  BY <1>1, <1>2
<1>4. Unread(buffer, rest, (Offset[k - 1] + j) - consumed) = script[k][j]
  BY <1>3 DEF BaseInv, StreamInv
<1>5. ~(p <= Len(buffer)) /\ p - Len(buffer) = p
  BY <1>1
<1> QED BY <1>3, <1>4, <1>5 DEF Unread

(* A chunk that ends inside the terminator of a request is noted in cut. *)
LEMMA ArriveCuts ==
    ASSUME BaseInv, buffer = <<>>, NEW i \in 1 .. sent, NEW k \in 1 .. Len(rest),
           consumed < Offset[i - 1] + Start(script[i]),
           Offset[i - 1] + Start(script[i]) <= consumed + k, consumed + k < Offset[i]
    PROVE  \E p \in 1 .. k : CutsTerminator(rest, p, k)
<1> DEFINE q == script[i]
           st == Start(q)
           o == Offset[i - 1]
           p == (o + st) - consumed
<1>0. script \in Scripts /\ Len(script) \in Nat /\ sent \in 0 .. Len(script)
      /\ consumed \in Nat /\ rest \in Seq(Bytes) /\ Len(rest) \in Nat /\ Len(buffer) = 0
      /\ Offset[sent] \in Nat /\ consumed + Len(buffer) + Len(rest) = Offset[sent]
  BY BaseFacts
<1>1. /\ IsRequest(q) /\ Len(q) \in Nat /\ Offset[i - 1] \in Nat /\ Offset[i] \in Nat
      /\ Offset[i] = Offset[i - 1] + Len(q) /\ Offset[i] <= Offset[sent]
  <2>1. i \in 1 .. Len(script) /\ i - 1 \in 0 .. Len(script) /\ i \in 0 .. Len(script) /\ i <= sent
    BY <1>0
  <2> QED BY <1>0, <2>1, OffsetFacts
<1>2. st \in 2 .. Len(q)
  BY <1>1, RequestEnd
<1>3. st \in Nat /\ consumed < Offset[i - 1] + st /\ Offset[i - 1] + st <= consumed + k
  BY <1>1, <1>2
<1>o. /\ o \in Nat /\ Offset[i] = o + Len(q) /\ Offset[i] \in Nat /\ Offset[i] <= Offset[sent]
      /\ consumed < o + st /\ o + st <= consumed + k /\ consumed + k < Offset[i]
      /\ k \in Nat /\ k <= Len(rest) /\ st \in Nat /\ consumed \in Nat /\ Len(q) \in Nat
  BY <1>0, <1>1, <1>3
<1> HIDE DEF st, q, o
<1>4. p \in 1 .. k /\ consumed + p = o + st /\ p \in Nat
  BY <1>o
<1> HIDE DEF p
<1>5. ASSUME NEW d \in Nat, st + d <= Len(q)
      PROVE  /\ p + d <= Len(rest)
             /\ rest[p + d] = q[st + d]
  <2>1. consumed + (p + d) = o + (st + d)
    BY <1>o, <1>4, <1>5
  <2>2. consumed + (p + d) <= consumed + Len(rest)
    <3>1. o + (st + d) <= Offset[i]
      BY <1>o, <1>5
    <3>2. Offset[sent] = consumed + Len(rest)
      BY <1>0
    <3> QED BY <1>o, <2>1, <3>1, <3>2
  <2>3. p + d \in 1 .. Len(rest) /\ st + d \in 1 .. Len(q)
    BY <1>0, <1>1, <1>2, <1>4, <1>5, <2>2
  <2> QED BY <2>1, <2>3, RestAt DEF q, o
<1>6. p \in 1 .. Len(rest) /\ p + 0 = p /\ st + 0 = st
  BY <1>0, <1>3, <1>4
<1>7. CASE /\ st + 3 = Len(q)
           /\ q[st] = "r" /\ q[st + 1] = "n" /\ q[st + 2] = "r" /\ q[st + 3] = "n"
  <2>a. st + 0 <= Len(q) /\ st + 1 <= Len(q) /\ st + 2 <= Len(q) /\ st + 3 <= Len(q)
    BY <1>o, <1>7
  <2>1. rest[p + 0] = q[st + 0] /\ rest[p + 1] = q[st + 1] /\ rest[p + 2] = q[st + 2]
        /\ rest[p + 3] = q[st + 3] /\ p + 3 <= Len(rest)
    <3>1. 0 \in Nat /\ 1 \in Nat /\ 2 \in Nat /\ 3 \in Nat
      OBVIOUS
    <3> QED BY <1>5, <2>a, <3>1, Zenon
  <2>b. rest[p] = "r" /\ rest[p + 1] = "n" /\ rest[p + 2] = "r" /\ rest[p + 3] = "n"
    BY <1>6, <1>7, <2>1, Zenon
  <2>2. CrLfAt(rest, p)
    BY <1>0, <1>6, <2>1, <2>b, CrLfBytes
  <2>3. k < p + 3
    <3>1. Offset[i] = o + (st + 3)
      BY <1>o, <1>7
    <3> QED BY <1>o, <1>4, <3>1
  <2> QED BY <1>4, <2>2, <2>3 DEF CutsTerminator
<1>8. CASE /\ st + 1 = Len(q)
           /\ q[st] = "n" /\ q[st + 1] = "n"
  <2>1. rest[p + 0] = q[st + 0] /\ rest[p + 1] = q[st + 1] /\ p + 1 <= Len(rest)
    BY <1>o, <1>5, <1>8
  <2>2. LfAt(rest, p)
    BY <1>0, <1>6, <1>8, <2>1, LfBytes
  <2>3. k < p + 1
    <3>1. Offset[i] = o + (st + 1)
      BY <1>o, <1>8
    <3> QED BY <1>o, <1>4, <3>1
  <2> QED BY <1>4, <2>2, <2>3 DEF CutsTerminator
<1> QED BY <1>1, <1>7, <1>8, RequestEnd DEF st

LEMMA ChunkStep ==
    ASSUME BaseInv, [Next]_vars, Framed', ChunkInv
    PROVE  ChunkInv'
<1>0. script \in Scripts /\ Len(script) \in Nat /\ sent \in 0 .. Len(script) /\ sent \in Nat
      /\ consumed \in Nat /\ buffer \in Seq(Bytes) /\ Len(buffer) \in Nat /\ Len(rest) \in Nat
      /\ Offset[sent] \in Nat /\ consumed + Len(buffer) <= Offset[sent]
  BY BaseFacts
<1>s. script' = script /\ Offset' = Offset
  BY ScriptKept
<1>1. CASE PeerSends
  <2>1. sent' = sent + 1 /\ buffer' = buffer /\ consumed' = consumed
        /\ sent + 1 \in 1 .. Len(script) /\ (sent + 1) - 1 = sent
    BY <1>0, <1>1 DEF PeerSends
  <2>2. ~(Offset[sent] + Start(script[sent + 1]) <= consumed + Len(buffer))
    <3>1. IsRequest(script[sent + 1])
      BY <1>0, <2>1, OffsetFacts
    <3>2. Start(script[sent + 1]) \in 2 .. Len(script[sent + 1]) /\ Len(script[sent + 1]) \in Nat
      BY <3>1, RequestEnd
    <3> QED BY <1>0, <3>2
  <2>3. ASSUME NEW i \in 1 .. sent + 1
        PROVE  ~ /\ Offset[i - 1] + Start(script[i]) <= consumed + Len(buffer)
                 /\ consumed + Len(buffer) < Offset[i]
    <3>1. CASE i \in 1 .. sent
      BY <3>1 DEF ChunkInv
    <3>2. CASE i = sent + 1
      BY <2>1, <2>2, <3>2
    <3> QED BY <1>0, <3>1, <3>2
  <2> QED BY <1>s, <2>1, <2>3 DEF ChunkInv
<1>2. CASE Arrive
  <2>1. PICK k \in 1 .. Len(rest) :
             /\ cut' = (cut \/ \E i \in 1 .. k : CutsTerminator(rest, i, k))
             /\ buffer' = SubSeq(rest, 1, k)
    BY <1>2 DEF Arrive
  <2>2. buffer = <<>> /\ Len(buffer) = 0 /\ sent' = sent /\ consumed' = consumed
    BY <1>2 DEF Arrive
  <2>3. Len(buffer') = k
    <3>1. rest \in Seq(Bytes)
      BY BaseFacts
    <3> QED BY <2>1, <3>1
  <2>4. ~(\E i \in 1 .. k : CutsTerminator(rest, i, k))
    BY <2>1 DEF Framed
  <2>5. ASSUME NEW i \in 1 .. sent, Offset[i - 1] + Start(script[i]) <= consumed + k,
               consumed + k < Offset[i]
        PROVE  FALSE
    <3>1. ~ /\ Offset[i - 1] + Start(script[i]) <= consumed
            /\ consumed < Offset[i]
      BY <1>0, <2>2 DEF ChunkInv
    <3>2. Offset[i] \in Nat /\ Offset[i - 1] \in Nat /\ IsRequest(script[i])
      <4>1. i \in 1 .. Len(script) /\ i - 1 \in 0 .. Len(script) /\ i \in 0 .. Len(script)
        BY <1>0
      <4> QED BY <1>0, <4>1, OffsetFacts
    <3>3. Start(script[i]) \in Nat
      <4>1. Start(script[i]) \in 2 .. Len(script[i]) /\ Len(script[i]) \in Nat
        BY <3>2, RequestEnd
      <4> QED BY <4>1
    <3>4. consumed < Offset[i]
      BY <1>0, <2>1, <2>5, <3>2
    <3>5. consumed < Offset[i - 1] + Start(script[i])
      BY <1>0, <3>1, <3>2, <3>3, <3>4
    <3> QED BY <2>2, <2>4, <2>5, <3>5, ArriveCuts
  <2> QED BY <1>s, <2>2, <2>3, <2>5 DEF ChunkInv
<1>3. ASSUME NEW n, ReadBy(n)
      PROVE  ChunkInv'
  <2>1. Len(buffer') = Len(buffer) - n /\ consumed' = consumed + n /\ sent' = sent /\ n \in 0 .. Len(buffer)
    BY <1>3, ReadFacts DEF ReadBy
  <2>2. consumed' + Len(buffer') = consumed + Len(buffer)
    BY <1>0, <2>1
  <2> QED BY <1>s, <2>1, <2>2 DEF ChunkInv
<1>4. CASE ReadRequestLine
  BY <1>3, <1>4, ReadLineCases
<1>5. CASE ReadHeaders
  BY <1>3, <1>5, ReadHeadersCases
<1>6. CASE PeerCloses \/ EndOfStream \/ StreamLost \/ Build \/ Respond \/ UNCHANGED vars
  <2>1. sent' = sent /\ consumed' = consumed /\ buffer' = buffer
    BY <1>6 DEF PeerCloses, EndOfStream, StreamLost, Build, Respond, vars
  <2> QED BY <1>s, <2>1 DEF ChunkInv
<1> QED BY <1>1, <1>2, <1>4, <1>5, <1>6 DEF Next, Server

(* The request line. *)
LEMMA LineStep ==
    ASSUME BaseInv, [Next]_vars, Framed', Framed, LineInv, AskedInv
    PROVE  LineInv'
<1> SUFFICES ASSUME phase' = "line" PROVE LineInv'
  BY DEF LineInv
<1>0. script \in Scripts /\ Len(script) \in Nat /\ sent \in 0 .. Len(script) /\ served \in 0 .. Len(script)
      /\ sent \in Nat /\ served \in Nat /\ served <= sent /\ consumed \in Nat
      /\ buffer \in Seq(Bytes) /\ Len(buffer) \in Nat /\ taken \in Seq(Bytes) /\ Len(taken) \in Nat
      /\ Offset[sent] \in Nat /\ Offset[served] \in Nat /\ consumed + Len(buffer) <= Offset[sent]
  <2>1. script \in Scripts /\ served \in 0 .. Len(script)
    BY BaseFacts
  <2>2. Offset[served] \in Nat
    BY <2>1, OffsetFacts
  <2> QED BY <2>2, BaseFacts
<1>s. script' = script /\ Offset' = Offset
  BY ScriptKept
<1>1. CASE PeerSends
  <2>1. phase = "line" /\ served' = served /\ taken' = taken /\ consumed' = consumed /\ sent' = sent + 1
        /\ sent < Len(script)
    BY <1>1 DEF PeerSends
  <2>2. served < sent + 1 /\ sent + 1 # served
    BY <1>0
  <2>3. Len(taken) < LineLength(Asked)
    <3>1. CASE served < sent
      BY <2>1, <3>1 DEF LineInv
    <3>2. CASE served = sent
      <4>1. served + 1 \in 1 .. Len(script)
        BY <1>0, <2>1, <3>2
      <4>2. IsRequest(Asked)
        BY <1>0, <4>1, OffsetFacts DEF Asked
      <4>3. LineLength(Asked) \in 2 .. Len(Asked) /\ Len(Asked) \in Nat
        BY <4>2, RequestLine, RequestEnd
      <4>4. Len(taken) = 0
        BY <2>1, <3>2 DEF LineInv
      <4> QED BY <4>3, <4>4
    <3> QED BY <1>0, <3>1, <3>2
  <2>4. Asked' = Asked
    BY <1>s, <2>1 DEF Asked
  <2>5. consumed = Offset[served] + Len(taken) /\ \A j \in 1 .. Len(taken) : taken[j] = Asked[j]
    BY <2>1 DEF LineInv
  <2> QED BY <1>s, <2>1, <2>2, <2>3, <2>4, <2>5 DEF LineInv
<1>2. CASE PeerCloses \/ Arrive \/ EndOfStream \/ StreamLost \/ UNCHANGED vars
  <2>1. phase = "line" /\ served' = served /\ taken' = taken /\ consumed' = consumed /\ sent' = sent
    BY <1>2 DEF PeerCloses, Arrive, EndOfStream, StreamLost, vars
  <2>2. Asked' = Asked
    BY <1>s, <2>1 DEF Asked
  <2> QED BY <1>s, <2>1, <2>2 DEF LineInv
<1>3. CASE ReadRequestLine
  <2> DEFINE e == FindLineEnd(buffer)
  <2>1. phase = "line" /\ buffer # <<>>
    BY <1>3, ReadLineCases
  <2>2. e = 0 /\ ReadBy(Len(buffer)) /\ taken' = taken \o buffer
    BY <1>3, ReadLineCases DEF ParsedLine
  <2>3. sent' = sent /\ served' = served /\ consumed' = consumed + Len(buffer)
    BY <2>2 DEF ReadBy, Consume
  <2>4. Len(buffer) > 0
    BY <1>0, <2>1
  <2>5. consumed = Offset[served] + Len(taken) /\ \A j \in 1 .. Len(taken) : taken[j] = Asked[j]
    BY <2>1 DEF LineInv
  <2>6. served < sent
    <3>1. served # sent
      BY <1>0, <2>4, <2>5
    <3> QED BY <1>0, <3>1
  <2>7. Len(taken) < LineLength(Asked)
    BY <2>1, <2>6 DEF LineInv
  <2>8. \A i \in 1 .. Len(buffer) : buffer[i] # "n"
    BY <1>0, <2>2, <2>4, FindLineEndFirst, SMTT(30)
  <2>9. /\ served + 1 \in 1 .. sent /\ (served + 1) - 1 = served
        /\ IsRequest(Asked) /\ Len(Asked) \in Nat /\ LineLength(Asked) \in 2 .. Len(Asked)
        /\ Asked[LineLength(Asked)] = "n"
    BY <2>6, AskedFacts, RequestLine
  <2> DEFINE l == LineLength(Asked)
  <2>l. l \in Nat /\ l \in 1 .. Len(Asked) /\ l <= Len(Asked)
    BY <2>9
  <2>10. ASSUME NEW p \in 1 .. Len(buffer), Len(taken) + p <= Len(Asked)
         PROVE  buffer[p] = Asked[Len(taken) + p]
    <3>1. p \in Nat /\ Len(taken) + p \in 1 .. Len(Asked)
      BY <1>0, <2>9, <2>10
    <3>2. consumed + p = Offset[served] + (Len(taken) + p)
      BY <1>0, <2>5, <3>1, SMTT(30)
    <3> QED BY <2>9, <3>1, <3>2, ByteAt DEF Asked
  <2> HIDE DEF l, e
  <2>11. Len(taken) + Len(buffer) < l
    <3> SUFFICES ASSUME Len(taken) + Len(buffer) >= l PROVE FALSE
      BY <1>0, <2>l
    <3> DEFINE p == l - Len(taken)
    <3>1. p \in 1 .. Len(buffer) /\ Len(taken) + p = l
      BY <1>0, <2>l, <2>7 DEF l
    <3> HIDE DEF p
    <3>2. buffer[p] = Asked[l]
      BY <2>l, <2>10, <3>1
    <3> QED BY <2>8, <2>9, <3>1, <3>2 DEF l
  <2>12. Len(taken') = Len(taken) + Len(buffer)
    BY <1>0, <2>2
  <2>13. consumed' = Offset[served] + Len(taken')
    BY <1>0, <2>3, <2>5, <2>12
  <2>14. ASSUME NEW j \in 1 .. Len(taken') PROVE taken'[j] = Asked[j]
    <3>1. j \in 1 .. Len(taken) + Len(buffer)
      BY <2>12
    <3>2. taken'[j] = IF j <= Len(taken) THEN taken[j] ELSE buffer[j - Len(taken)]
      BY <1>0, <2>2, <3>1
    <3>3. CASE j <= Len(taken)
      BY <1>0, <2>5, <3>1, <3>2, <3>3
    <3>4. CASE ~(j <= Len(taken))
      <4>1. j - Len(taken) \in 1 .. Len(buffer) /\ Len(taken) + (j - Len(taken)) = j /\ j <= Len(Asked)
        BY <1>0, <2>l, <2>11, <3>1, <3>4
      <4> QED BY <2>10, <3>2, <3>4, <4>1
    <3> QED BY <3>3, <3>4
  <2>15. Asked' = Asked
    BY <1>s, <2>3 DEF Asked
  <2>16. served' # sent'
    BY <1>0, <2>3, <2>6
  <2> QED BY <1>s, <2>3, <2>11, <2>12, <2>13, <2>14, <2>15, <2>16 DEF LineInv, l
<1>4. CASE ReadHeaders
  BY <1>4, ReadHeadersCases DEF ParsedHeaders
<1>5. CASE Build
  BY <1>5 DEF Build
<1>6. CASE Respond
  <2>1. phase = "write" /\ served' = served + 1 /\ taken' = <<>> /\ consumed' = consumed /\ sent' = sent
    BY <1>6 DEF Respond
  <2>2. served < sent /\ consumed = Offset[served + 1]
    BY <2>1 DEF AskedInv
  <2>3. Len(taken') = 0 /\ Offset[served + 1] \in Nat
    <3>1. served + 1 \in 0 .. Len(script)
      BY <1>0, <2>2
    <3> QED BY <1>0, <2>1, <3>1, OffsetFacts
  <2>4. served' < sent' => 0 < LineLength(Asked')
    <3> SUFFICES ASSUME served + 1 < sent PROVE 0 < LineLength(script[(served + 1) + 1])
      BY <1>s, <2>1 DEF Asked
    <3>1. (served + 1) + 1 \in 1 .. Len(script)
      BY <1>0
    <3>2. IsRequest(script[(served + 1) + 1])
      BY <1>0, <3>1, OffsetFacts
    <3>3. LineLength(script[(served + 1) + 1]) \in 2 .. Len(script[(served + 1) + 1])
          /\ Len(script[(served + 1) + 1]) \in Nat
      BY <3>2, RequestLine, RequestEnd
    <3> QED BY <3>3
  <2>5. consumed' = Offset'[served'] + Len(taken')
    BY <1>s, <2>1, <2>2, <2>3
  <2>6. \A j \in 1 .. Len(taken') : taken'[j] = Asked'[j]
    BY <2>3
  <2> QED BY <2>1, <2>3, <2>4, <2>5, <2>6 DEF LineInv
<1> QED BY <1>1, <1>2, <1>3, <1>4, <1>5, <1>6 DEF Next, Server

(* What a read keeps is the part of the request it has read. *)
LEMMA TakenIs ==
    ASSUME BaseInv, NEW q \in Seq(Bytes), NEW c \in Nat, NEW e \in 1 .. Len(buffer),
           c + (Len(taken) + e) <= Len(q),
           \A j \in 1 .. Len(taken) : taken[j] = q[c + j],
           \A j \in 1 .. e : buffer[j] = q[c + (Len(taken) + j)]
    PROVE  taken \o SubSeq(buffer, 1, e) = SubSeq(q, c + 1, c + (Len(taken) + e))
<1> DEFINE u == taken \o SubSeq(buffer, 1, e)
           v == SubSeq(q, c + 1, c + (Len(taken) + e))
           n == Len(taken)
<1>0. Len(q) \in Nat /\ n \in Nat /\ Len(buffer) \in Nat /\ e \in Nat
  BY BaseFacts
<1>1. /\ u \in Seq(Bytes) /\ Len(u) = n + e
      /\ \A j \in 1 .. n : u[j] = taken[j]
      /\ \A j \in 1 .. e : u[n + j] = buffer[j]
  BY ReadTaken
<1>2. v \in Seq(Bytes) /\ Len(v) = n + e /\ \A j \in 1 .. n + e : v[j] = q[c + j]
  <2>1. c + (n + e) \in Nat /\ c + 1 \in Nat /\ c + (n + e) <= Len(q)
    BY <1>0
  <2> HIDE DEF n
  <2> DEFINE w == SubSeq(q, c + 1, c + (n + e))
  <2>2. w \in Seq(Bytes) /\ Len(w) = n + e
    BY <1>0, <2>1
  <2>3. \A j \in 1 .. n + e : w[j] = q[c + j]
    BY <1>0, <2>1
  <2> QED BY <2>2, <2>3 DEF n
<1>3. ASSUME NEW j \in 1 .. n + e PROVE u[j] = v[j]
  <2>1. CASE j <= n
    <3>1. j \in 1 .. n
      BY <1>0, <2>1
    <3> QED BY <1>1, <1>2, <3>1
  <2>2. CASE ~(j <= n)
    <3>1. j - n \in 1 .. e /\ n + (j - n) = j
      BY <1>0, <2>2
    <3>2. u[n + (j - n)] = q[c + (n + (j - n))]
      BY <1>1, <3>1
    <3> QED BY <1>2, <3>1, <3>2
  <2> QED BY <2>1, <2>2
<1> HIDE DEF u, v, n
<1>4. u = v
  BY <1>1, <1>2, <1>3, SeqEqual
<1> QED BY <1>4 DEF u, v

(* The end of the line that a chunk has, and what is read with it. *)
LEMMA LineRead ==
    ASSUME BaseInv, Framed, LineInv, phase = "line", buffer # <<>>,
           NEW e, e = FindLineEnd(buffer), e # 0
    PROVE  /\ served < sent
           /\ e \in 1 .. Len(buffer) /\ Len(taken) + e = LineLength(Asked)
           /\ taken \o SubSeq(buffer, 1, e) = SubSeq(Asked, 1, LineLength(Asked))
<1> DEFINE l == LineLength(Asked)
<1>0. script \in Scripts /\ Len(script) \in Nat /\ sent \in 0 .. Len(script) /\ served \in 0 .. Len(script)
      /\ sent \in Nat /\ served \in Nat /\ served <= sent /\ consumed \in Nat
      /\ buffer \in Seq(Bytes) /\ Len(buffer) \in Nat /\ taken \in Seq(Bytes) /\ Len(taken) \in Nat
      /\ Offset[sent] \in Nat /\ Offset[served] \in Nat /\ consumed + Len(buffer) <= Offset[sent]
  <2>1. script \in Scripts /\ served \in 0 .. Len(script)
    BY BaseFacts
  <2>2. Offset[served] \in Nat
    BY <2>1, OffsetFacts
  <2> QED BY <2>2, BaseFacts
<1>1. consumed = Offset[served] + Len(taken) /\ \A j \in 1 .. Len(taken) : taken[j] = Asked[j]
  BY DEF LineInv
<1>2. served < sent
  <2>1. served # sent
    BY <1>0, <1>1
  <2> QED BY <1>0, <2>1
<1>3. Len(taken) < l
  BY <1>2 DEF LineInv
<1>4. /\ served + 1 \in 1 .. sent /\ (served + 1) - 1 = served
      /\ IsRequest(Asked) /\ Asked \in Seq(Bytes) /\ Len(Asked) \in Nat /\ l \in 2 .. Len(Asked)
      /\ Asked[l] = "n" /\ \A i \in 1 .. l - 1 : Asked[i] # "n"
  BY <1>2, AskedFacts, RequestLine
<1>l. l \in Nat /\ l \in 1 .. Len(Asked) /\ l <= Len(Asked)
  BY <1>4
<1> HIDE DEF l
<1>5. /\ e \in 1 .. Len(buffer) /\ buffer[e] = "n"
      /\ \A i \in 1 .. e - 1 : buffer[i] # "n"
  BY <1>0, FindLineEndFirst
<1>6. ASSUME NEW p \in 1 .. Len(buffer), Len(taken) + p <= Len(Asked)
      PROVE  buffer[p] = Asked[Len(taken) + p]
  <2>1. p \in Nat /\ Len(taken) + p \in 1 .. Len(Asked)
    BY <1>0, <1>4, <1>6
  <2>2. consumed + p = Offset[served] + (Len(taken) + p)
    BY <1>0, <1>1, <2>1
  <2> QED BY <1>4, <2>1, <2>2, ByteAt DEF Asked
<1>7. Len(taken) + e = l
  <2>1. Len(taken) + e <= l
    <3> SUFFICES ASSUME Len(taken) + e > l PROVE FALSE
      BY <1>0, <1>l, <1>5
    <3> DEFINE p == l - Len(taken)
    <3>1. p \in 1 .. Len(buffer) /\ Len(taken) + p = l /\ p \in 1 .. e - 1
      BY <1>0, <1>l, <1>3, <1>5, SMTT(30)
    <3> HIDE DEF p
    <3>2. buffer[p] = Asked[l]
      BY <1>l, <1>6, <3>1
    <3> QED BY <1>4, <1>5, <3>1, <3>2
  <2>2. Len(taken) + e >= l
    <3> SUFFICES ASSUME Len(taken) + e < l PROVE FALSE
      BY <1>0, <1>l, <1>5
    <3>1. Len(taken) + e <= Len(Asked) /\ Len(taken) + e \in 1 .. l - 1
      BY <1>0, <1>l, <1>5, SMTT(30)
    <3>2. buffer[e] = Asked[Len(taken) + e]
      BY <1>5, <1>6, <3>1
    <3> QED BY <1>4, <1>5, <3>1, <3>2
  <2>3. Len(taken) + e \in Nat
    BY <1>0, <1>5
  <2> QED BY <1>l, <2>1, <2>2, <2>3
<1>8. taken \o SubSeq(buffer, 1, e) = SubSeq(Asked, 1, l)
  <2>1. 0 + (Len(taken) + e) = l /\ 0 + 1 = 1 /\ l <= Len(Asked) /\ 0 \in Nat
    BY <1>l, <1>7
  <2>2. \A j \in 1 .. Len(taken) : taken[j] = Asked[0 + j]
    BY <1>0, <1>1
  <2>3. ASSUME NEW j \in 1 .. e PROVE buffer[j] = Asked[0 + (Len(taken) + j)]
    <3>1. j \in 1 .. Len(buffer) /\ Len(taken) + j <= Len(Asked) /\ 0 + (Len(taken) + j) = Len(taken) + j
      BY <1>0, <1>l, <1>5, <1>7, SMTT(30)
    <3> QED BY <1>6, <3>1
  <2>4. taken \o SubSeq(buffer, 1, e) = SubSeq(Asked, 0 + 1, 0 + (Len(taken) + e))
    BY <1>4, <1>5, <2>1, <2>2, <2>3, TakenIs
  <2> QED BY <2>1, <2>4
<1> QED BY <1>2, <1>5, <1>7, <1>8 DEF l

(* Where the chunk is in the request whose headers are read. *)
LEMMA HeadersPlace ==
    ASSUME BaseInv, Framed, HeadersInv, phase = "headers",
           NEW c, c = LineLength(Asked) + Len(taken)
    PROVE  /\ served < sent /\ c \in Nat /\ c < Start(Asked) /\ Start(Asked) \in Nat
           /\ consumed = Offset[served] + c
           /\ \A p \in 1 .. Len(buffer) : c + p <= Len(Asked) => buffer[p] = Asked[c + p]
           /\ Len(Asked) <= c + Len(buffer) =>
                \E p \in 1 .. Len(buffer) : TerminatorAt(buffer, p) /\ c + p = Start(Asked)
<1> DEFINE st == Start(Asked)
           b == Len(buffer)
           o == Offset[served]
<1>0. consumed \in Nat /\ buffer \in Seq(Bytes) /\ b \in Nat /\ Len(taken) \in Nat
  BY BaseFacts
<1>1. served < sent /\ consumed = o + LineLength(Asked) + Len(taken)
      /\ LineLength(Asked) + Len(taken) < st
  BY DEF HeadersInv
<1>2. /\ served + 1 \in 1 .. sent /\ (served + 1) - 1 = served
      /\ IsRequest(Asked) /\ Asked \in Seq(Bytes) /\ Len(Asked) \in Nat
      /\ LineLength(Asked) \in 2 .. Len(Asked) /\ st \in 2 .. Len(Asked) /\ o \in Nat
  BY <1>1, AskedFacts
<1>3. c \in Nat /\ st \in Nat /\ c < st
  BY <1>0, <1>1, <1>2
<1>4. consumed = o + c
  <2>1. LineLength(Asked) \in Nat
    BY <1>2
  <2> QED BY <1>0, <1>1, <1>2, <2>1
<1> HIDE DEF b, st, o
<1>5. ASSUME NEW p \in 1 .. b, c + p <= Len(Asked) PROVE buffer[p] = Asked[c + p]
  <2>1. p \in Nat /\ c + p \in 1 .. Len(Asked)
    BY <1>0, <1>2, <1>3, <1>5
  <2>2. consumed + p = o + (c + p)
    BY <1>0, <1>2, <1>3, <1>4, <2>1
  <2> DEFINE k == served + 1
             j == c + p
  <2>3. k \in 1 .. sent /\ script[k] = Asked /\ Offset[k - 1] = o
    BY <1>2 DEF Asked, o
  <2>4. j \in 1 .. Len(script[k]) /\ p \in 1 .. Len(buffer)
    BY <2>1, <2>3 DEF b
  <2>5. consumed + p = Offset[k - 1] + j
    BY <2>2, <2>3
  <2> HIDE DEF k, j
  <2>6. buffer[p] = script[k][j]
    BY <2>3, <2>4, <2>5, ByteAt
  <2> QED BY <2>3, <2>6 DEF j
<1>6. ASSUME Len(Asked) <= c + b
      PROVE  \E p \in 1 .. b : TerminatorAt(buffer, p) /\ c + p = st
  <2> DEFINE p == st - c
  <2>1. p \in 1 .. b /\ c + p = st /\ p \in Nat
    BY <1>0, <1>2, <1>3, <1>6, SMTT(30)
  <2> HIDE DEF p
  <2>2. ASSUME NEW d \in Nat, st + d <= Len(Asked) PROVE p + d <= b /\ buffer[p + d] = Asked[st + d]
    <3>1. c + (p + d) = st + d
      BY <1>3, <2>1
    <3>2. p + d \in 1 .. b
      BY <1>0, <1>2, <1>3, <1>6, <2>1, <2>2, <3>1
    <3>3. c + (p + d) <= Len(Asked)
      BY <2>2, <3>1
    <3>4. buffer[p + d] = Asked[c + (p + d)]
      BY <1>5, <3>2, <3>3
    <3> QED BY <1>0, <2>1, <3>1, <3>2, <3>4
  <2>3. 0 \in Nat /\ 1 \in Nat /\ 2 \in Nat /\ 3 \in Nat /\ p + 0 = p /\ st + 0 = st
    BY <1>3, <2>1
  <2>4. CASE /\ st + 3 = Len(Asked)
             /\ Asked[st] = "r" /\ Asked[st + 1] = "n" /\ Asked[st + 2] = "r" /\ Asked[st + 3] = "n"
    <3>1. st + 0 <= Len(Asked) /\ st + 1 <= Len(Asked) /\ st + 2 <= Len(Asked) /\ st + 3 <= Len(Asked)
      BY <1>2, <1>3, <2>4
    <3>2. buffer[p + 0] = Asked[st + 0] /\ buffer[p + 1] = Asked[st + 1]
          /\ buffer[p + 2] = Asked[st + 2] /\ buffer[p + 3] = Asked[st + 3] /\ p + 3 <= b
      BY <2>2, <2>3, <3>1, Zenon
    <3>3. buffer[p] = "r" /\ buffer[p + 1] = "n" /\ buffer[p + 2] = "r" /\ buffer[p + 3] = "n"
      BY <2>3, <2>4, <3>2, Zenon
    <3>4. CrLfAt(buffer, p)
      BY <1>0, <2>1, <3>2, <3>3, CrLfBytes DEF b
    <3> QED BY <2>1, <3>4 DEF TerminatorAt
  <2>5. CASE /\ st + 1 = Len(Asked)
             /\ Asked[st] = "n" /\ Asked[st + 1] = "n"
    <3>1. st + 0 <= Len(Asked) /\ st + 1 <= Len(Asked)
      BY <1>2, <1>3, <2>5
    <3>2. buffer[p + 0] = Asked[st + 0] /\ buffer[p + 1] = Asked[st + 1] /\ p + 1 <= b
      BY <2>2, <2>3, <3>1, Zenon
    <3>3. buffer[p] = "n" /\ buffer[p + 1] = "n"
      BY <2>3, <2>5, <3>2, Zenon
    <3>4. LfAt(buffer, p)
      BY <1>0, <2>1, <3>2, <3>3, LfBytes DEF b
    <3> QED BY <2>1, <3>4 DEF TerminatorAt
  <2> QED BY <1>2, <2>4, <2>5, RequestEnd DEF st
<1> QED BY <1>1, <1>3, <1>4, <1>5, <1>6 DEF b, st, o

(* The terminator that a chunk has first is that of the request. *)
LEMMA HeadersRead ==
    ASSUME BaseInv, Framed, ChunkInv, HeadersInv, phase = "headers",
           NEW e, e = FindHeaderTerminator(buffer), e # 0
    PROVE  /\ served < sent /\ e \in 1 .. Len(buffer)
           /\ consumed + e = Offset[served + 1]
           /\ taken \o SubSeq(buffer, 1, e) = HeadersOf(Asked)
<1> DEFINE l == LineLength(Asked)
           n == Len(taken)
           c == l + n
           o == Offset[served]
<1>0. /\ script \in Scripts /\ Len(script) \in Nat /\ sent \in 0 .. Len(script) /\ served \in 0 .. Len(script)
      /\ consumed \in Nat /\ buffer \in Seq(Bytes) /\ Len(buffer) \in Nat /\ n \in Nat
  BY BaseFacts
<1>1. /\ served < sent /\ c \in Nat /\ c < Start(Asked) /\ Start(Asked) \in Nat /\ consumed = o + c
      /\ \A p \in 1 .. Len(buffer) : c + p <= Len(Asked) => buffer[p] = Asked[c + p]
      /\ Len(Asked) <= c + Len(buffer) =>
           \E p \in 1 .. Len(buffer) : TerminatorAt(buffer, p) /\ c + p = Start(Asked)
  BY HeadersPlace
<1>2. /\ served + 1 \in 1 .. Len(script) /\ o \in Nat /\ Offset[served + 1] = o + Len(Asked)
      /\ IsRequest(Asked) /\ Asked \in Seq(Bytes) /\ Len(Asked) \in Nat
      /\ l \in 2 .. Len(Asked) /\ Start(Asked) \in 2 .. Len(Asked)
  BY <1>1, AskedFacts
<1>3. PICK m \in 1 .. Len(buffer) :
         /\ TerminatorAt(buffer, m) /\ e = TerminatorEnd(buffer, m) /\ e \in 1 .. Len(buffer)
         /\ \A i \in 1 .. m - 1 : ~TerminatorAt(buffer, i)
  BY <1>0, FindHeaderTerminatorFirst
<1>4. PICK k \in 1 .. sent : Offset[k] = consumed + e /\ Offset[k - 1] < consumed + m
  BY <1>3, TerminatorEndsRequest
<1>5. k \in 0 .. Len(script) /\ k - 1 \in 0 .. Len(script) /\ served + 1 \in 0 .. Len(script) /\ k \in Nat
  BY <1>0, <1>2
<1>6. Offset[k] \in Nat /\ Offset[k - 1] \in Nat /\ Offset[served + 1] \in Nat
  BY <1>0, <1>5, OffsetFacts
<1> HIDE DEF c, l, n, o
<1>c. /\ c \in Nat /\ o \in Nat /\ consumed = o + c /\ Len(Asked) \in Nat /\ m \in Nat /\ e \in Nat
      /\ Offset[served + 1] = o + Len(Asked) /\ m <= Len(buffer) /\ e <= Len(buffer)
  BY <1>0, <1>1, <1>2, <1>3
<1>7. ~(k <= served)
  <2>1. k <= served => Offset[k] <= o
    BY <1>0, <1>5, OffsetFacts DEF o
  <2>2. e \in Nat /\ e >= 1
    BY <1>0, <1>3
  <2>3. o < Offset[k]
    BY <1>1, <1>2, <1>4, <2>2, SMTT(30)
  <2> QED BY <1>2, <1>6, <2>1, <2>3
<1>8. ~(served + 1 <= k - 1)
  <2> SUFFICES ASSUME served + 1 <= k - 1 PROVE FALSE
    OBVIOUS
  <2>1. Offset[served + 1] <= Offset[k - 1]
    BY <1>0, <1>5, OffsetFacts
  <2>2. o + Len(Asked) < (o + c) + m
    <3>1. Offset[k - 1] < consumed + m
      BY <1>4
    <3> QED BY <1>c, <1>6, <2>1, <3>1
  <2>3. Len(Asked) < c + m /\ m \in Nat
    <3>1. m \in Nat
      BY <1>0
    <3> QED BY <1>1, <1>2, <2>2, <3>1
  <2>4. PICK p \in 1 .. Len(buffer) : TerminatorAt(buffer, p) /\ c + p = Start(Asked)
    <3>1. Len(Asked) <= c + Len(buffer)
      BY <1>0, <1>1, <1>2, <2>3
    <3> QED BY <1>1, <3>1
  <2>5. p \in 1 .. m - 1
    BY <1>0, <1>1, <1>2, <2>3, <2>4, SMTT(30)
  <2> QED BY <1>3, <2>4, <2>5
<1>9. k = served + 1
  BY <1>0, <1>5, <1>7, <1>8
<1>10. consumed + e = Offset[served + 1] /\ c + e = Len(Asked)
  <2>1. e \in Nat
    BY <1>0, <1>3
  <2>2. consumed + e = Offset[served + 1]
    BY <1>4, <1>9
  <2>3. (o + c) + e = o + Len(Asked)
    BY <1>1, <1>2, <2>2
  <2>4. c + e = Len(Asked)
    BY <1>c, <2>3
  <2> QED BY <2>2, <2>4
<1>11. taken \o SubSeq(buffer, 1, e) = HeadersOf(Asked)
  <2>1. l \in Nat /\ l + (n + e) = Len(Asked) /\ l + (n + e) <= Len(Asked) /\ e \in Nat
    <3>1. e \in Nat /\ l \in Nat
      BY <1>0, <1>2, <1>3
    <3>2. n \in Nat /\ (l + n) + e = Len(Asked)
      BY <1>0, <1>10 DEF c
    <3>3. l + (n + e) = Len(Asked)
      BY <3>1, <3>2
    <3> QED BY <1>c, <3>1, <3>3
  <2>2. \A j \in 1 .. Len(taken) : taken[j] = Asked[l + j]
    BY DEF HeadersInv, l
  <2>3. ASSUME NEW j \in 1 .. e PROVE buffer[j] = Asked[l + (n + j)]
    <3>1. j \in 1 .. Len(buffer) /\ c + j <= Len(Asked)
      <4>1. c + e = Len(Asked)
        BY <1>10
      <4> QED BY <1>0, <1>c, <4>1
    <3>2. c + j = l + (n + j)
      BY <1>0, <2>1 DEF c
    <3> QED BY <1>1, <3>1, <3>2
  <2>4. taken \o SubSeq(buffer, 1, e) = SubSeq(Asked, l + 1, l + (n + e))
    BY <1>2, <1>3, <2>1, <2>2, <2>3, TakenIs DEF n
  <2> QED BY <2>1, <2>4 DEF HeadersOf, l
<1> QED BY <1>1, <1>3, <1>10, <1>11

(* The headers. *)
LEMMA HeadersStep ==
    ASSUME BaseInv, [Next]_vars, Framed', Framed, ChunkInv, LineInv, HeadersInv
    PROVE  HeadersInv'
<1> SUFFICES ASSUME phase' = "headers" PROVE HeadersInv'
  BY DEF HeadersInv
<1>0. /\ script \in Scripts /\ Len(script) \in Nat /\ sent \in 0 .. Len(script) /\ served \in 0 .. Len(script)
      /\ sent \in Nat /\ served \in Nat
      /\ consumed \in Nat /\ buffer \in Seq(Bytes) /\ Len(buffer) \in Nat
      /\ taken \in Seq(Bytes) /\ Len(taken) \in Nat
  BY BaseFacts
<1>s. script' = script /\ Offset' = Offset
  BY ScriptKept
<1>1. CASE PeerSends \/ PeerCloses \/ Arrive \/ EndOfStream \/ StreamLost \/ UNCHANGED vars
  <2>1. phase = "headers" /\ served' = served /\ taken' = taken /\ consumed' = consumed /\ line' = line
        /\ (sent' = sent \/ sent' = sent + 1)
    BY <1>1 DEF PeerSends, PeerCloses, Arrive, EndOfStream, StreamLost, vars
  <2>2. Asked' = Asked
    BY <1>s, <2>1 DEF Asked
  <2>3. served' < sent'
    <3>1. served < sent
      BY <2>1 DEF HeadersInv
    <3> QED BY <1>0, <2>1, <3>1
  <2> QED BY <1>s, <2>1, <2>2, <2>3 DEF HeadersInv
<1>2. CASE ReadRequestLine
  <2> DEFINE e == FindLineEnd(buffer)
             l == LineLength(Asked)
  <2>1. phase = "line" /\ buffer # <<>>
    BY <1>2, ReadLineCases
  <2>2. e # 0 /\ ReadBy(e) /\ ParsedLine(taken \o SubSeq(buffer, 1, e))
    BY <1>2, <2>1, ReadLineCases
  <2>3. /\ served < sent /\ e \in 1 .. Len(buffer) /\ Len(taken) + e = l
        /\ taken \o SubSeq(buffer, 1, e) = SubSeq(Asked, 1, l)
    BY <2>1, <2>2, LineRead
  <2>4. taken' = <<>> /\ line' = LineOf(Asked)
    BY <2>2, <2>3 DEF ParsedLine, LineOf
  <2>5. sent' = sent /\ served' = served /\ consumed' = consumed + e
    BY <2>2 DEF ReadBy, Consume
  <2>6. Asked' = Asked /\ LineOf(Asked') = LineOf(Asked)
    BY <1>s, <2>5 DEF Asked
  <2>7. Len(taken') = 0
    BY <2>4
  <2>8. l \in 2 .. Len(Asked) /\ Len(Asked) \in Nat /\ l < Start(Asked) /\ Offset[served] \in Nat
    BY <2>3, AskedFacts
  <2>9. consumed = Offset[served] + Len(taken)
    BY <2>1 DEF LineInv
  <2> HIDE DEF l, e
  <2>10. consumed + e = Offset[served] + l + 0 /\ l + 0 < Start(Asked)
    <3>1. e \in Nat /\ l \in Nat /\ l + 0 = l
      BY <1>0, <2>3, <2>8
    <3>2. Len(taken) + e = l
      BY <2>3
    <3>3. consumed + e = Offset[served] + l
      <4>1. Offset[served] \in Nat
        BY <2>8
      <4> QED BY <1>0, <2>9, <3>1, <3>2, <4>1
    <3>4. Offset[served] + l + 0 = Offset[served] + l
      BY <2>8, <3>1
    <3> QED BY <2>8, <3>1, <3>3, <3>4
  <2>11. \A j \in 1 .. Len(taken') : taken'[j] = Asked[l + j]
    BY <2>7
  <2>12. consumed' = Offset[served] + LineLength(Asked) + Len(taken')
         /\ LineLength(Asked) + Len(taken') < Start(Asked)
    BY <2>5, <2>7, <2>10 DEF l
  <2> QED BY <1>s, <2>3, <2>4, <2>5, <2>6, <2>11, <2>12 DEF HeadersInv, l
<1>3. CASE ReadHeaders
  <2> DEFINE e == FindHeaderTerminator(buffer)
             c == LineLength(Asked) + Len(taken)
             l == LineLength(Asked)
             o == Offset[served]
  <2>1. phase = "headers" /\ buffer # <<>>
    BY <1>3, ReadHeadersCases
  <2>2. e = 0 /\ ReadBy(Len(buffer)) /\ taken' = taken \o buffer /\ line' = line
    BY <1>3, <2>1, ReadHeadersCases DEF ParsedHeaders
  <2>3. sent' = sent /\ served' = served /\ consumed' = consumed + Len(buffer)
    BY <2>2 DEF ReadBy, Consume
  <2>4. served < sent /\ c \in Nat /\ c < Start(Asked) /\ Start(Asked) \in Nat /\ consumed = o + c
    BY <2>1, HeadersPlace
  <2>5. \A p \in 1 .. Len(buffer) : c + p <= Len(Asked) => buffer[p] = Asked[c + p]
    BY <2>1, HeadersPlace
  <2>6. ~(Len(Asked) <= c + Len(buffer))
    <3>1. \A i \in 1 .. Len(buffer) : ~TerminatorAt(buffer, i)
      <4>1. e = 0 /\ e \notin 1 .. Len(buffer)
        BY <1>0, <2>2
      <4> QED BY <1>0, <4>1, FindHeaderTerminatorFirst
    <3> QED BY <2>1, <3>1, HeadersPlace
  <2>7. /\ served + 1 \in 1 .. sent /\ (served + 1) - 1 = served /\ o \in Nat
        /\ Len(Asked) \in Nat /\ Offset[served + 1] = o + Len(Asked)
        /\ l \in 2 .. Len(Asked) /\ Start(Asked) \in 2 .. Len(Asked)
    BY <2>4, AskedFacts
  <2> HIDE DEF e, c, l, o
  <2>8. c + Len(buffer) < Start(Asked)
    <3>1. ~ /\ o + Start(Asked) <= consumed + Len(buffer)
            /\ consumed + Len(buffer) < Offset[served + 1]
      BY <2>7 DEF ChunkInv, Asked, o
    <3>2. consumed + Len(buffer) < Offset[served + 1]
      BY <1>0, <2>4, <2>6, <2>7
    <3>3. ~(o + Start(Asked) <= (o + c) + Len(buffer))
      BY <2>4, <3>1, <3>2
    <3> QED BY <1>0, <2>4, <2>7, <3>3
  <2>9. Len(taken') = Len(taken) + Len(buffer) /\ l \in Nat
    BY <1>0, <2>2, <2>7
  <2>10. l + Len(taken') = c + Len(buffer)
    BY <1>0, <2>9 DEF c, l
  <2>11. l + Len(taken') < Start(Asked) /\ consumed' = o + l + Len(taken')
    <3>1. l + Len(taken') < Start(Asked)
      BY <2>8, <2>10
    <3>2. Len(taken') \in Nat
      BY <1>0, <2>9
    <3>3. consumed' = (o + c) + Len(buffer)
      BY <2>3, <2>4
    <3>4. (o + c) + Len(buffer) = o + (l + Len(taken'))
      BY <1>0, <2>4, <2>7, <2>10, SMTT(30)
    <3> QED BY <2>7, <2>9, <3>1, <3>2, <3>3, <3>4
  <2>12. ASSUME NEW j \in 1 .. Len(taken') PROVE taken'[j] = Asked[l + j]
    <3>1. j \in 1 .. Len(taken) + Len(buffer)
      BY <2>9
    <3>2. taken'[j] = IF j <= Len(taken) THEN taken[j] ELSE buffer[j - Len(taken)]
      BY <1>0, <2>2, <3>1
    <3>3. CASE j <= Len(taken)
      <4>1. j \in 1 .. Len(taken)
        BY <1>0, <3>1, <3>3
      <4> QED BY <2>1, <3>2, <3>3, <4>1 DEF HeadersInv, l
    <3>4. CASE ~(j <= Len(taken))
      <4>1. j - Len(taken) \in 1 .. Len(buffer) /\ j \in Nat
        BY <1>0, <3>1, <3>4
      <4>2. c + (j - Len(taken)) = l + j
        BY <1>0, <2>9, <3>4, <4>1 DEF c, l
      <4>3. c + (j - Len(taken)) <= Len(Asked)
        <5>1. c + (j - Len(taken)) <= c + Len(buffer)
          BY <1>0, <2>4, <4>1
        <5>2. c + (j - Len(taken)) \in Int
          BY <2>9, <4>1, <4>2
        <5> QED BY <1>0, <2>4, <2>6, <2>7, <5>1, <5>2
      <4> QED BY <2>5, <3>2, <3>4, <4>1, <4>2, <4>3
    <3> QED BY <3>3, <3>4
  <2>13. Asked' = Asked /\ LineOf(Asked') = LineOf(Asked)
    BY <1>s, <2>3 DEF Asked
  <2>14. line = LineOf(Asked)
    BY <2>1 DEF HeadersInv
  <2> QED BY <1>s, <2>2, <2>3, <2>4, <2>11, <2>12, <2>13, <2>14 DEF HeadersInv, l, o
<1>4. CASE Build
  BY <1>4 DEF Build
<1>5. CASE Respond
  BY <1>5 DEF Respond, NextPhase
<1> QED BY <1>1, <1>2, <1>3, <1>4, <1>5 DEF Next, Server

(* The request a response is for. *)
LEMMA AskedStep ==
    ASSUME BaseInv, [Next]_vars, Framed', Framed, ChunkInv, HeadersInv, AskedInv
    PROVE  AskedInv'
<1> SUFFICES ASSUME phase' \in {"respond", "write"} PROVE AskedInv'
  BY DEF AskedInv
<1>0. /\ script \in Scripts /\ Len(script) \in Nat /\ sent \in 0 .. Len(script) /\ served \in 0 .. Len(script)
      /\ sent \in Nat /\ served \in Nat
  BY BaseFacts
<1>s. script' = script /\ Offset' = Offset
  BY ScriptKept
<1>1. CASE PeerSends \/ PeerCloses \/ Arrive \/ EndOfStream \/ StreamLost \/ Build \/ UNCHANGED vars
  <2>1. /\ phase \in {"respond", "write"} /\ served' = served /\ taken' = taken
        /\ consumed' = consumed /\ line' = line /\ (sent' = sent \/ sent' = sent + 1)
    BY <1>1 DEF PeerSends, PeerCloses, Arrive, EndOfStream, StreamLost, Build, vars
  <2>2. Asked' = Asked
    BY <1>s, <2>1 DEF Asked
  <2>3. served' < sent'
    <3>1. served < sent
      BY <2>1 DEF AskedInv
    <3> QED BY <1>0, <2>1, <3>1
  <2> QED BY <1>s, <2>1, <2>2, <2>3 DEF AskedInv
<1>2. CASE ReadRequestLine
  <2>1. phase' \in {"failed", "line", "headers"}
    BY <1>2, ReadLineCases DEF ParsedLine
  <2> QED BY <2>1
<1>3. CASE ReadHeaders
  <2> DEFINE e == FindHeaderTerminator(buffer)
  <2>1. phase = "headers"
    BY <1>3, ReadHeadersCases
  <2>2. e # 0 /\ ReadBy(e) /\ ParsedHeaders(taken \o SubSeq(buffer, 1, e))
    BY <1>3, <2>1, ReadHeadersCases
  <2>3. /\ served < sent /\ consumed + e = Offset[served + 1]
        /\ taken \o SubSeq(buffer, 1, e) = HeadersOf(Asked)
    BY <2>1, <2>2, HeadersRead
  <2>4. taken' = HeadersOf(Asked) /\ line' = line
    BY <2>2, <2>3 DEF ParsedHeaders
  <2>5. sent' = sent /\ served' = served /\ consumed' = consumed + e
    BY <2>2 DEF ReadBy, Consume
  <2>6. Asked' = Asked
    BY <1>s, <2>5 DEF Asked
  <2>7. line = LineOf(Asked)
    BY <2>1 DEF HeadersInv
  <2> QED BY <1>s, <2>3, <2>4, <2>5, <2>6, <2>7 DEF AskedInv
<1>4. CASE Respond
  BY <1>4 DEF Respond, NextPhase
<1> QED BY <1>1, <1>2, <1>3, <1>4 DEF Next, Server

(* What becomes of the connection. *)
LEMMA ClosesStep ==
    ASSUME BaseInv, [Next]_vars, Framed', Framed, LineInv, AskedInv, ClosesWhenAsked
    PROVE  ClosesWhenAsked'
<1>0. /\ script \in Scripts /\ Len(script) \in Nat /\ sent \in 0 .. Len(script) /\ served \in 0 .. Len(script)
      /\ sent \in Nat /\ served \in Nat /\ served <= sent /\ consumed \in Nat
      /\ Len(buffer) \in Nat /\ Len(rest) \in Nat
  BY BaseFacts
<1>s. script' = script /\ Offset' = Offset
  BY ScriptKept
<1>c. /\ phase = "ended" => \/ closed /\ served = Len(script)
                            \/ served > 0 /\ LastOne(script[served])
      /\ (phase \in {"line", "headers", "respond", "write"} /\ served > 0) => ~LastOne(script[served])
  BY DEF ClosesWhenAsked
<1>1. ASSUME served' = served, closed => closed',
             phase' = "ended" => phase = "ended" \/ (closed /\ served = Len(script)),
             phase' \in {"line", "headers", "respond", "write"} =>
               phase \in {"line", "headers", "respond", "write"}
      PROVE  ClosesWhenAsked'
  BY <1>s, <1>c, <1>1 DEF ClosesWhenAsked
<1>2. CASE PeerSends \/ PeerCloses \/ Arrive \/ Build \/ StreamLost \/ UNCHANGED vars
  <2>1. /\ served' = served /\ (closed => closed') /\ (phase' = "ended" => phase = "ended")
        /\ (phase' \in {"line", "headers", "respond", "write"} =>
              phase \in {"line", "headers", "respond", "write"})
    BY <1>2 DEF PeerSends, PeerCloses, Arrive, Build, StreamLost, vars
  <2> QED BY <1>1, <2>1
<1>3. CASE ReadRequestLine
  <2>1. phase = "line" /\ phase' \in {"failed", "line", "headers"} /\ served' = served /\ closed' = closed
    BY <1>3, ReadLineCases DEF ParsedLine, ReadBy
  <2> QED BY <1>1, <2>1
<1>4. CASE ReadHeaders
  <2>1. phase = "headers" /\ phase' \in {"failed", "headers", "respond"} /\ served' = served /\ closed' = closed
    BY <1>4, ReadHeadersCases DEF ParsedHeaders, ReadBy
  <2> QED BY <1>1, <2>1
<1>5. CASE EndOfStream
  <2>1. /\ closed /\ closed' = closed /\ buffer = <<>> /\ rest = <<>> /\ served' = served
        /\ phase' \in {"ended", "failed"}
        /\ phase' = "ended" => phase = "line" /\ taken = <<>>
    BY <1>5 DEF EndOfStream
  <2>2. ASSUME phase' = "ended" PROVE served = Len(script)
    <3>1. phase = "line" /\ taken = <<>> /\ Len(taken) = 0
      BY <2>1, <2>2
    <3>2. consumed = Offset[served] + 0
      BY <3>1 DEF LineInv
    <3>3. sent = Len(script)
      BY <2>1 DEF BaseInv
    <3>4. consumed + 0 + 0 = Offset[sent] /\ Offset[served] \in Nat
      <4>1. Len(buffer) = 0 /\ Len(rest) = 0
        BY <2>1
      <4>2. Offset[served] \in Nat
        BY <1>0, OffsetFacts
      <4> QED BY <4>1, <4>2, BaseFacts
    <3>5. ~(served < sent)
      <4> SUFFICES ASSUME served < sent PROVE FALSE
        OBVIOUS
      <4>1. /\ Offset[served + 1] = Offset[served] + Len(Asked) /\ Len(Asked) \in Nat
            /\ Start(Asked) \in 2 .. Len(Asked)
        BY AskedFacts
      <4>2. Offset[served + 1] <= Offset[sent]
        <5>1. served + 1 \in 0 .. Len(script) /\ served + 1 <= sent
          BY <1>0
        <5> QED BY <1>0, <5>1, OffsetFacts
      <4>3. Len(Asked) >= 2
        BY <4>1
      <4>4. Offset[served] = Offset[sent]
        BY <1>0, <3>2, <3>4
      <4> QED BY <3>4, <4>1, <4>2, <4>3, <4>4
    <3> QED BY <1>0, <3>3, <3>5
  <2> QED BY <1>1, <2>1, <2>2
<1>6. CASE Respond
  <2>1. phase = "write" /\ served' = served + 1 /\ phase' = NextPhase
    BY <1>6 DEF Respond
  <2>2. served < sent /\ taken = HeadersOf(Asked) /\ line = LineOf(Asked)
    BY <2>1 DEF AskedInv
  <2>3. KeepAlive <=> ~LastOne(Asked)
    BY <2>2, AskedFacts, KeepAliveIsAsked
  <2>4. script'[served'] = Asked /\ served' > 0
    BY <1>0, <1>s, <2>1 DEF Asked
  <2>5. phase' = IF LastOne(Asked) THEN "ended" ELSE "line"
    BY <2>1, <2>3 DEF NextPhase
  <2> QED BY <2>4, <2>5 DEF ClosesWhenAsked
<1> QED BY <1>2, <1>3, <1>4, <1>5, <1>6 DEF Next, Server

LEMMA HttpStep ==
    ASSUME HttpInv, [Next]_vars
    PROVE  HttpInv'
<1>1. BaseInv /\ BaseInv'
  BY BaseStep DEF HttpInv
<1>2. CASE ~Framed'
  BY <1>1, <1>2 DEF HttpInv, ClosesWhenAsked
<1>3. CASE Framed'
  <2>1. Framed
    BY <1>3, FramedKept
  <2>2. ChunkInv /\ LineInv /\ HeadersInv /\ AskedInv /\ ClosesWhenAsked
    BY <2>1 DEF HttpInv
  <2>3. ChunkInv'
    BY <1>1, <1>3, <2>2, ChunkStep
  <2>4. LineInv'
    BY <1>1, <1>3, <2>1, <2>2, LineStep
  <2>5. HeadersInv'
    BY <1>1, <1>3, <2>1, <2>2, HeadersStep
  <2>6. AskedInv'
    BY <1>1, <1>3, <2>1, <2>2, AskedStep
  <2>7. ClosesWhenAsked'
    BY <1>1, <1>3, <2>1, <2>2, ClosesStep
  <2> QED BY <1>1, <2>3, <2>4, <2>5, <2>6, <2>7 DEF HttpInv
<1> QED BY <1>2, <1>3

LEMMA HttpInvariant == Spec => []HttpInv
<1>1. Init => HttpInv
  BY HttpInit
<1>2. HttpInv /\ [Next]_vars => HttpInv'
  BY HttpStep
<1> QED BY <1>1, <1>2, PTL DEF Spec

(* Every variable keeps its type, and neither read of a request keeps more  *)
(* than its limit (read_until_limited, read_headers_limited), whatever the  *)
(* peer sends and however the stream is cut.                                *)
THEOREM HttpTypeOK == Spec => []TypeOK
<1>1. HttpInv => TypeOK
  BY DEF HttpInv, BaseInv
<1> QED BY <1>1, HttpInvariant, PTL

(* The loop stays in step with the peer: when it starts on a request it has *)
(* consumed exactly the requests it answered (read_request,                 *)
(* read_headers_limited), while no chunk ends inside a terminator and       *)
(* requests have headers.                                                   *)
THEOREM LoopStaysInStep == Spec => []InStep
<1>1. HttpInv => InStep
  <2> SUFFICES ASSUME HttpInv, Framed, phase = "line", taken = <<>>
               PROVE  consumed = Offset[served]
    BY DEF InStep
  <2>1. consumed = Offset[served] + Len(taken) /\ Len(taken) = 0
    BY DEF HttpInv, LineInv
  <2>2. Offset[served] \in Nat
    BY BaseFacts, OffsetFacts DEF HttpInv
  <2> QED BY <2>1, <2>2
<1> QED BY <1>1, HttpInvariant, PTL

(* A connection that the peer asked to close is closed after that response, *)
(* and so is one over which a request of another version than 1.0 and 1.1   *)
(* came; any other stays open until the peer closes it (serve_one,          *)
(* read_request).                                                           *)
THEOREM ClosesAsAsked == Spec => []ClosesWhenAsked
<1>1. HttpInv => ClosesWhenAsked
  BY DEF HttpInv
<1> QED BY <1>1, HttpInvariant, PTL

(* What a lookup of the target can lead to: an error, or content that is a  *)
(* listing only where listings are allowed and that of the resolved target  *)
(* unless that was replaced.                                                *)
LEMMA TargetContent ==
    ASSUME NEW seen \in Targets, NEW opened \in Targets, NEW r \in FromTarget(seen, opened)
    PROVE  \/ \E n \in {403, 404, 500} : r = ErrorResponse(n)
           \/ \E n, from, moved : /\ r = OkResponse(n, from, moved)
                                  /\ from \in Dirs => listing
                                  /\ ~moved => from = Resolved
<1> DEFINE moved == seen # Resolved \/ opened # Resolved
<1>1. ~moved => opened = Resolved
  OBVIOUS
<1>2. "file" \notin Dirs /\ "outside file" \notin Dirs
  BY DEF Dirs
<1> HIDE DEF moved
<1>3. CASE seen \in Dirs /\ listing
  <2>1. r \in RenderDirectoryListing(opened, moved)
    BY <1>3 DEF FromTarget, moved
  <2> QED BY <1>1, <1>3, <2>1 DEF RenderDirectoryListing
<1>4. CASE seen \in Dirs /\ ~listing
  BY <1>4 DEF FromTarget
<1>5. CASE seen \notin Dirs
  <2>1. r \in ReadFile(opened, moved) \/ r = ErrorResponse(404)
    BY <1>5 DEF FromTarget, moved
  <2>2. CASE r = ErrorResponse(404)
    BY <2>2
  <2>3. CASE r \in ReadFile(opened, moved) /\ r # ErrorResponse(404)
    <3>1. opened \in Files /\ \E n \in FileSizes : r = OkResponse(n, opened, moved)
      BY <2>3 DEF ReadFile
    <3>2. opened \notin Dirs
      BY <1>2, <3>1 DEF Files
    <3> QED BY <1>1, <3>1, <3>2
  <2> QED BY <2>1, <2>2, <2>3
<1> QED BY <1>3, <1>4, <1>5

(* A response announces the length its body has and tells the peer what     *)
(* becomes of the connection; it has content only for a path that was       *)
(* inside root_dir when it was resolved, a listing only where listings are  *)
(* allowed, and the content is that of what the request names unless it was *)
(* replaced after the check (build_response, error_response).               *)
THEOREM ResponsesAreFramed == Spec => []ResponsesFramed
<1>1. HttpInv => ResponsesFramed
  <2> SUFFICES ASSUME HttpInv, Framed, phase = "write" PROVE ResponsesFramed
    BY DEF ResponsesFramed
  <2>1. BaseInv /\ response \in BuildResponse
    BY DEF HttpInv, BaseInv
  <2>2. served < sent /\ taken = HeadersOf(Asked) /\ line = LineOf(Asked)
    BY DEF HttpInv, AskedInv
  <2>3. IsRequest(Asked)
    BY <2>1, <2>2, AskedFacts
  <2>4. KeepAlive <=> ~LastOne(Asked)
    BY <2>2, <2>3, KeepAliveIsAsked
  <2>5. \A x \in LineBytes : x \in line <=> x \in Range(Asked)
    BY <2>2, <2>3, LineSays
  <2>6. \A x \in {"h", "p", "e", "m", "u", "d"} : x \in line <=> x \in Range(Asked)
    BY <2>5 DEF LineBytes
  <2>7. ASSUME NEW n, NEW from, NEW moved, response = OkResponse(n, from, moved)
        PROVE  /\ response.body = IF "h" \in line THEN 0 ELSE response.length
               /\ response.close <=> ~KeepAlive
               /\ response.from = from /\ response.moved = moved
    BY <2>7 DEF OkResponse
  <2>8. ASSUME NEW n, response = ErrorResponse(n)
        PROVE  /\ response.body = IF "h" \in line THEN 0 ELSE response.length
               /\ response.close <=> ~KeepAlive
               /\ response.status = n
    BY <2>8 DEF ErrorResponse
  <2>9. \/ \E n \in {400, 403, 404, 405, 500} : response = ErrorResponse(n)
        \/ /\ "p" \notin line /\ "e" \notin line /\ "m" \notin line /\ "u" \notin line
           /\ \E seen, opened \in Targets : response \in FromTarget(seen, opened)
    BY <2>1 DEF BuildResponse, FromFileSystem, PercentDecodes
  <2>10. \/ \E n \in {400, 403, 404, 405, 500} : response = ErrorResponse(n)
         \/ /\ "p" \notin line /\ "e" \notin line /\ "m" \notin line /\ "u" \notin line
            /\ \E n, from, moved : /\ response = OkResponse(n, from, moved)
                                   /\ from \in Dirs => listing
                                   /\ ~moved => from = Resolved
    BY <2>9, TargetContent
  <2>11. CASE \E n \in {400, 403, 404, 405, 500} : response = ErrorResponse(n)
    <3>1. /\ response.body = IF "h" \in line THEN 0 ELSE response.length
          /\ response.close <=> ~KeepAlive
          /\ response.status \in {400, 403, 404, 405, 500}
      BY <2>8, <2>11
    <3>2. response.status # 200
      BY <3>1
    <3> QED BY <2>4, <2>6, <3>1, <3>2 DEF ResponsesFramed, Asked
  <2>12. CASE /\ "p" \notin line /\ "e" \notin line /\ "m" \notin line /\ "u" \notin line
              /\ \E n, from, moved : /\ response = OkResponse(n, from, moved)
                                     /\ from \in Dirs => listing
                                     /\ ~moved => from = Resolved
    <3>1. PICK n, from, moved : /\ response = OkResponse(n, from, moved)
                                /\ from \in Dirs => listing
                                /\ ~moved => from = Resolved
      BY <2>12
    <3>2. /\ response.body = IF "h" \in line THEN 0 ELSE response.length
          /\ response.close <=> ~KeepAlive
          /\ response.from = from /\ response.moved = moved
      BY <2>7, <3>1
    <3>3. /\ response.from \in Dirs => listing
          /\ ~response.moved => response.from = IF "d" \in Range(Asked) THEN "dir" ELSE "file"
      BY <2>6, <3>1, <3>2 DEF Resolved
    <3>4. Range(Asked) \cap {"p", "e", "m", "u"} = {}
      BY <2>6, <2>12
    <3> QED BY <2>4, <2>6, <3>2, <3>3, <3>4 DEF ResponsesFramed, Asked
  <2> QED BY <2>10, <2>11, <2>12
<1> QED BY <1>1, HttpInvariant, PTL

-----------------------------------------------------------------------------
(***************************************************************************)
(* The frame codec.                                                        *)
(***************************************************************************)

(* Parts of a concatenation. *)
LEMMA PartOf ==
    ASSUME NEW S, NEW a \in Seq(S), NEW b \in Seq(S), NEW c \in Seq(S)
    PROVE  /\ a \o (b \o c) \in Seq(S) /\ Len(a \o (b \o c)) = Len(a) + (Len(b) + Len(c))
           /\ \A i \in 1 .. Len(b) : (a \o (b \o c))[Len(a) + i] = b[i]
           /\ SubSeq(a \o (b \o c), Len(a) + 1, Len(a) + Len(b)) = b
<1> DEFINE t == b \o c
           s == a \o t
<1>0. Len(a) \in Nat /\ Len(b) \in Nat /\ Len(c) \in Nat
  OBVIOUS
<1>1. t \in Seq(S) /\ Len(t) = Len(b) + Len(c) /\ \A i \in 1 .. Len(b) : t[i] = b[i]
  OBVIOUS
<1> HIDE DEF t
<1>2. s \in Seq(S) /\ Len(s) = Len(a) + Len(t)
  BY <1>1, ConcatProperties
<1>3. ASSUME NEW i \in 1 .. Len(b) PROVE s[Len(a) + i] = b[i]
  <2>1. i \in 1 .. Len(t)
    BY <1>0, <1>1
  <2>2. s[Len(a) + i] = t[i]
    BY <1>0, <1>1, <2>1
  <2> QED BY <1>1, <2>2
<1> HIDE DEF s
<1>4. SubSeq(s, Len(a) + 1, Len(a) + Len(b)) = b
  <2> DEFINE w == SubSeq(s, Len(a) + 1, Len(a) + Len(b))
  <2>1. Len(a) + Len(b) <= Len(s)
    BY <1>0, <1>1, <1>2
  <2>2. w \in Seq(S) /\ Len(w) = Len(b)
    BY <1>0, <1>2, <2>1
  <2>3. \A i \in 1 .. Len(b) : w[i] = s[Len(a) + i]
    BY <1>0, <1>2, <2>1
  <2> HIDE DEF w
  <2>4. w = b
    BY <1>3, <2>2, <2>3, SeqEqual
  <2> QED BY <2>4 DEF w
<1> QED BY <1>1, <1>2, <1>3, <1>4 DEF s, t

LEMMA PartOfAt ==
    ASSUME NEW a \in Seq(Nat), NEW b \in Seq(Nat), NEW c \in Seq(Nat), NEW i \in 1 .. Len(b)
    PROVE  (a \o (b \o c))[Len(a) + i] = b[i]
<1> DEFINE t == b \o c
<1>1. t \in Seq(Nat) /\ Len(t) = Len(b) + Len(c) /\ t[i] = b[i]
  OBVIOUS
<1>2. i \in 1 .. Len(t)
  BY <1>1
<1> HIDE DEF t
<1>3. (a \o t)[Len(a) + i] = t[i]
  BY <1>1, <1>2
<1> QED BY <1>1, <1>3 DEF t

(* A u16 and back. *)
LEMMA U16Back ==
    ASSUME NEW n \in Nat, NEW a \in Seq(Nat), NEW c \in Seq(Nat)
    PROVE  /\ ToU16(n) \in Seq(Nat) /\ Len(ToU16(n)) = 2
           /\ U16At(a \o (ToU16(n) \o c), Len(a) + 1) = n
<1>1. Base \in Nat /\ Base > 31
  BY FramesAssumption
<1> DEFINE x == n % Base
           y == n \div Base
<1>2. x \in Nat /\ y \in Nat /\ x + Base * y = n
  BY <1>1
<1> HIDE DEF x, y
<1> DEFINE u == <<x, y>>
<1>3. u \in Seq(Nat) /\ Len(u) = 2 /\ u[1] = x /\ u[2] = y
  BY <1>2
<1>4. ToU16(n) = u
  BY DEF ToU16, x, y
<1> HIDE DEF u
<1> DEFINE s == a \o (u \o c)
<1>5. \A i \in 1 .. Len(u) : s[Len(a) + i] = u[i]
  <2>1. u \in Seq(Nat)
    BY <1>3
  <2> QED BY <2>1, PartOfAt, Zenon
<1>6. s[Len(a) + 1] = x /\ s[Len(a) + 2] = y
  <2>1. 1 \in 1 .. Len(u) /\ 2 \in 1 .. Len(u)
    BY <1>3
  <2> HIDE DEF s
  <2>2. s[Len(a) + 1] = u[1] /\ s[Len(a) + 2] = u[2]
    BY <1>5, <2>1
  <2> QED BY <1>3, <2>2
<1>7. (Len(a) + 1) + 1 = Len(a) + 2
  OBVIOUS
<1> HIDE DEF s
<1>8. U16At(s, Len(a) + 1) = n
  BY <1>2, <1>6, <1>7 DEF U16At
<1> QED BY <1>3, <1>4, <1>8 DEF s

(* Every kind has a tag of its own. *)
LEMMA TagsDiffer ==
    /\ DOMAIN Tags = {"AuthNonce", "AuthProof", "AuthOk", "AuthErr", "DataOpen", "AuthHello", "Hello",
                      "HelloOk", "Register", "RegisterOk", "Subscribe", "SubscribeOk", "Heartbeat",
                      "ControlError"}
    /\ \A k \in DOMAIN Tags : Tags[k] \in Nat
    /\ \A k, l \in DOMAIN Tags : Tags[k] = Tags[l] => k = l
BY DEF Tags

LEMMA DecodeByKind ==
    ASSUME NEW k \in DOMAIN Tags, NEW p
    PROVE  Decode(Tags[k], p) = DecodeKind(k, p)
<1> DEFINE kinds == {l \in DOMAIN Tags : Tags[l] = Tags[k]}
<1>1. kinds = {k}
  BY TagsDiffer, Zenon
<1>2. (CHOOSE l \in kinds : TRUE) = k
  BY <1>1
<1> QED BY <1>1, <1>2 DEF Decode

(* The parts of a frame. *)
LEMMA FrameParts ==
    ASSUME NEW f \in Frame
    PROVE  /\ f.kind \in DOMAIN Tags /\ f.code \in Nat
           /\ f = [kind |-> f.kind, code |-> f.code, parts |-> f.parts]
           /\ f.kind \in {"AuthHello", "AuthOk", "Heartbeat"} => f.code = 0 /\ f.parts = <<>>
           /\ f.kind \in {"AuthNonce", "AuthProof"} =>
                /\ f.code = 0 /\ f.parts = <<f.parts[1]>>
                /\ f.parts[1] \in Seq(Byte) /\ Len(f.parts[1]) = MacLength
           /\ f.kind \in Json =>
                /\ f.code = 0 /\ f.parts = <<f.parts[1]>> /\ f.parts[1] \in Seq(Byte) /\ Utf8(f.parts[1])
           /\ f.kind \in {"AuthErr", "ControlError"} =>
                /\ f.parts = <<f.parts[1]>> /\ f.parts[1] \in Seq(Byte) /\ Utf8(f.parts[1])
           /\ f.kind = "DataOpen" =>
                /\ f.code = 0 /\ f.parts = <<f.parts[1], f.parts[2], f.parts[3], f.parts[4]>>
                /\ f.parts[1] \in Seq(Byte) /\ f.parts[2] \in Seq(Byte)
                /\ f.parts[3] \in Seq(Byte) /\ f.parts[4] \in Seq(Byte) /\ Len(f.parts[4]) = MacLength
                /\ Utf8(f.parts[1]) /\ Utf8(f.parts[2]) /\ Utf8(f.parts[3])
<1>0. /\ f \in [kind : DOMAIN Tags, code : Nat, parts : Seq(Seq(Byte))]
      /\ f.code \in CodesOf(f.kind) /\ f.parts \in PartsOf(f.kind)
  BY DEF Frame
<1>1. f = [kind |-> f.kind, code |-> f.code, parts |-> f.parts] /\ f.kind \in DOMAIN Tags /\ f.code \in Nat
  BY <1>0
<1>2. ASSUME f.kind \in {"AuthHello", "AuthOk", "Heartbeat"} PROVE f.code = 0 /\ f.parts = <<>>
  BY <1>0, <1>2 DEF CodesOf, PartsOf, Json
<1>t. /\ \A t \in Texts : t \in Seq(Byte) /\ Utf8(t)
      /\ \A t \in Macs : t \in Seq(Byte) /\ Len(t) = MacLength
  BY DEF Texts, Macs
<1>3. ASSUME NEW T, f.parts \in [1 .. 1 -> T] PROVE f.parts = <<f.parts[1]>> /\ f.parts[1] \in T
  BY <1>3
<1>4. ASSUME f.kind \in {"AuthNonce", "AuthProof"} PROVE f.code = 0 /\ f.parts \in [1 .. 1 -> Macs]
  BY <1>0, <1>4 DEF CodesOf, PartsOf, Json
<1>5. ASSUME f.kind \in Json PROVE f.code = 0 /\ f.parts \in [1 .. 1 -> Texts]
  BY <1>0, <1>5 DEF CodesOf, PartsOf, Json
<1>6. ASSUME f.kind \in {"AuthErr", "ControlError"} PROVE f.parts \in [1 .. 1 -> Texts]
  BY <1>0, <1>6 DEF PartsOf, Json
<1>7. ASSUME f.kind = "DataOpen" PROVE f.code = 0 /\ f.parts \in Texts \X Texts \X Texts \X Macs
  BY <1>0, <1>7 DEF CodesOf, PartsOf, Json
<1>8. ASSUME f.kind = "DataOpen"
      PROVE  /\ f.parts = <<f.parts[1], f.parts[2], f.parts[3], f.parts[4]>>
             /\ f.parts[1] \in Texts /\ f.parts[2] \in Texts /\ f.parts[3] \in Texts /\ f.parts[4] \in Macs
  BY <1>7, <1>8
<1> QED BY <1>1, <1>2, <1>t, <1>3, <1>4, <1>5, <1>6, <1>7, <1>8

(* Concatenations of bytes; the provers get at Join only by these facts. *)
Join(s, t) == s \o t

LEMMA JoinSeq ==
    ASSUME NEW s \in Seq(Nat), NEW t \in Seq(Nat)
    PROVE  Join(s, t) \in Seq(Nat) /\ Len(Join(s, t)) = Len(s) + Len(t)
BY DEF Join

LEMMA JoinAt ==
    ASSUME NEW s \in Seq(Nat), NEW t \in Seq(Nat), NEW i \in 1 .. Len(s)
    PROVE  Join(s, t)[i] = s[i]
BY DEF Join

LEMMA JoinJoin ==
    ASSUME NEW s \in Seq(Nat), NEW t \in Seq(Nat), NEW u \in Seq(Nat)
    PROVE  Join(Join(s, t), u) = Join(s, Join(t, u))
<1> DEFINE v == (s \o t) \o u
           w == s \o (t \o u)
<1>1. v \in Seq(Nat) /\ w \in Seq(Nat) /\ Len(v) = Len(w) /\ \A i \in 1 .. Len(v) : v[i] = w[i]
  OBVIOUS
<1> HIDE DEF v, w
<1>2. v = w
  BY <1>1, SeqEqual
<1> QED BY <1>2 DEF v, w, Join

LEMMA JoinEmpty ==
    ASSUME NEW s \in Seq(Nat)
    PROVE  Join(s, <<>>) = s /\ Join(<<>>, s) = s
BY ConcatEmptySeq, Zenon DEF Join

LEMMA JoinPart ==
    ASSUME NEW a \in Seq(Nat), NEW b \in Seq(Nat), NEW c \in Seq(Nat)
    PROVE  SubSeq(Join(a, Join(b, c)), Len(a) + 1, Len(a) + Len(b)) = b
BY PartOf, Zenon DEF Join

LEMMA JoinU16 ==
    ASSUME NEW n \in Nat, NEW a \in Seq(Nat), NEW c \in Seq(Nat)
    PROVE  U16At(Join(a, Join(ToU16(n), c)), Len(a) + 1) = n
BY U16Back DEF Join

LEMMA JoinCancels ==
    ASSUME NEW a \in Seq(Nat), NEW b \in Seq(Nat), NEW c \in Seq(Nat), Join(a, b) = Join(a, c)
    PROVE  b = c
<1>1. \A s, t, v \in Seq(Nat) : s \o t = s \o v => t = v
  BY ConcatSimplifications, Zenon
<1> QED BY <1>1 DEF Join

(* Equal concatenations whose first parts have equal lengths. *)
LEMMA JoinSplits ==
    ASSUME NEW a \in Seq(Nat), NEW b \in Seq(Nat), NEW c \in Seq(Nat), NEW d \in Seq(Nat),
           Join(a, b) = Join(c, d), Len(a) = Len(c)
    PROVE  a = c /\ b = d
<1>1. \A i \in 1 .. Len(a) : a[i] = c[i]
  <2> TAKE i \in 1 .. Len(a)
  <2>1. Join(a, b)[i] = a[i] /\ Join(c, d)[i] = c[i]
    BY JoinAt
  <2> QED BY <2>1
<1>2. a = c
  BY <1>1, SeqEqual
<1> QED BY <1>2, JoinCancels

(* The two parts of a sequence. *)
LEMMA JoinParts ==
    ASSUME NEW s \in Seq(Nat), NEW n \in 0 .. Len(s)
    PROVE  /\ SubSeq(s, 1, n) \in Seq(Nat) /\ Len(SubSeq(s, 1, n)) = n
           /\ SubSeq(s, n + 1, Len(s)) \in Seq(Nat) /\ Len(SubSeq(s, n + 1, Len(s))) = Len(s) - n
           /\ s = Join(SubSeq(s, 1, n), SubSeq(s, n + 1, Len(s)))
<1> DEFINE a == SubSeq(s, 1, n)
           b == SubSeq(s, n + 1, Len(s))
<1>0. Len(s) \in Nat /\ n \in Nat
  OBVIOUS
<1>1. a \in Seq(Nat) /\ Len(a) = n /\ \A i \in 1 .. n : a[i] = s[i]
  OBVIOUS
<1>2. b \in Seq(Nat) /\ Len(b) = Len(s) - n
  OBVIOUS
<1>3. \A i \in 1 .. Len(s) - n : b[i] = s[n + i]
  OBVIOUS
<1> HIDE DEF a, b
<1>4. a \o b \in Seq(Nat) /\ Len(a \o b) = Len(s)
  <2>1. Join(a, b) \in Seq(Nat) /\ Len(Join(a, b)) = Len(a) + Len(b)
    BY <1>1, <1>2, JoinSeq
  <2> QED BY <1>0, <1>1, <1>2, <2>1 DEF Join
<1>5. ASSUME NEW i \in 1 .. Len(s) PROVE (a \o b)[i] = s[i]
  <2>1. (a \o b)[i] = IF i <= n THEN a[i] ELSE b[i - n]
    BY <1>0, <1>1, <1>2
  <2>2. CASE i <= n
    BY <1>0, <1>1, <2>1, <2>2
  <2>3. CASE ~(i <= n)
    <3>1. i - n \in 1 .. Len(s) - n /\ n + (i - n) = i
      BY <1>0, <2>3
    <3> QED BY <1>3, <2>1, <2>3, <3>1
  <2> QED BY <2>2, <2>3
<1>6. a \o b = s
  BY <1>4, <1>5, SeqEqual
<1> QED BY <1>1, <1>2, <1>6 DEF a, b, Join

LEMMA PrefixJoin ==
    ASSUME NEW s \in Seq(Nat), NEW t \in Seq(Nat)
    PROVE  IsPrefix(s, t) <=> \E u \in Seq(Nat) : t = Join(s, u)
<1>0. Len(s) \in Nat /\ Len(t) \in Nat /\ SubSeq(s, 1, Len(s)) = s
  BY SubSeqFull
<1>1. ASSUME IsPrefix(s, t) PROVE \E u \in Seq(Nat) : t = Join(s, u)
  <2>1. Len(s) \in 0 .. Len(t) /\ s = SubSeq(t, 1, Len(s))
    BY <1>0, <1>1 DEF IsPrefix
  <2> DEFINE n == Len(s)
  <2>2. n \in 0 .. Len(t) /\ s = SubSeq(t, 1, n)
    BY <2>1
  <2> HIDE DEF n
  <2>3. SubSeq(t, n + 1, Len(t)) \in Seq(Nat) /\ t = Join(SubSeq(t, 1, n), SubSeq(t, n + 1, Len(t)))
    BY <2>2, JoinParts
  <2> QED BY <2>2, <2>3
<1>2. ASSUME NEW u \in Seq(Nat), t = Join(s, u) PROVE IsPrefix(s, t)
  <2>1. Len(t) = Len(s) + Len(u) /\ Len(u) \in Nat
    BY <1>2, JoinSeq
  <2>2. Len(s) \in 0 .. Len(t)
    BY <1>0, <2>1
  <2> DEFINE a == SubSeq(t, 1, Len(s))
             b == SubSeq(t, Len(s) + 1, Len(t))
  <2>3. a \in Seq(Nat) /\ Len(a) = Len(s) /\ b \in Seq(Nat) /\ t = Join(a, b)
    BY <2>2, JoinParts
  <2> HIDE DEF a, b
  <2>4. a = s
    BY <1>2, <2>3, JoinSplits
  <2> QED BY <1>0, <2>2, <2>4 DEF IsPrefix, a
<1> QED BY <1>1, <1>2

(* A sized string in a payload, between what is before and after it. *)
LEMMA SizedBack ==
    ASSUME NEW a \in Seq(Nat), NEW t \in Seq(Nat), NEW r \in Seq(Nat)
    PROVE  /\ U16At(Join(a, Join(Sized(t), r)), Len(a) + 1) = Len(t)
           /\ SubSeq(Join(a, Join(Sized(t), r)), Len(a) + 3, Len(a) + 2 + Len(t)) = t
           /\ Sized(t) \in Seq(Nat) /\ Len(Sized(t)) = 2 + Len(t)
           /\ Join(a, Sized(t)) \in Seq(Nat) /\ Len(Join(a, Sized(t))) = Len(a) + 2 + Len(t)
<1> DEFINE u == ToU16(Len(t))
           tr == Join(t, r)
           au == Join(a, u)
           p == Join(a, Join(Sized(t), r))
<1>0. Len(a) \in Nat /\ Len(t) \in Nat /\ Len(r) \in Nat
  OBVIOUS
<1>1. u \in Seq(Nat) /\ Len(u) = 2
  BY <1>0, U16Back
<1>2. Sized(t) = Join(u, t)
  BY DEF Sized, Join
<1>3. tr \in Seq(Nat)
  BY JoinSeq
<1>4. U16At(Join(a, Join(u, tr)), Len(a) + 1) = Len(t)
  <2> HIDE DEF tr
  <2> QED BY <1>0, <1>3, JoinU16
<1> HIDE DEF u
<1>5. Sized(t) \in Seq(Nat) /\ Len(Sized(t)) = 2 + Len(t)
  BY <1>1, <1>2, JoinSeq
<1>6. Join(Sized(t), r) = Join(u, tr)
  BY <1>1, <1>2, JoinJoin
<1>7. au \in Seq(Nat) /\ Len(au) = Len(a) + 2
  <2>1. au \in Seq(Nat) /\ Len(au) = Len(a) + Len(u)
    BY <1>1, JoinSeq
  <2> QED BY <1>1, <2>1
<1>8. p = Join(au, tr)
  <2> HIDE DEF tr
  <2> QED BY <1>1, <1>3, <1>6, JoinJoin
<1>9. SubSeq(p, Len(a) + 3, Len(a) + 2 + Len(t)) = t
  <2> HIDE DEF au, p
  <2>1. SubSeq(Join(au, tr), Len(au) + 1, Len(au) + Len(t)) = t
    BY <1>7, JoinPart
  <2>2. Len(au) + 1 = Len(a) + 3 /\ Len(au) + Len(t) = Len(a) + 2 + Len(t)
    BY <1>0, <1>7
  <2> QED BY <1>8, <2>1, <2>2
<1>10. Join(a, Sized(t)) \in Seq(Nat) /\ Len(Join(a, Sized(t))) = Len(a) + 2 + Len(t)
  <2>1. Join(a, Sized(t)) \in Seq(Nat) /\ Len(Join(a, Sized(t))) = Len(a) + Len(Sized(t))
    BY <1>5, JoinSeq
  <2> QED BY <1>0, <1>5, <2>1
<1> QED BY <1>4, <1>5, <1>6, <1>9, <1>10

(* The three strings and the proof of a DataOpen. *)
LEMMA DataOpenBack ==
    ASSUME NEW t1 \in Seq(Nat), NEW t2 \in Seq(Nat), NEW t3 \in Seq(Nat), NEW m \in Seq(Nat),
           Utf8(t1), Utf8(t2), Utf8(t3), Len(m) = MacLength
    PROVE  /\ Sized(t1) \o Sized(t2) \o Sized(t3) \o m \in Seq(Nat)
           /\ DecodeDataOpen(Sized(t1) \o Sized(t2) \o Sized(t3) \o m) =
                [kind |-> "DataOpen", code |-> 0, parts |-> <<t1, t2, t3, m>>]
<1> DEFINE n1 == Len(t1)  n2 == Len(t2)  n3 == Len(t3)
           s1 == Sized(t1)  s2 == Sized(t2)  s3 == Sized(t3)
           a2 == Join(s1, s2)
           a3 == Join(a2, s3)
           p == Join(a3, m)
           r2 == Join(s3, m)
           r1 == Join(s2, r2)
<1>0. n1 \in Nat /\ n2 \in Nat /\ n3 \in Nat /\ MacLength \in Nat
  BY FramesAssumption
<1>e. <<>> \in Seq(Nat) /\ Len(<<>>) = 0
  OBVIOUS
<1>1. s1 \in Seq(Nat) /\ s2 \in Seq(Nat) /\ s3 \in Seq(Nat) /\ Len(s1) = 2 + n1
  BY SizedBack
<1>2. a2 \in Seq(Nat) /\ r2 \in Seq(Nat)
  <2> HIDE DEF s1, s2, s3
  <2> QED BY <1>1, JoinSeq
<1>3. a3 \in Seq(Nat) /\ r1 \in Seq(Nat)
  <2> HIDE DEF s1, s2, s3, a2, r2
  <2> QED BY <1>1, <1>2, JoinSeq
<1>4. p \in Seq(Nat) /\ Len(p) = Len(a3) + MacLength
  <2> HIDE DEF a3
  <2> QED BY <1>3, JoinSeq
<1>5. p = Join(a2, r2)
  <2> HIDE DEF s3, a2
  <2> QED BY <1>1, <1>2, JoinJoin
<1>6. p = Join(s1, r1)
  <2> HIDE DEF s1, s2, r2, p
  <2>1. Join(Join(s1, s2), r2) = Join(s1, Join(s2, r2))
    BY <1>1, <1>2, JoinJoin
  <2> QED BY <1>5, <2>1
<1>7. p = Join(<<>>, Join(s1, r1))
  <2> HIDE DEF p, s1, r1
  <2> QED BY <1>4, <1>6, JoinEmpty
<1>8. U16At(p, 1) = n1 /\ SubSeq(p, 3, 2 + n1) = t1
  <2> HIDE DEF r1, p
  <2>1. /\ U16At(Join(<<>>, Join(Sized(t1), r1)), Len(<<>>) + 1) = n1
        /\ SubSeq(Join(<<>>, Join(Sized(t1), r1)), Len(<<>>) + 3, Len(<<>>) + 2 + n1) = t1
    <3>1. r1 \in Seq(Nat) /\ <<>> \in Seq(Nat)
      BY <1>3
    <3>2. U16At(Join(<<>>, Join(Sized(t1), r1)), Len(<<>>) + 1) = n1
      <4> DEFINE e == <<>>
      <4>1. e \in Seq(Nat)
        BY <3>1
      <4> HIDE DEF e
      <4>2. U16At(Join(e, Join(Sized(t1), r1)), Len(e) + 1) = n1
        BY <3>1, <4>1, SizedBack
      <4> QED BY <4>2 DEF e
    <3>3. SubSeq(Join(<<>>, Join(Sized(t1), r1)), Len(<<>>) + 3, Len(<<>>) + 2 + n1) = t1
      BY <3>1, SizedBack, Zenon
    <3> QED BY <3>2, <3>3
  <2>2. Len(<<>>) + 1 = 1 /\ Len(<<>>) + 3 = 3 /\ Len(<<>>) + 2 + n1 = 2 + n1
    BY <1>0, <1>e
  <2> QED BY <1>7, <2>1, <2>2
<1>9. /\ U16At(p, Len(s1) + 1) = n2 /\ SubSeq(p, Len(s1) + 3, Len(s1) + 2 + n2) = t2
      /\ Len(a2) = Len(s1) + 2 + n2
  <2> HIDE DEF s1, r2, p
  <2>1. s1 \in Seq(Nat) /\ r2 \in Seq(Nat)
    BY <1>1, <1>2
  <2>2. U16At(Join(s1, Join(Sized(t2), r2)), Len(s1) + 1) = n2
    BY <2>1, SizedBack
  <2>3. SubSeq(Join(s1, Join(Sized(t2), r2)), Len(s1) + 3, Len(s1) + 2 + n2) = t2
    BY <2>1, SizedBack, Zenon
  <2>4. Len(Join(s1, Sized(t2))) = Len(s1) + 2 + n2
    BY <2>1, SizedBack, Zenon
  <2> QED BY <1>6, <2>2, <2>3, <2>4, Zenon
<1>10. /\ U16At(p, Len(a2) + 1) = n3 /\ SubSeq(p, Len(a2) + 3, Len(a2) + 2 + n3) = t3
       /\ Len(a3) = Len(a2) + 2 + n3
  <2> HIDE DEF a2, p
  <2>1. a2 \in Seq(Nat)
    BY <1>2
  <2>2. /\ U16At(Join(a2, Join(Sized(t3), m)), Len(a2) + 1) = n3
        /\ SubSeq(Join(a2, Join(Sized(t3), m)), Len(a2) + 3, Len(a2) + 2 + n3) = t3
        /\ Len(Join(a2, Sized(t3))) = Len(a2) + 2 + n3
    BY <2>1, SizedBack, ZenonT(30)
  <2> QED BY <1>5, <2>2, Zenon
<1>11. SubSeq(p, Len(a3) + 1, Len(a3) + MacLength) = m
  <2> HIDE DEF a3
  <2>1. Join(m, <<>>) = m
    BY JoinEmpty
  <2>2. a3 \in Seq(Nat) /\ <<>> \in Seq(Nat)
    BY <1>e, <1>3
  <2>3. SubSeq(Join(a3, Join(m, <<>>)), Len(a3) + 1, Len(a3) + Len(m)) = m
    BY <2>2, JoinPart, Zenon
  <2> QED BY <2>1, <2>3, Zenon
<1>12. p = Sized(t1) \o Sized(t2) \o Sized(t3) \o m
  BY Zenon DEF Join
<1> HIDE DEF p, a2, a3, s1, s2, s3, r1, r2
<1> DEFINE svc_end == 2 + U16At(p, 1)
           prov_end == svc_end + 2 + U16At(p, svc_end + 1)
           cons_end == prov_end + 2 + U16At(p, prov_end + 1)
<1>13. svc_end = Len(s1) /\ prov_end = Len(a2) /\ cons_end = Len(a3)
  <2>1. svc_end = Len(s1)
    BY <1>1, <1>8
  <2>2. prov_end = Len(a2)
    BY <1>9, <2>1
  <2> QED BY <1>10, <2>1, <2>2
<1>14. /\ SubSeq(p, 3, svc_end) = t1 /\ SubSeq(p, svc_end + 3, prov_end) = t2
       /\ SubSeq(p, prov_end + 3, cons_end) = t3 /\ SubSeq(p, cons_end + 1, cons_end + MacLength) = m
  <2> HIDE DEF svc_end, prov_end, cons_end
  <2> QED BY <1>1, <1>8, <1>9, <1>10, <1>11, <1>13
<1>15. /\ ~(Len(p) < 2) /\ ~(Len(p) < svc_end + 4 + MacLength) /\ ~(Len(p) < prov_end)
       /\ ~(Len(p) < prov_end + 2) /\ ~(Len(p) < cons_end + MacLength)
  <2>1. /\ Len(s1) = 2 + n1 /\ Len(a2) = Len(s1) + 2 + n2 /\ Len(a3) = Len(a2) + 2 + n3
        /\ Len(p) = Len(a3) + MacLength
    BY <1>1, <1>4, <1>9, <1>10
  <2> HIDE DEF n1, n2, n3, svc_end, prov_end, cons_end
  <2> QED BY <1>0, <1>13, <2>1
<1>16. DecodeDataOpen(p) = [kind |-> "DataOpen", code |-> 0,
           parts |-> <<SubSeq(p, 3, svc_end), SubSeq(p, svc_end + 3, prov_end), SubSeq(p, prov_end + 3, cons_end),
                       SubSeq(p, cons_end + 1, cons_end + MacLength)>>]
  <2>1. Utf8(SubSeq(p, 3, svc_end)) /\ Utf8(SubSeq(p, svc_end + 3, prov_end))
        /\ Utf8(SubSeq(p, prov_end + 3, cons_end))
    BY <1>14
  <2> QED BY <1>15, <2>1, Zenon DEF DecodeDataOpen
<1> QED BY <1>4, <1>12, <1>14, <1>16

(* What encode_payload writes, kind by kind. *)
LEMMA PayloadOf ==
    ASSUME NEW f, f.kind \in DOMAIN Tags
    PROVE  /\ f.kind \in {"AuthHello", "AuthOk", "Heartbeat"} => EncodePayload(f) = <<>>
           /\ f.kind \in {"AuthNonce", "AuthProof"} \cup Json => EncodePayload(f) = f.parts[1]
           /\ f.kind = "AuthErr" => EncodePayload(f) = <<f.code>> \o f.parts[1]
           /\ f.kind = "ControlError" => EncodePayload(f) = ToU16(f.code) \o f.parts[1]
           /\ f.kind = "DataOpen" =>
                EncodePayload(f) = Sized(f.parts[1]) \o Sized(f.parts[2]) \o Sized(f.parts[3]) \o f.parts[4]
           /\ \/ f.kind \in {"AuthHello", "AuthOk", "Heartbeat"}
              \/ f.kind \in {"AuthNonce", "AuthProof"}
              \/ f.kind \in Json
              \/ f.kind = "AuthErr"
              \/ f.kind = "ControlError"
              \/ f.kind = "DataOpen"
<1>1. f.kind \in {"AuthHello", "AuthOk", "Heartbeat"} => EncodePayload(f) = <<>>
  BY DEF EncodePayload, Json
<1>2. f.kind \in {"AuthNonce", "AuthProof"} \cup Json => EncodePayload(f) = f.parts[1]
  BY DEF EncodePayload, Json
<1>3. f.kind = "AuthErr" => EncodePayload(f) = <<f.code>> \o f.parts[1]
  BY DEF EncodePayload, Json
<1>4. f.kind = "ControlError" => EncodePayload(f) = ToU16(f.code) \o f.parts[1]
  BY DEF EncodePayload, Json
<1>5. f.kind = "DataOpen" =>
        EncodePayload(f) = Sized(f.parts[1]) \o Sized(f.parts[2]) \o Sized(f.parts[3]) \o f.parts[4]
  BY DEF EncodePayload, Json
<1>6. \/ f.kind \in {"AuthHello", "AuthOk", "Heartbeat"}
      \/ f.kind \in {"AuthNonce", "AuthProof"}
      \/ f.kind \in Json
      \/ f.kind = "AuthErr"
      \/ f.kind = "ControlError"
      \/ f.kind = "DataOpen"
  BY TagsDiffer DEF Json
<1> QED BY <1>1, <1>2, <1>3, <1>4, <1>5, <1>6

LEMMA BytesAreNat ==
    ASSUME NEW s \in Seq(Byte)
    PROVE  s \in Seq(Nat)
<1>1. Byte \subseteq Nat
  BY FramesAssumption DEF Byte
<1> QED BY <1>1, SeqMonotonic

LEMMA TextFrame ==
    ASSUME NEW kind, NEW code, NEW t, Utf8(t)
    PROVE  FrameOf(kind, code, <<t>>) = [kind |-> kind, code |-> code, parts |-> <<t>>]
<1>1. \A i \in DOMAIN <<t>> : Utf8(<<t>>[i])
  OBVIOUS
<1> QED BY <1>1, Zenon DEF FrameOf

LEMMA EmptyFrame ==
    ASSUME NEW kind, NEW code
    PROVE  FrameOf(kind, code, <<>>) = [kind |-> kind, code |-> code, parts |-> <<>>]
<1>1. \A i \in DOMAIN <<>> : FALSE
  OBVIOUS
<1> QED BY <1>1 DEF FrameOf

(* decode gives back the frame that encode_payload was given. *)
LEMMA CodecBack ==
    ASSUME NEW f \in Frame
    PROVE  /\ EncodePayload(f) \in Seq(Nat)
           /\ Decode(Tags[f.kind], EncodePayload(f)) = f
           /\ f \notin {Err, Panic}
<1> DEFINE p == EncodePayload(f)
           t == f.parts[1]
<1>0. f.kind \in DOMAIN Tags /\ f.code \in Nat /\ f = [kind |-> f.kind, code |-> f.code, parts |-> f.parts]
  BY FrameParts
<1>1. f \notin {Err, Panic}
  <2>1. f.kind # "Err" /\ f.kind # "Panic"
    BY <1>0, TagsDiffer
  <2>2. Err.kind = "Err" /\ Panic.kind = "Panic"
    BY DEF Err, Panic
  <2> QED BY <2>1, <2>2
<1>2. Decode(Tags[f.kind], p) = DecodeKind(f.kind, p)
  BY <1>0, DecodeByKind
<1>3. CASE f.kind \in {"AuthHello", "AuthOk", "Heartbeat"}
  <2>1. f.code = 0 /\ f.parts = <<>>
    BY <1>3, FrameParts
  <2>2. p = <<>>
    BY <1>0, <1>3, PayloadOf
  <2> HIDE DEF p
  <2>3. DecodeKind(f.kind, p) = FrameOf(f.kind, 0, <<>>)
    BY <1>3, <2>2 DEF DecodeKind, Json
  <2>4. FrameOf(f.kind, 0, <<>>) = f
    BY <1>0, <2>1, EmptyFrame
  <2>5. p \in Seq(Nat)
    BY <2>2
  <2> QED BY <1>1, <1>2, <2>3, <2>4, <2>5 DEF p
<1>4. CASE f.kind \in {"AuthNonce", "AuthProof"}
  <2>1. f.code = 0 /\ f.parts = <<t>> /\ t \in Seq(Byte) /\ Len(t) = MacLength
    BY <1>4, FrameParts
  <2>2. p = t
    BY <1>0, <1>4, PayloadOf
  <2>3. t \in Seq(Nat)
    BY <2>1, BytesAreNat
  <2> HIDE DEF p, t
  <2>4. DecodeKind(f.kind, p) = [kind |-> f.kind, code |-> 0, parts |-> <<p>>]
    BY <1>4, <2>1, <2>2 DEF DecodeKind, Json
  <2> QED BY <1>0, <1>1, <1>2, <2>1, <2>2, <2>3, <2>4 DEF p
<1>5. CASE f.kind \in Json
  <2>1. f.code = 0 /\ f.parts = <<t>> /\ t \in Seq(Byte) /\ Utf8(t)
    BY <1>5, FrameParts
  <2>2. p = t
    BY <1>0, <1>5, PayloadOf
  <2>3. t \in Seq(Nat)
    BY <2>1, BytesAreNat
  <2> HIDE DEF p, t
  <2>4. DecodeKind(f.kind, p) = FrameOf(f.kind, 0, <<p>>)
    BY <1>5 DEF DecodeKind, Json
  <2>5. FrameOf(f.kind, 0, <<t>>) = f
    BY <1>0, <2>1, TextFrame
  <2> QED BY <1>0, <1>1, <1>2, <2>2, <2>3, <2>4, <2>5 DEF p
<1>6. CASE f.kind = "AuthErr"
  <2>1. f.parts = <<t>> /\ t \in Seq(Byte) /\ Utf8(t)
    BY <1>6, FrameParts
  <2>2. p = <<f.code>> \o t
    BY <1>0, <1>6, PayloadOf
  <2>3. t \in Seq(Nat)
    BY <2>1, BytesAreNat
  <2> DEFINE c == f.code
  <2>4. c \in Nat
    BY <1>0
  <2> HIDE DEF p, t, c
  <2>5. p \in Seq(Nat) /\ p # <<>> /\ p[1] = c /\ Tail(p) = t
    <3>1. p = <<c>> \o t
      BY <2>2 DEF c
    <3>2. p \in Seq(Nat) /\ Len(p) = 1 + Len(t) /\ p[1] = c
      BY <2>3, <2>4, <3>1
    <3>3. p # <<>>
      BY <2>3, <3>2
    <3>4. Tail(p) = t
      <4>1. Tail(p) \in Seq(Nat) /\ Len(Tail(p)) = Len(t)
        BY <2>3, <3>2, <3>3
      <4>2. \A i \in 1 .. Len(t) : Tail(p)[i] = t[i]
        BY <2>3, <2>4, <3>1, <3>2, <3>3
      <4> QED BY <2>3, <4>1, <4>2, SeqEqual
    <3> QED BY <3>2, <3>3, <3>4
  <2>6. DecodeKind(f.kind, p) = FrameOf(f.kind, c, <<t>>)
    BY <1>6, <2>5 DEF DecodeKind, Json
  <2>7. FrameOf(f.kind, c, <<t>>) = f
    BY <1>0, <2>1, TextFrame DEF c
  <2> QED BY <1>0, <1>1, <1>2, <2>5, <2>6, <2>7 DEF p
<1>7. CASE f.kind = "ControlError"
  <2>1. f.parts = <<t>> /\ t \in Seq(Byte) /\ Utf8(t)
    BY <1>7, FrameParts
  <2>2. p = ToU16(f.code) \o t
    BY <1>0, <1>7, PayloadOf
  <2>3. t \in Seq(Nat)
    BY <2>1, BytesAreNat
  <2> DEFINE c == f.code
             u == ToU16(c)
             e == <<>>
  <2>4. c \in Nat /\ u \in Seq(Nat) /\ Len(u) = 2 /\ e \in Seq(Nat) /\ Len(e) = 0
    BY <1>0, <2>3, U16Back
  <2>5. p = Join(u, t) /\ p = Join(e, Join(u, t)) /\ p = Join(u, Join(t, e)) /\ p \in Seq(Nat)
        /\ Len(p) = 2 + Len(t)
    <3>1. p = Join(u, t)
      BY <2>2 DEF Join
    <3> HIDE DEF p, t, u
    <3>2. p \in Seq(Nat) /\ Len(p) = 2 + Len(t)
      <4>1. t \in Seq(Nat) /\ u \in Seq(Nat) /\ Len(u) = 2
        BY <2>3, <2>4
      <4>2. Join(u, t) \in Seq(Nat) /\ Len(Join(u, t)) = Len(u) + Len(t)
        BY <4>1, JoinSeq
      <4> QED BY <3>1, <4>1, <4>2
    <3>3. Join(e, p) = p /\ Join(t, e) = t
      BY <2>3, <3>2, JoinEmpty
    <3> QED BY <3>1, <3>2, <3>3
  <2> HIDE DEF p, t, c, e
  <2>6. U16At(p, 1) = c
    <3>1. U16At(Join(e, Join(ToU16(c), t)), Len(e) + 1) = c
      BY <2>3, <2>4, JoinU16
    <3>2. Len(e) + 1 = 1
      BY <2>4
    <3> QED BY <2>5, <3>1, <3>2
  <2> HIDE DEF u
  <2>7. SubSeq(p, 3, Len(p)) = t
    <3>1. SubSeq(Join(u, Join(t, e)), Len(u) + 1, Len(u) + Len(t)) = t
      BY <2>3, <2>4, JoinPart
    <3>2. Len(u) + 1 = 3 /\ Len(u) + Len(t) = Len(p)
      BY <2>4, <2>5
    <3> QED BY <2>5, <3>1, <3>2
  <2>8. ~(Len(p) < 2)
    BY <2>3, <2>5
  <2>9. DecodeKind(f.kind, p) = FrameOf(f.kind, U16At(p, 1), <<SubSeq(p, 3, Len(p))>>)
    BY <1>7, <2>8 DEF DecodeKind, Json
  <2>10. FrameOf(f.kind, c, <<t>>) = f
    BY <1>0, <2>1, TextFrame DEF c
  <2> QED BY <1>0, <1>1, <1>2, <2>5, <2>6, <2>7, <2>9, <2>10 DEF p
<1>8. CASE f.kind = "DataOpen"
  <2> DEFINE t1 == f.parts[1]  t2 == f.parts[2]  t3 == f.parts[3]  m == f.parts[4]
  <2>1. /\ f.code = 0 /\ f.parts = <<t1, t2, t3, m>> /\ Len(m) = MacLength
        /\ t1 \in Seq(Byte) /\ t2 \in Seq(Byte) /\ t3 \in Seq(Byte) /\ m \in Seq(Byte)
        /\ Utf8(t1) /\ Utf8(t2) /\ Utf8(t3)
    BY <1>8, FrameParts
  <2>2. t1 \in Seq(Nat) /\ t2 \in Seq(Nat) /\ t3 \in Seq(Nat) /\ m \in Seq(Nat)
    BY <2>1, BytesAreNat
  <2>3. p = Sized(t1) \o Sized(t2) \o Sized(t3) \o m
    BY <1>0, <1>8, PayloadOf
  <2> HIDE DEF t1, t2, t3, m, p
  <2>4. p \in Seq(Nat) /\ DecodeDataOpen(p) = [kind |-> "DataOpen", code |-> 0, parts |-> <<t1, t2, t3, m>>]
    BY <2>1, <2>2, <2>3, DataOpenBack
  <2>5. DecodeKind(f.kind, p) = DecodeDataOpen(p)
    BY <1>8 DEF DecodeKind, Json
  <2> QED BY <1>0, <1>1, <1>2, <1>8, <2>1, <2>4, <2>5 DEF p
<1> QED BY <1>0, <1>3, <1>4, <1>5, <1>6, <1>7, <1>8, PayloadOf

(* The header that write_to writes before the payload. *)
LEMMA HeaderFacts ==
    ASSUME NEW f \in Frame
    PROVE  /\ Header(f) \in Seq(Nat) /\ Len(Header(f)) = 3 /\ Header(f) # <<>>
           /\ Header(f)[1] = Tags[f.kind]
           /\ U16At(Header(f), 2) = Len(EncodePayload(f))
<1> DEFINE n == Len(EncodePayload(f))
           a == <<Tags[f.kind]>>
           u == ToU16(n)
           e == <<>>
<1>0. n \in Nat
  BY CodecBack
<1>1. Tags[f.kind] \in Nat
  BY FrameParts, TagsDiffer
<1>2. a \in Seq(Nat) /\ Len(a) = 1 /\ a[1] = Tags[f.kind]
  BY <1>1
<1>3. u \in Seq(Nat) /\ Len(u) = 2 /\ e \in Seq(Nat)
  <2>1. e \in Seq(Nat)
    OBVIOUS
  <2> HIDE DEF n, e
  <2> QED BY <1>0, <2>1, U16Back
<1>4. Header(f) = a \o u
  BY DEF Header
<1> HIDE DEF n, a
<1>5. Join(u, e) = u
  <2> HIDE DEF u
  <2> QED BY <1>3, JoinEmpty
<1> HIDE DEF e
<1>6. U16At(Join(a, Join(u, e)), Len(a) + 1) = n
  BY <1>0, <1>2, <1>3, JoinU16
<1> HIDE DEF u
<1>7. Header(f) \in Seq(Nat) /\ Len(Header(f)) = 3 /\ Header(f)[1] = a[1]
  <2>0. a \in Seq(Nat) /\ u \in Seq(Nat) /\ Len(a) = 1 /\ Len(u) = 2
    BY <1>2, <1>3
  <2>1. a \o u \in Seq(Nat) /\ Len(a \o u) = 3
    <3>1. Join(a, u) \in Seq(Nat) /\ Len(Join(a, u)) = Len(a) + Len(u)
      BY <2>0, JoinSeq
    <3> QED BY <2>0, <3>1 DEF Join
  <2>2. (a \o u)[1] = a[1]
    <3>1. 1 \in 1 .. Len(a)
      BY <2>0
    <3> QED BY <2>0, <3>1, JoinAt DEF Join
  <2> QED BY <1>4, <2>1, <2>2
<1>8. Header(f) # <<>>
  BY <1>7
<1>9. U16At(Header(f), 2) = n
  <2>1. Len(a) + 1 = 2
    BY <1>2
  <2>2. Header(f) = Join(a, u)
    BY <1>4 DEF Join
  <2> QED BY <1>5, <1>6, <2>1, <2>2
<1> QED BY <1>2, <1>7, <1>8, <1>9 DEF n

(* What the writer writes after i write calls, and all of it up to then. *)
Calls == 2 * Len(output.frames) + 1

NextWrite(i) ==
    IF i = 2 * Len(output.frames) THEN output.bytes
    ELSE LET f == output.frames[i \div 2 + 1]
         IN  IF i % 2 = 0 THEN Header(f) ELSE EncodePayload(f)

Written[i \in 0 .. Calls] == IF i = 0 THEN <<>> ELSE Written[i - 1] \o NextWrite(i - 1)

(* How many of these writes the reader has read completely. *)
ReadCalls == 2 * Len(frames) + (IF header = <<>> THEN 0 ELSE 1)

WireTypes ==
    /\ output \in Outputs
    /\ writer \in 0 .. Calls
    /\ stream \in {"open", "fin", "lost"} /\ severed \in BOOLEAN
    /\ wire \in Seq(Nat) /\ buf \in Seq(Nat) /\ bytes \in Seq(Nat) /\ frames \in Seq(Frame)
    /\ reader \in {"frame", "bytes", "Io", "ShortHeader", "ShortPayload"}

(* The frames read are the first ones, and the header is that of the next.  *)
FramesInv ==
    /\ Len(frames) <= Len(output.frames)
    /\ frames = SubSeq(output.frames, 1, Len(frames))
    /\ header # <<>> =>
         /\ Len(frames) < Len(output.frames)
         /\ header = Header(output.frames[Len(frames) + 1])
         /\ Encodes(output.frames[Len(frames) + 1])

ReaderInv ==
    /\ reader = "frame" => Len(frames) < Len(output.frames) /\ Len(buf) <= Wanted
    /\ reader = "bytes" => Len(frames) = Len(output.frames) /\ buf = <<>> /\ header = <<>>
    /\ reader # "bytes" => bytes = <<>>
    /\ reader \notin {"frame", "bytes"} => severed

(* Only frames that encode are written; a stream that ends without a cut    *)
(* ends after everything was written.                                       *)
WriterInv ==
    /\ \A i \in 1 .. Len(output.frames) : 2 * (i - 1) < writer => Encodes(output.frames[i])
    /\ severed => stream # "open"
    /\ (stream # "open" /\ ~severed) => writer = Calls

(* What was read completely, what the reader has of the rest and what is on *)
(* the stream are the beginning of what was written, and all of it unless   *)
(* the stream was cut.                                                      *)
Reached == Written[ReadCalls] \o bytes \o buf \o wire

PlaceInv ==
    reader \in {"frame", "bytes"} =>
        /\ IsPrefix(Reached, Written[writer])
        /\ ~severed => Reached = Written[writer]

WireInv == WireTypes /\ FramesInv /\ ReaderInv /\ WriterInv /\ PlaceInv

-----------------------------------------------------------------------------
(* What the writer writes. *)
LEMMA OutputFacts ==
    ASSUME output \in Outputs
    PROVE  /\ output.frames \in Seq(Frame) /\ Len(output.frames) \in Nat /\ Len(output.frames) > 0
           /\ \A i \in 1 .. Len(output.frames) : output.frames[i] \in Frame
           /\ output.bytes \in Seq(Nat)
           /\ Calls \in Nat /\ 2 * Len(output.frames) \in Nat /\ Calls = 2 * Len(output.frames) + 1
<1>1. output \in [frames : Seq(Frame) \ {<<>>}, bytes : Seq(Byte)]
  BY OutputsAssumption
<1>2. output.frames \in Seq(Frame) /\ output.frames # <<>> /\ output.bytes \in Seq(Byte)
  BY <1>1
<1>3. Len(output.frames) \in Nat /\ Len(output.frames) > 0 /\ \A i \in 1 .. Len(output.frames) : output.frames[i] \in Frame
  BY <1>2
<1>4. output.bytes \in Seq(Nat)
  BY <1>2, BytesAreNat
<1> QED BY <1>2, <1>3, <1>4 DEF Calls

LEMMA NextWriteSeq ==
    ASSUME output \in Outputs, NEW i \in 0 .. 2 * Len(output.frames)
    PROVE  /\ NextWrite(i) \in Seq(Nat)
           /\ i < 2 * Len(output.frames) =>
                i \div 2 + 1 \in 1 .. Len(output.frames) /\ output.frames[i \div 2 + 1] \in Frame
<1> DEFINE N == Len(output.frames)
           f == output.frames[i \div 2 + 1]
<1>1. N \in Nat /\ i \in Nat
  BY OutputFacts
<1>2. CASE i = 2 * N
  <2>1. NextWrite(i) = output.bytes
    BY <1>2 DEF NextWrite
  <2>2. NextWrite(i) \in Seq(Nat)
    BY <2>1, OutputFacts
  <2>3. ~(i < 2 * N)
    BY <1>1, <1>2
  <2> QED BY <2>2, <2>3
<1>3. CASE i # 2 * N
  <2>1. i < 2 * N
    BY <1>1, <1>3
  <2>2. i \div 2 + 1 \in 1 .. N
    <3> HIDE DEF N
    <3> QED BY <1>1, <2>1
  <2>3. f \in Frame
    BY <2>2, OutputFacts
  <2>4. NextWrite(i) = IF i % 2 = 0 THEN Header(f) ELSE EncodePayload(f)
    BY <1>3 DEF NextWrite
  <2> HIDE DEF f
  <2>5. NextWrite(i) \in Seq(Nat)
    BY <2>3, <2>4, HeaderFacts, CodecBack
  <2> QED BY <2>2, <2>3, <2>5 DEF f
<1> QED BY <1>2, <1>3

(* f[i] is the concatenation of the first i parts. *)
IsChain(f, n, part) ==
    /\ f \in [0 .. n -> Seq(Nat)]
    /\ f[0] = <<>>
    /\ \A i \in 1 .. n : f[i] = Join(f[i - 1], part[i])

LEMMA ChainExists ==
    ASSUME NEW n \in Nat, NEW part \in [1 .. n -> Seq(Nat)]
    PROVE  \E f : IsChain(f, n, part)
<1> DEFINE S == {m \in 0 .. n : \E f : IsChain(f, m, part)}
<1>1. 0 \in S
  <2>1. IsChain([i \in 0 .. 0 |-> <<>>], 0, part)
    BY DEF IsChain
  <2> QED BY <2>1
<1>2. ASSUME NEW m \in 0 .. n - 1, m \in S
      PROVE  m + 1 \in S
  <2>1. PICK f : IsChain(f, m, part)
    BY <1>2
  <2> DEFINE last == Join(f[m], part[m + 1])
             g == [i \in 0 .. m + 1 |-> IF i <= m THEN f[i] ELSE last]
  <2>2. IsChain(g, m + 1, part)
    <3>1. f \in [0 .. m -> Seq(Nat)] /\ f[m] \in Seq(Nat) /\ part[m + 1] \in Seq(Nat)
      BY <2>1 DEF IsChain
    <3>a. last \in Seq(Nat)
      BY <3>1, JoinSeq
    <3> HIDE DEF last
    <3>2. g \in [0 .. m + 1 -> Seq(Nat)] /\ g[0] = <<>>
      BY <2>1, <3>1, <3>a DEF IsChain
    <3>3. \A i \in 1 .. m : g[i] = Join(g[i - 1], part[i])
      <4>1. \A i \in 0 .. m : g[i] = f[i]
        OBVIOUS
      <4>2. \A i \in 1 .. m : i - 1 \in 0 .. m /\ i \in 0 .. m
        OBVIOUS
      <4> QED BY <2>1, <4>1, <4>2 DEF IsChain
    <3>4. g[m + 1] = Join(g[m], part[m + 1])
      <4>1. g[m + 1] = last /\ g[m] = f[m]
        OBVIOUS
      <4> QED BY <4>1 DEF last
    <3> HIDE DEF g
    <3>5. \A i \in 1 .. m + 1 : g[i] = Join(g[i - 1], part[i])
      <4> TAKE i \in 1 .. m + 1
      <4>1. CASE i \in 1 .. m
        BY <4>1, <3>3
      <4>2. CASE i = m + 1
        <5>1. i - 1 = m
          BY <4>2
        <5> QED BY <4>2, <5>1, <3>4
      <4> QED BY <4>1, <4>2
    <3> QED BY <3>2, <3>5 DEF IsChain
  <2>3. m + 1 \in 0 .. n
    OBVIOUS
  <2> QED BY <2>2, <2>3
<1>3. \A i \in 0 .. n : i \in S
  <2> HIDE DEF S
  <2> QED BY <1>1, <1>2, UpTo
<1> QED BY <1>3

LEMMA WrittenFacts ==
    ASSUME output \in Outputs
    PROVE  /\ Written[0] = <<>>
           /\ \A i \in 0 .. Calls : Written[i] \in Seq(Nat)
           /\ \A i \in 0 .. Calls - 1 : Written[i + 1] = Join(Written[i], NextWrite(i))
<1> DEFINE n == Calls
           part == [i \in 1 .. n |-> NextWrite(i - 1)]
<1>1. n \in Nat /\ n = 2 * Len(output.frames) + 1 /\ Len(output.frames) \in Nat
  BY OutputFacts
<1>2. \A i \in 0 .. n - 1 : NextWrite(i) \in Seq(Nat)
  <2> TAKE i \in 0 .. n - 1
  <2>1. i \in 0 .. 2 * Len(output.frames)
    BY <1>1
  <2> QED BY <2>1, NextWriteSeq
<1> HIDE DEF n
<1>3. part \in [1 .. n -> Seq(Nat)]
  <2>1. \A i \in 1 .. n : i - 1 \in 0 .. n - 1
    BY <1>1
  <2> QED BY <1>2, <2>1
<1>4. PICK f : IsChain(f, n, part)
  <2> HIDE DEF part
  <2> QED BY <1>1, <1>3, ChainExists
<1>5. f = [i \in 0 .. Calls |-> IF i = 0 THEN <<>> ELSE f[i - 1] \o NextWrite(i - 1)]
  <2>1. f \in [0 .. n -> Seq(Nat)] /\ f[0] = <<>>
    BY <1>4 DEF IsChain
  <2>2. \A i \in 1 .. n : f[i] = f[i - 1] \o NextWrite(i - 1)
    BY <1>4 DEF IsChain, Join
  <2>3. \A i \in 0 .. n : f[i] = IF i = 0 THEN <<>> ELSE f[i - 1] \o NextWrite(i - 1)
    <3> TAKE i \in 0 .. n
    <3>1. CASE i = 0
      BY <2>1, <3>1
    <3>2. CASE i # 0
      <4>1. i \in 1 .. n
        BY <1>1, <3>2
      <4> QED BY <2>2, <3>2, <4>1
    <3> QED BY <3>1, <3>2
  <2>4. f = [i \in 0 .. n |-> f[i]]
    BY <2>1
  <2> QED BY <2>3, <2>4 DEF n
<1>6. Written = [i \in 0 .. Calls |-> IF i = 0 THEN <<>> ELSE Written[i - 1] \o NextWrite(i - 1)]
  BY <1>5, Zenon DEF Written
<1>7. Written[0] = <<>>
  <2>1. 0 \in 0 .. Calls
    BY <1>1 DEF n
  <2> QED BY <1>6, <2>1
<1>8. ASSUME NEW i \in 0 .. n - 1 PROVE Written[i + 1] = Join(Written[i], NextWrite(i))
  <2>1. i + 1 \in 0 .. Calls /\ i + 1 # 0 /\ (i + 1) - 1 = i
    BY <1>1 DEF n
  <2>2. Written[i + 1] = IF i + 1 = 0 THEN <<>> ELSE Written[(i + 1) - 1] \o NextWrite((i + 1) - 1)
    BY <1>6, <2>1, Zenon
  <2> QED BY <2>1, <2>2 DEF Join
<1>9. \A i \in 0 .. n : Written[i] \in Seq(Nat)
  <2> DEFINE S == {k \in 0 .. n : Written[k] \in Seq(Nat)}
  <2>1. 0 \in S
    <3>1. <<>> \in Seq(Nat) /\ 0 \in 0 .. n
      BY <1>1
    <3> QED BY <1>7, <3>1
  <2>2. ASSUME NEW k \in 0 .. n - 1, k \in S PROVE k + 1 \in S
    <3>1. k + 1 \in 0 .. n
      BY <1>1
    <3>2. Written[k + 1] \in Seq(Nat)
      BY <1>2, <1>8, <2>2, JoinSeq
    <3> QED BY <3>1, <3>2
  <2>3. \A k \in 0 .. n : k \in S
    <3> HIDE DEF S
    <3> QED BY <1>1, <2>1, <2>2, UpTo
  <2> QED BY <2>3
<1> QED BY <1>7, <1>8, <1>9 DEF n

(* What is written later comes after what was written before. *)
LEMMA WrittenGrows ==
    ASSUME output \in Outputs, NEW i \in 0 .. Calls, NEW j \in 0 .. Calls, i <= j
    PROVE  \E u \in Seq(Nat) : Written[j] = Join(Written[i], u)
<1> DEFINE n == Calls - i
           S == {k \in 0 .. n : \E u \in Seq(Nat) : Written[i + k] = Join(Written[i], u)}
<1>0. Calls \in Nat /\ Calls = 2 * Len(output.frames) + 1 /\ Len(output.frames) \in Nat
  BY OutputFacts
<1>n. n \in Nat
  BY <1>0
<1>w. Written[i] \in Seq(Nat)
  BY WrittenFacts
<1>1. 0 \in S
  <2>1. i + 0 = i /\ 0 \in 0 .. n
    BY <1>0
  <2>2. Written[i] = Join(Written[i], <<>>) /\ <<>> \in Seq(Nat)
    BY <1>w, JoinEmpty
  <2> QED BY <2>1, <2>2
<1>2. ASSUME NEW k \in 0 .. n - 1, k \in S PROVE k + 1 \in S
  <2>1. PICK u \in Seq(Nat) : Written[i + k] = Join(Written[i], u)
    BY <1>2
  <2>2. i + k \in 0 .. Calls - 1 /\ i + k \in 0 .. 2 * Len(output.frames) /\ k + 1 \in 0 .. n
        /\ i + (k + 1) = (i + k) + 1
    BY <1>0
  <2> DEFINE w == NextWrite(i + k)
  <2>3. w \in Seq(Nat)
    BY <2>2, NextWriteSeq
  <2>4. Written[(i + k) + 1] = Join(Written[i + k], w)
    BY <2>2, WrittenFacts
  <2> HIDE DEF w
  <2>5. Join(Join(Written[i], u), w) = Join(Written[i], Join(u, w)) /\ Join(u, w) \in Seq(Nat)
    BY <1>w, <2>3, JoinJoin, JoinSeq
  <2>6. Written[i + (k + 1)] = Join(Written[i], Join(u, w))
    BY <2>1, <2>2, <2>4, <2>5
  <2> QED BY <2>2, <2>5, <2>6
<1>3. \A k \in 0 .. n : k \in S
  <2> HIDE DEF S, n
  <2> QED BY <1>n, <1>1, <1>2, UpTo
<1>4. j - i \in 0 .. n /\ i + (j - i) = j
  BY <1>0
<1> QED BY <1>3, <1>4

-----------------------------------------------------------------------------
LEMMA EmptyIff ==
    ASSUME NEW s \in Seq(Nat)
    PROVE  s = <<>> <=> Len(s) = 0
OBVIOUS

(* Nothing was lost. *)
Nothing(l) == l = <<>>

LEMMA JoinNothing ==
    ASSUME NEW s \in Seq(Nat), NEW l \in Seq(Nat), Nothing(l)
    PROVE  Join(s, l) = s
<1>1. l = <<>>
  BY DEF Nothing
<1> QED BY <1>1, JoinEmpty

(* Four parts in a row. *)
Four(a, b, c, d) == a \o b \o c \o d

LEMMA FourJoin ==
    ASSUME NEW a \in Seq(Nat), NEW b \in Seq(Nat), NEW c \in Seq(Nat), NEW d \in Seq(Nat), NEW l \in Seq(Nat)
    PROVE  Four(a, b, c, d) \in Seq(Nat) /\ Join(Four(a, b, c, d), l) = Join(a, Join(b, Join(c, Join(d, l))))
<1> DEFINE ab == Join(a, b)
           abc == Join(ab, c)
           abcd == Join(abc, d)
           dl == Join(d, l)
           cdl == Join(c, dl)
<1>0. Four(a, b, c, d) = abcd
  BY Zenon DEF Join, Four
<1>1. ab \in Seq(Nat) /\ dl \in Seq(Nat)
  BY JoinSeq
<1>2. Join(ab, cdl) = Join(a, Join(b, cdl)) /\ cdl \in Seq(Nat)
  <2> HIDE DEF dl
  <2>1. cdl \in Seq(Nat)
    BY <1>1, JoinSeq
  <2> HIDE DEF cdl
  <2> QED BY <2>1, JoinJoin
<1> HIDE DEF ab
<1>3. abc \in Seq(Nat)
  BY <1>1, JoinSeq
<1>4. Join(abc, dl) = Join(ab, cdl)
  <2> HIDE DEF dl
  <2> QED BY <1>1, JoinJoin
<1> HIDE DEF abc
<1>5. abcd \in Seq(Nat)
  BY <1>3, JoinSeq
<1>6. Join(abcd, l) = Join(abc, dl)
  BY <1>3, JoinJoin
<1> QED BY <1>0, <1>2, <1>4, <1>5, <1>6

LEMMA PlaceIff ==
    ASSUME NEW a \in Seq(Nat), NEW b \in Seq(Nat), NEW c \in Seq(Nat), NEW d \in Seq(Nat), NEW w \in Seq(Nat)
    PROVE  IsPrefix(Four(a, b, c, d), w) <=> \E l \in Seq(Nat) : w = Join(a, Join(b, Join(c, Join(d, l))))
<1> DEFINE x == Four(a, b, c, d)
<1>1. x \in Seq(Nat) /\ \A l \in Seq(Nat) : Join(x, l) = Join(a, Join(b, Join(c, Join(d, l))))
  BY FourJoin
<1> HIDE DEF x
<1>2. IsPrefix(x, w) <=> \E l \in Seq(Nat) : w = Join(x, l)
  BY <1>1, PrefixJoin
<1> QED BY <1>1, <1>2 DEF x

LEMMA PlaceAll ==
    ASSUME NEW a \in Seq(Nat), NEW b \in Seq(Nat), NEW c \in Seq(Nat), NEW d \in Seq(Nat),
           NEW l \in Seq(Nat)
    PROVE  Nothing(l) => Four(a, b, c, d) = Join(a, Join(b, Join(c, Join(d, l))))
<1> DEFINE x == Four(a, b, c, d)
<1>1. x \in Seq(Nat) /\ Join(x, l) = Join(a, Join(b, Join(c, Join(d, l))))
  BY FourJoin
<1> HIDE DEF x
<1>2. Nothing(l) => Join(x, l) = x
  BY <1>1, JoinNothing
<1>3. Nothing(l) => x = Join(a, Join(b, Join(c, Join(d, l))))
  BY <1>1, <1>2, Zenon
<1> QED BY <1>3 DEF x

(* The types that the steps need. *)
LEMMA WireFacts ==
    ASSUME WireInv
    PROVE  /\ output \in Outputs /\ Len(output.frames) \in Nat /\ Calls = 2 * Len(output.frames) + 1
           /\ Len(frames) \in 0 .. Len(output.frames) /\ Len(frames) \in Nat
           /\ writer \in 0 .. Calls /\ writer \in Nat
           /\ ReadCalls \in 0 .. 2 * Len(output.frames) /\ ReadCalls \in 0 .. Calls /\ ReadCalls \in Nat
           /\ Written[ReadCalls] \in Seq(Nat) /\ Written[writer] \in Seq(Nat)
           /\ wire \in Seq(Nat) /\ buf \in Seq(Nat) /\ bytes \in Seq(Nat)
<1>1. /\ output \in Outputs /\ writer \in 0 .. Calls /\ frames \in Seq(Frame)
      /\ wire \in Seq(Nat) /\ buf \in Seq(Nat) /\ bytes \in Seq(Nat)
  BY DEF WireInv, WireTypes
<1>2. Len(output.frames) \in Nat /\ Calls = 2 * Len(output.frames) + 1 /\ Calls \in Nat
  BY <1>1, OutputFacts
<1>3. Len(frames) \in Nat /\ Len(frames) <= Len(output.frames)
  BY <1>1 DEF WireInv, FramesInv
<1>4. ReadCalls \in 0 .. 2 * Len(output.frames) /\ ReadCalls \in Nat
  <2>1. header # <<>> => Len(frames) < Len(output.frames)
    BY DEF WireInv, FramesInv
  <2> QED BY <1>2, <1>3, <2>1 DEF ReadCalls
<1>5. ReadCalls \in 0 .. Calls
  BY <1>2, <1>4
<1>6. Written[ReadCalls] \in Seq(Nat) /\ Written[writer] \in Seq(Nat)
  BY <1>1, <1>5, WrittenFacts
<1>7. writer \in Nat /\ Len(frames) \in 0 .. Len(output.frames)
  BY <1>1, <1>2, <1>3
<1> QED BY <1>1, <1>2, <1>3, <1>4, <1>5, <1>6, <1>7

(* Where the reader is, with what was lost. *)
LEMMA WirePlace ==
    ASSUME WireInv, reader \in {"frame", "bytes"}
    PROVE  \E l \in Seq(Nat) :
             /\ Written[writer] = Join(Written[ReadCalls], Join(bytes, Join(buf, Join(wire, l))))
             /\ ~severed => Nothing(l)
<1> DEFINE a == Written[ReadCalls]
           w == Written[writer]
<1>1. a \in Seq(Nat) /\ w \in Seq(Nat) /\ wire \in Seq(Nat) /\ buf \in Seq(Nat) /\ bytes \in Seq(Nat)
  BY WireFacts
<1>2. IsPrefix(Four(a, bytes, buf, wire), w) /\ (~severed => Four(a, bytes, buf, wire) = w)
  BY Zenon DEF WireInv, PlaceInv, Reached, Four
<1> HIDE DEF a, w
<1>3. CASE severed
  BY <1>1, <1>2, <1>3, PlaceIff DEF a, w
<1>4. CASE ~severed
  <2> DEFINE e == <<>>
  <2>0. Four(a, bytes, buf, wire) = w
    BY <1>2, <1>4, Zenon
  <2>1. e \in Seq(Nat) /\ Nothing(e)
    BY DEF Nothing
  <2> HIDE DEF e
  <2>2. Nothing(e) => Four(a, bytes, buf, wire) = Join(a, Join(bytes, Join(buf, Join(wire, e))))
    <3>1. e \in Seq(Nat)
      BY <2>1
    <3> QED BY <1>1, <3>1, PlaceAll
  <2>3. w = Join(a, Join(bytes, Join(buf, Join(wire, e))))
    BY <2>0, <2>1, <2>2, Zenon
  <2> QED BY <2>1, <2>3 DEF a, w
<1> QED BY <1>3, <1>4

LEMMA OutputKept ==
    ASSUME [WireNext]_wireVars
    PROVE  /\ output' = output /\ Written' = Written /\ Calls' = Calls
           /\ \A i : NextWrite(i)' = NextWrite(i)
<1>1. output' = output
  BY DEF WireNext, wireVars, WriteFrame, WriteRefused, WriteBytes, Finish, CutOff, ReadSome, ReadEnds,
         HeaderRead, PayloadRead, ReadBytes
<1>2. Written' = Written
  BY <1>1, Zenon DEF Written, Calls, NextWrite
<1> QED BY <1>1, <1>2, Zenon DEF Calls, NextWrite

(* What follows the part a, when the next write w was written after it. *)
LEMMA PartLength ==
    ASSUME NEW a \in Seq(Nat), NEW b \in Seq(Nat), NEW w \in Seq(Nat), NEW u \in Seq(Nat),
           Join(a, b) = Join(Join(a, w), u)
    PROVE  b = Join(w, u) /\ Len(b) = Len(w) + Len(u)
<1> DEFINE wu == Join(w, u)
<1>1. wu \in Seq(Nat) /\ Len(wu) = Len(w) + Len(u)
  BY JoinSeq
<1>2. Join(a, b) = Join(a, wu)
  BY JoinJoin
<1> HIDE DEF wu
<1>3. b = wu
  BY <1>1, <1>2, JoinCancels
<1> QED BY <1>1, <1>3 DEF wu

(* The write that the reader reads next. *)
LEMMA NextPart ==
    ASSUME WireInv, reader = "frame"
    PROVE  /\ Len(frames) + 1 \in 1 .. Len(output.frames) /\ output.frames[Len(frames) + 1] \in Frame
           /\ ReadCalls < 2 * Len(output.frames) /\ ReadCalls \in 0 .. Calls - 1
           /\ ReadCalls + 1 \in 0 .. Calls
           /\ NextWrite(ReadCalls) \in Seq(Nat) /\ Len(NextWrite(ReadCalls)) = Wanted
           /\ NextWrite(ReadCalls) = IF header = <<>> THEN Header(output.frames[Len(frames) + 1])
                                     ELSE EncodePayload(output.frames[Len(frames) + 1])
           /\ Written[ReadCalls + 1] = Join(Written[ReadCalls], NextWrite(ReadCalls))
           /\ Wanted \in Nat /\ bytes = <<>>
<1> DEFINE n == Len(frames)
           N == Len(output.frames)
           f == output.frames[n + 1]
           r == ReadCalls
<1>1. n \in Nat /\ N \in Nat /\ n < N /\ bytes = <<>> /\ output \in Outputs /\ Calls = 2 * N + 1
  BY WireFacts DEF WireInv, ReaderInv
<1>2. r = 2 * n + (IF header = <<>> THEN 0 ELSE 1)
  BY DEF ReadCalls
<1>3. f \in Frame /\ n + 1 \in 1 .. N
  <2>1. n + 1 \in 1 .. N
    <3> HIDE DEF n, N
    <3> QED BY <1>1
  <2> QED BY <1>1, <2>1, OutputFacts
<1>4. /\ r < 2 * N /\ r # 2 * N /\ r \in 0 .. Calls - 1 /\ r + 1 \in 0 .. Calls
      /\ r \div 2 = n /\ (header = <<>> <=> r % 2 = 0)
  <2> HIDE DEF n, N, r
  <2>1. CASE header = <<>>
    BY <1>1, <1>2, <2>1
  <2>2. CASE header # <<>>
    BY <1>1, <1>2, <2>2
  <2> QED BY <2>1, <2>2
<1>5. NextWrite(r) = IF header = <<>> THEN Header(f) ELSE EncodePayload(f)
  <2>1. NextWrite(r) = IF r % 2 = 0 THEN Header(output.frames[r \div 2 + 1]) ELSE EncodePayload(output.frames[r \div 2 + 1])
    BY <1>4 DEF NextWrite
  <2> QED BY <1>4, <2>1
<1>6. header # <<>> => header = Header(f)
  BY DEF WireInv, FramesInv
<1>7. NextWrite(r) \in Seq(Nat) /\ Len(NextWrite(r)) = Wanted
  <2> HIDE DEF f
  <2>1. CASE header = <<>>
    BY <1>3, <1>5, <2>1, HeaderFacts DEF Wanted
  <2>2. CASE header # <<>>
    BY <1>3, <1>5, <1>6, <2>2, HeaderFacts, CodecBack DEF Wanted
  <2> QED BY <2>1, <2>2
<1>8. Wanted \in Nat
  BY <1>7
<1>9. Written[r + 1] = Join(Written[r], NextWrite(r))
  BY <1>1, <1>4, WrittenFacts
<1> QED BY <1>1, <1>3, <1>4, <1>5, <1>7, <1>8, <1>9

(* What the reader has is where the next write is. *)
LEMMA BufPlace ==
    ASSUME WireInv, reader = "frame"
    PROVE  \E l \in Seq(Nat) :
             /\ Written[writer] = Join(Written[ReadCalls], Join(buf, Join(wire, l)))
             /\ ~severed => Nothing(l)
<1>1. bytes = <<>>
  BY NextPart
<1>2. PICK l \in Seq(Nat) : /\ Written[writer] = Join(Written[ReadCalls], Join(bytes, Join(buf, Join(wire, l))))
                            /\ ~severed => Nothing(l)
  BY WirePlace
<1>3. buf \in Seq(Nat) /\ wire \in Seq(Nat)
  BY WireFacts
<1>4. Join(buf, Join(wire, l)) \in Seq(Nat)
  BY <1>3, JoinSeq
<1>5. Join(bytes, Join(buf, Join(wire, l))) = Join(buf, Join(wire, l))
  BY <1>1, <1>4, JoinEmpty
<1> QED BY <1>2, <1>5

(* read_exact returns the header or the payload that was written. *)
LEMMA PartComplete ==
    ASSUME WireInv, reader = "frame", Complete
    PROVE  buf = NextWrite(ReadCalls) /\ (header = <<>> => ReadCalls < writer)
<1> DEFINE r == ReadCalls
           w == NextWrite(r)
           a == Written[r]
           x == Written[writer]
<1>1. /\ r \in Nat /\ writer \in Nat /\ r \in 0 .. Calls /\ writer \in 0 .. Calls /\ output \in Outputs
      /\ a \in Seq(Nat) /\ x \in Seq(Nat) /\ buf \in Seq(Nat) /\ wire \in Seq(Nat) /\ Calls \in Nat
  BY WireFacts
<1>2. w \in Seq(Nat) /\ Len(w) = Len(buf) /\ r + 1 \in 0 .. Calls /\ Written[r + 1] = Join(a, w)
  BY NextPart DEF Complete
<1>3. header = <<>> => Len(w) = 3
  BY NextPart DEF Wanted
<1>4. PICK l \in Seq(Nat) : x = Join(a, Join(buf, Join(wire, l)))
  BY BufPlace
<1> DEFINE y == Join(wire, l)
           z == Join(buf, y)
<1>5. y \in Seq(Nat)
  BY <1>1, JoinSeq
<1>6. z \in Seq(Nat) /\ Len(z) = Len(buf) + Len(y) /\ Len(buf) \in Nat /\ Len(y) \in Nat
  <2> HIDE DEF y
  <2>1. buf \in Seq(Nat)
    BY <1>1
  <2>2. z \in Seq(Nat) /\ Len(z) = Len(buf) + Len(y)
    BY <1>5, <2>1, JoinSeq
  <2>3. Len(buf) \in Nat /\ Len(y) \in Nat
    BY <1>5, <2>1
  <2> QED BY <2>2, <2>3
<1>7. CASE r < writer
  <2>1. r + 1 <= writer
    BY <1>1, <1>7
  <2>2. PICK u \in Seq(Nat) : x = Join(Written[r + 1], u)
    BY <1>1, <1>2, <2>1, WrittenGrows
  <2>3. x = Join(a, z)
    BY <1>4
  <2> HIDE DEF x, a, w, z, y, r
  <2>4. Join(a, z) = Join(Join(a, w), u)
    BY <1>2, <2>2, <2>3
  <2>5. z = Join(w, u)
    BY <1>1, <1>2, <1>6, <2>4, PartLength
  <2>6. Join(buf, y) = Join(w, u)
    BY <2>5 DEF z
  <2>7. buf = w
    BY <1>1, <1>2, <1>5, <2>6, JoinSplits
  <2> QED BY <1>7, <2>7 DEF w, r
<1>8. CASE ~(r < writer)
  <2>1. writer <= r
    BY <1>1, <1>8
  <2>2. PICK v \in Seq(Nat) : a = Join(x, v)
    BY <1>1, <2>1, WrittenGrows
  <2>3. x = Join(a, z)
    BY <1>4
  <2> HIDE DEF x, a, w, z, y, r
  <2>4. Len(a) = Len(x) + Len(v) /\ Len(x) = Len(a) + Len(z)
    <3>1. a \in Seq(Nat) /\ x \in Seq(Nat) /\ z \in Seq(Nat)
      BY <1>1, <1>6
    <3>2. Len(Join(x, v)) = Len(x) + Len(v) /\ Len(Join(a, z)) = Len(a) + Len(z)
      BY <3>1, JoinSeq
    <3> QED BY <2>2, <2>3, <3>2
  <2>5. Len(a) \in Nat /\ Len(x) \in Nat /\ Len(v) \in Nat /\ Len(z) \in Nat
    BY <1>1, <1>6
  <2>6. Len(z) = 0
    BY <2>4, <2>5
  <2>7. Len(buf) = 0
    <3> DEFINE i == Len(buf)  j == Len(y)
    <3>1. i \in Nat /\ j \in Nat /\ i + j = 0
      BY <1>6, <2>6
    <3> HIDE DEF i, j
    <3>2. i = 0
      BY <3>1
    <3> QED BY <3>2 DEF i
  <2>8. buf = <<>> /\ w = <<>>
    BY <1>1, <1>2, <2>7, EmptyIff
  <2>9. header # <<>>
    BY <1>2, <1>3, <2>7
  <2> QED BY <2>8, <2>9 DEF w, r
<1> QED BY <1>7, <1>8

(* A read that ends early ends in a stream that was cut. *)
LEMMA PartMissing ==
    ASSUME WireInv, reader = "frame", Len(buf) < Wanted, wire = <<>>, stream # "open"
    PROVE  severed
<1> SUFFICES ASSUME ~severed PROVE FALSE
  OBVIOUS
<1> DEFINE r == ReadCalls
           w == NextWrite(r)
           a == Written[r]
           x == Written[writer]
<1>1. /\ writer \in 0 .. Calls /\ output \in Outputs /\ a \in Seq(Nat) /\ x \in Seq(Nat) /\ buf \in Seq(Nat)
  BY WireFacts
<1>2. w \in Seq(Nat) /\ Len(w) = Wanted /\ r + 1 \in 0 .. Calls /\ Written[r + 1] = Join(a, w)
  BY NextPart
<1>3. writer = Calls
  BY DEF WireInv, WriterInv
<1>4. r + 1 <= writer
  BY <1>1, <1>2, <1>3
<1>5. PICK l \in Seq(Nat) : x = Join(a, Join(buf, Join(wire, l))) /\ Nothing(l)
  BY BufPlace
<1>6. Join(buf, Join(wire, l)) = buf
  <2>1. wire \in Seq(Nat) /\ Nothing(wire)
    BY WireFacts DEF Nothing
  <2>2. Join(wire, l) = wire /\ Join(buf, wire) = buf
    BY <1>1, <1>5, <2>1, JoinNothing
  <2> QED BY <2>2, Zenon
<1>7. PICK u \in Seq(Nat) : x = Join(Written[r + 1], u)
  BY <1>1, <1>2, <1>4, WrittenGrows
<1>8. Join(a, buf) = Join(Join(a, w), u)
  BY <1>2, <1>5, <1>6, <1>7, Zenon
<1> HIDE DEF a, w, x
<1>9. Len(buf) = Len(w) + Len(u)
  BY <1>1, <1>2, <1>8, PartLength
<1>10. Len(buf) \in Nat /\ Len(w) \in Nat /\ Len(u) \in Nat /\ Len(buf) < Len(w)
  BY <1>1, <1>2
<1> QED BY <1>9, <1>10

-----------------------------------------------------------------------------
(* How the steps move bytes between what was read, what the reader has, the *)
(* stream and what is lost.                                                 *)
LEMMA NothingBefore ==
    ASSUME NEW s \in Seq(Nat), NEW e \in Seq(Nat), Nothing(e)
    PROVE  Join(e, s) = s
<1>1. e = <<>>
  BY DEF Nothing
<1> QED BY <1>1, JoinEmpty

(* A write. *)
LEMMA PlaceWrite ==
    ASSUME NEW a \in Seq(Nat), NEW b \in Seq(Nat), NEW c \in Seq(Nat), NEW d \in Seq(Nat),
           NEW w \in Seq(Nat), NEW l \in Seq(Nat), Nothing(l)
    PROVE  Join(Join(a, Join(b, Join(c, Join(d, l)))), w) = Join(a, Join(b, Join(c, Join(Join(d, w), l))))
<1> DEFINE dw == Join(d, w)
           x == Four(a, b, c, d)
<1>1. dw \in Seq(Nat) /\ x \in Seq(Nat)
  BY JoinSeq, FourJoin
<1>2. x = Join(a, Join(b, Join(c, Join(d, l))))
  BY PlaceAll
<1>3. Join(x, w) = Join(a, Join(b, Join(c, dw)))
  BY FourJoin
<1> HIDE DEF dw, x
<1>4. Join(dw, l) = dw
  BY <1>1, JoinNothing
<1> QED BY <1>2, <1>3, <1>4, Zenon DEF dw

(* A cut: the end of the stream is lost with what was lost. *)
LEMMA PlaceCut ==
    ASSUME NEW d \in Seq(Nat), NEW n \in 0 .. Len(d), NEW l \in Seq(Nat)
    PROVE  /\ Join(d, l) = Join(SubSeq(d, 1, n), Join(SubSeq(d, n + 1, Len(d)), l))
           /\ Join(SubSeq(d, n + 1, Len(d)), l) \in Seq(Nat)
<1> DEFINE p == SubSeq(d, 1, n)
           q == SubSeq(d, n + 1, Len(d))
<1>1. p \in Seq(Nat) /\ q \in Seq(Nat) /\ d = Join(p, q)
  BY JoinParts
<1> HIDE DEF p, q
<1>2. Join(Join(p, q), l) = Join(p, Join(q, l)) /\ Join(q, l) \in Seq(Nat)
  BY <1>1, JoinJoin, JoinSeq
<1>3. Join(d, l) = Join(p, Join(q, l))
  BY <1>1, <1>2, Zenon
<1> QED BY <1>2, <1>3 DEF p, q

(* A read: the first bytes of the stream go to the end of c. *)
LEMMA PlaceRead ==
    ASSUME NEW c \in Seq(Nat), NEW d \in Seq(Nat), NEW n \in 0 .. Len(d), NEW l \in Seq(Nat)
    PROVE  Join(c, Join(d, l)) = Join(c \o SubSeq(d, 1, n), Join(SubSeq(d, n + 1, Len(d)), l))
<1> DEFINE p == SubSeq(d, 1, n)
           ql == Join(SubSeq(d, n + 1, Len(d)), l)
<1>1. p \in Seq(Nat)
  BY JoinParts
<1>2. ql \in Seq(Nat) /\ Join(d, l) = Join(p, ql)
  BY PlaceCut
<1> HIDE DEF p, ql
<1>3. Join(Join(c, p), ql) = Join(c, Join(p, ql))
  BY <1>1, <1>2, JoinJoin
<1>4. Join(c, Join(d, l)) = Join(Join(c, p), ql)
  BY <1>2, <1>3, Zenon
<1> QED BY <1>4, Zenon DEF p, ql, Join

(* read_exact returns: its bytes are read. *)
LEMMA PlaceAdvance ==
    ASSUME NEW a \in Seq(Nat), NEW b \in Seq(Nat), NEW y \in Seq(Nat), NEW e \in Seq(Nat), Nothing(e)
    PROVE  Join(a, Join(b, y)) = Join(Join(a, b), Join(e, Join(e, y)))
<1>1. Join(e, y) = y
  BY NothingBefore
<1>2. Join(e, Join(e, y)) = y
  BY <1>1, Zenon
<1>3. Join(Join(a, b), y) = Join(a, Join(b, y))
  BY JoinJoin
<1> QED BY <1>2, <1>3, Zenon

LEMMA NoBytes == <<>> \in Seq(Nat) /\ Nothing(<<>>) /\ Len(<<>>) = 0
BY DEF Nothing

(* The place after a step. *)
LEMMA PlaceThen ==
    ASSUME Written' = Written, reader' \in {"frame", "bytes"} =>
             /\ Written[ReadCalls'] \in Seq(Nat) /\ Written[writer'] \in Seq(Nat)
             /\ bytes' \in Seq(Nat) /\ buf' \in Seq(Nat) /\ wire' \in Seq(Nat)
             /\ \E l \in Seq(Nat) :
                  /\ Written[writer'] = Join(Written[ReadCalls'], Join(bytes', Join(buf', Join(wire', l))))
                  /\ ~severed' => Nothing(l)
    PROVE  PlaceInv'
<1> SUFFICES ASSUME reader' \in {"frame", "bytes"}
             PROVE  IsPrefix(Reached', Written[writer']) /\ (~severed' => Reached' = Written[writer'])
  BY Zenon DEF PlaceInv
<1> DEFINE a == Written[ReadCalls']
           w == Written[writer']
           x == Four(a, bytes', buf', wire')
<1>1. a \in Seq(Nat) /\ w \in Seq(Nat) /\ bytes' \in Seq(Nat) /\ buf' \in Seq(Nat) /\ wire' \in Seq(Nat)
  BY Zenon
<1>2. PICK l \in Seq(Nat) : w = Join(a, Join(bytes', Join(buf', Join(wire', l)))) /\ (~severed' => Nothing(l))
  BY Zenon
<1>3. x = Reached'
  BY Zenon DEF Reached, Four
<1> HIDE DEF a, w
<1>4. IsPrefix(x, w)
  BY <1>1, <1>2, PlaceIff
<1>5. Nothing(l) => x = w
  <2>1. Nothing(l) => x = Join(a, Join(bytes', Join(buf', Join(wire', l))))
    BY <1>1, PlaceAll
  <2> QED BY <1>2, <2>1, Zenon
<1> HIDE DEF x
<1> QED BY <1>2, <1>3, <1>4, <1>5, Zenon DEF w

(* The parts of the invariant that a step leaves alone. *)
LEMMA FramesSame ==
    ASSUME FramesInv, UNCHANGED <<output, header, frames>>
    PROVE  FramesInv'
BY Zenon DEF FramesInv

LEMMA ReaderSame ==
    ASSUME ReaderInv, UNCHANGED <<output, header, frames, buf, bytes, reader>>, severed => severed'
    PROVE  ReaderInv'
BY Zenon DEF ReaderInv, Wanted

LEMMA WriterSame ==
    ASSUME WriterInv, UNCHANGED <<output, writer, stream, severed>>
    PROVE  WriterInv'
BY Zenon DEF WriterInv, Calls

LEMMA ReadCallsSame ==
    ASSUME UNCHANGED <<header, frames>>
    PROVE  ReadCalls' = ReadCalls
BY Zenon DEF ReadCalls

-----------------------------------------------------------------------------
(* The writer's steps: w is what they put on the stream. *)
LEMMA PlaceAfterWrite ==
    ASSUME WireInv, WireNext, NEW w \in Seq(Nat), writer \in 0 .. Calls - 1, w = NextWrite(writer),
           stream = "open", wire' = wire \o w, writer' = writer + 1,
           UNCHANGED <<severed, buf, header, frames, bytes, reader>>
    PROVE  PlaceInv' /\ wire' \in Seq(Nat) /\ writer' \in 0 .. Calls
<1> DEFINE a == Written[ReadCalls]
           x == Written[writer]
           y == Written[writer + 1]
<1>1. /\ a \in Seq(Nat) /\ x \in Seq(Nat) /\ wire \in Seq(Nat) /\ buf \in Seq(Nat) /\ bytes \in Seq(Nat)
      /\ output \in Outputs /\ Calls \in Nat
  BY WireFacts
<1>2. writer + 1 \in 0 .. Calls
  BY <1>1
<1>3. y \in Seq(Nat) /\ y = Join(x, w)
  BY <1>1, <1>2, WrittenFacts
<1>4. ~severed
  BY DEF WireInv, WriterInv
<1>5. Join(wire, w) = wire' /\ Join(wire, w) \in Seq(Nat)
  <2>1. Join(wire, w) \in Seq(Nat)
    BY <1>1, JoinSeq
  <2> QED BY <2>1 DEF Join
<1>6. Written' = Written /\ ReadCalls' = ReadCalls
  BY OutputKept, ReadCallsSame
<1>7. ASSUME reader \in {"frame", "bytes"}
      PROVE  \E l \in Seq(Nat) : y = Join(a, Join(bytes, Join(buf, Join(wire', l)))) /\ Nothing(l)
  <2>1. PICK l \in Seq(Nat) : x = Join(a, Join(bytes, Join(buf, Join(wire, l)))) /\ (~severed => Nothing(l))
    BY <1>7, WirePlace
  <2>2. Nothing(l)
    BY <1>4, <2>1
  <2> HIDE DEF a, x, y
  <2>3. Join(Join(a, Join(bytes, Join(buf, Join(wire, l)))), w)
          = Join(a, Join(bytes, Join(buf, Join(Join(wire, w), l))))
    BY <1>1, <2>2, PlaceWrite, SMTT(30)
  <2>4. y = Join(a, Join(bytes, Join(buf, Join(wire', l))))
    BY <1>3, <1>5, <2>1, <2>3, Zenon
  <2> QED BY <2>2, <2>4
<1>8. PlaceInv'
  <2>1. wire' \in Seq(Nat)
    BY <1>5
  <2>2. reader' \in {"frame", "bytes"} =>
             /\ Written[ReadCalls'] \in Seq(Nat) /\ Written[writer'] \in Seq(Nat)
             /\ bytes' \in Seq(Nat) /\ buf' \in Seq(Nat) /\ wire' \in Seq(Nat)
             /\ \E l \in Seq(Nat) :
                  /\ Written[writer'] = Join(Written[ReadCalls'], Join(bytes', Join(buf', Join(wire', l))))
                  /\ ~severed' => Nothing(l)
    BY <1>1, <1>3, <1>6, <1>7, <2>1, Zenon
  <2> QED BY <1>6, <2>2, PlaceThen, Zenon
<1> QED BY <1>2, <1>5, <1>8

LEMMA StepWriteFrame ==
    ASSUME WireInv, WriteFrame
    PROVE  WireInv'
<1> DEFINE N == Len(output.frames)
           w == NextWrite(writer)
<1>1. /\ stream = "open" /\ writer < 2 * N /\ Encodes(Current) /\ writer' = writer + 1
      /\ UNCHANGED <<output, stream, severed, buf, header, frames, bytes, reader>>
  BY DEF WriteFrame, Framing
<1>2. output \in Outputs /\ N \in Nat /\ Calls = 2 * N + 1 /\ writer \in Nat
  BY WireFacts
<1>3. w \in Seq(Nat) /\ writer \in 0 .. Calls - 1
  <2>1. writer \in 0 .. 2 * N /\ writer \in 0 .. Calls - 1
    <3> HIDE DEF N
    <3> QED BY <1>1, <1>2
  <2> QED BY <1>2, <2>1, NextWriteSeq
<1>4. wire' = wire \o w
  <2>1. writer # 2 * N
    BY <1>1, <1>2
  <2>2. w = IF writer % 2 = 0 THEN Header(Current) ELSE EncodePayload(Current)
    BY <2>1, Zenon DEF NextWrite, Current
  <2> QED BY <2>2, Zenon DEF WriteFrame
<1>5. PlaceInv' /\ wire' \in Seq(Nat) /\ writer' \in 0 .. Calls
  <2>1. WireNext
    BY DEF WireNext
  <2> HIDE DEF w
  <2> QED BY <1>1, <1>3, <1>4, <2>1, PlaceAfterWrite DEF w
<1>6. Calls' = Calls
  BY <1>1 DEF Calls
<1>7. WireTypes'
  BY <1>1, <1>5, <1>6 DEF WireInv, WireTypes
<1>8. FramesInv' /\ ReaderInv'
  BY <1>1, FramesSame, ReaderSame DEF WireInv
<1>9. WriterInv'
  <2>1. ASSUME NEW i \in 1 .. N, 2 * (i - 1) < writer + 1 PROVE Encodes(output.frames[i])
    <3>1. CASE 2 * (i - 1) < writer
      BY <3>1 DEF WireInv, WriterInv
    <3>2. CASE ~(2 * (i - 1) < writer)
      <4>1. 2 * (i - 1) = writer
        <5> HIDE DEF N
        <5> QED BY <1>2, <2>1, <3>2
      <4>2. writer \div 2 + 1 = i
        <5> HIDE DEF N
        <5> QED BY <1>2, <4>1
      <4> QED BY <1>1, <4>2 DEF Current
    <3> QED BY <3>1, <3>2
  <2>2. severed' => stream' # "open"
    BY <1>1 DEF WireInv, WriterInv
  <2>3. stream' = "open" /\ output' = output
    BY <1>1
  <2> HIDE DEF N
  <2> QED BY <1>1, <2>1, <2>2, <2>3 DEF WriterInv, N
<1> QED BY <1>5, <1>7, <1>8, <1>9 DEF WireInv

LEMMA StepWriteBytes ==
    ASSUME WireInv, WriteBytes
    PROVE  WireInv'
<1> DEFINE N == Len(output.frames)
           w == NextWrite(writer)
<1>1. /\ stream = "open" /\ writer = 2 * N /\ writer' = writer + 1 /\ wire' = wire \o output.bytes
      /\ UNCHANGED <<output, stream, severed, buf, header, frames, bytes, reader>>
  BY DEF WriteBytes
<1>2. output \in Outputs /\ N \in Nat /\ Calls = 2 * N + 1 /\ writer \in Nat
  BY WireFacts
<1>3. w \in Seq(Nat) /\ writer \in 0 .. Calls - 1
  <2>1. writer \in 0 .. 2 * N /\ writer \in 0 .. Calls - 1
    <3> HIDE DEF N
    <3> QED BY <1>1, <1>2
  <2> QED BY <1>2, <2>1, NextWriteSeq
<1>4. wire' = wire \o w
  <2>1. w = output.bytes
    BY <1>1, Zenon DEF NextWrite
  <2> QED BY <1>1, <2>1, Zenon
<1>5. PlaceInv' /\ wire' \in Seq(Nat) /\ writer' \in 0 .. Calls
  <2>1. WireNext
    BY DEF WireNext
  <2> HIDE DEF w
  <2> QED BY <1>1, <1>3, <1>4, <2>1, PlaceAfterWrite DEF w
<1>6. Calls' = Calls
  BY <1>1 DEF Calls
<1>7. WireTypes'
  BY <1>1, <1>5, <1>6 DEF WireInv, WireTypes
<1>8. FramesInv' /\ ReaderInv'
  BY <1>1, FramesSame, ReaderSame DEF WireInv
<1>9. WriterInv'
  <2>1. ASSUME NEW i \in 1 .. N PROVE Encodes(output.frames[i])
    <3>1. 2 * (i - 1) < writer
      <4> HIDE DEF N
      <4> QED BY <1>1, <1>2
    <3> QED BY <3>1 DEF WireInv, WriterInv
  <2>2. severed' => stream' # "open"
    BY <1>1 DEF WireInv, WriterInv
  <2>3. stream' = "open" /\ output' = output
    BY <1>1
  <2> HIDE DEF N
  <2> QED BY <2>1, <2>2, <2>3 DEF WriterInv, N
<1> QED BY <1>5, <1>7, <1>8, <1>9 DEF WireInv

(* The steps that end the stream. *)
LEMMA StepWriteRefused ==
    ASSUME WireInv, WriteRefused
    PROVE  WireInv'
<1>1. /\ stream' = "fin" /\ severed' = TRUE
      /\ UNCHANGED <<output, writer, wire, buf, header, frames, bytes, reader>>
  BY DEF WriteRefused
<1>2. Written' = Written /\ ReadCalls' = ReadCalls /\ Calls' = Calls
  BY <1>1, OutputKept, ReadCallsSame DEF WriteRefused, WireNext
<1>3. WireTypes'
  BY <1>1, <1>2 DEF WireInv, WireTypes
<1>4. FramesInv' /\ ReaderInv'
  BY <1>1, FramesSame, ReaderSame DEF WireInv
<1>5. WriterInv'
  BY <1>1 DEF WireInv, WriterInv
<1>6. Reached' = Reached
  BY <1>1, <1>2, Zenon DEF Reached
<1>7. PlaceInv'
  BY <1>1, <1>2, <1>6 DEF WireInv, PlaceInv
<1> QED BY <1>3, <1>4, <1>5, <1>7 DEF WireInv

LEMMA StepFinish ==
    ASSUME WireInv, Finish
    PROVE  WireInv'
<1>1. /\ stream' = "fin" /\ writer > 2 * Len(output.frames)
      /\ UNCHANGED <<output, writer, wire, severed, buf, header, frames, bytes, reader>>
  BY DEF Finish
<1>2. Written' = Written /\ ReadCalls' = ReadCalls /\ Calls' = Calls
  BY <1>1, OutputKept, ReadCallsSame DEF Finish, WireNext
<1>3. WireTypes'
  BY <1>1, <1>2 DEF WireInv, WireTypes
<1>4. FramesInv' /\ ReaderInv'
  BY <1>1, FramesSame, ReaderSame DEF WireInv
<1>5. writer = Calls
  <2> DEFINE N == Len(output.frames)
  <2>1. N \in Nat /\ writer \in 0 .. Calls /\ Calls = 2 * N + 1 /\ writer > 2 * N
    BY <1>1, WireFacts
  <2> HIDE DEF N
  <2> QED BY <2>1
<1>6. WriterInv'
  BY <1>1, <1>2, <1>5 DEF WireInv, WriterInv
<1>7. Reached' = Reached
  BY <1>1, <1>2, Zenon DEF Reached
<1>8. PlaceInv'
  BY <1>1, <1>2, <1>7 DEF WireInv, PlaceInv
<1> QED BY <1>3, <1>4, <1>6, <1>8 DEF WireInv

LEMMA StepCutOff ==
    ASSUME WireInv, CutOff
    PROVE  WireInv'
<1>1. /\ stream' \in {"fin", "lost"} /\ severed' = TRUE
      /\ UNCHANGED <<output, writer, buf, header, frames, bytes, reader>>
  BY DEF CutOff
<1>2. Written' = Written /\ ReadCalls' = ReadCalls /\ Calls' = Calls
  BY <1>1, OutputKept, ReadCallsSame DEF CutOff, WireNext
<1>3. PICK n \in 0 .. Len(wire) : wire' = SubSeq(wire, 1, n)
  BY DEF CutOff
<1>4. /\ Written[ReadCalls] \in Seq(Nat) /\ Written[writer] \in Seq(Nat)
      /\ wire \in Seq(Nat) /\ buf \in Seq(Nat) /\ bytes \in Seq(Nat)
  BY WireFacts
<1>5. wire' \in Seq(Nat)
  BY <1>3, <1>4, JoinParts
<1>6. WireTypes'
  BY <1>1, <1>2, <1>5 DEF WireInv, WireTypes
<1>7. FramesInv' /\ ReaderInv'
  BY <1>1, FramesSame, ReaderSame DEF WireInv
<1>8. WriterInv'
  BY <1>1 DEF WireInv, WriterInv
<1>9. ASSUME reader \in {"frame", "bytes"}
      PROVE  \E l \in Seq(Nat) : Written[writer] = Join(Written[ReadCalls], Join(bytes, Join(buf, Join(wire', l))))
  <2>1. PICK l \in Seq(Nat) : Written[writer] = Join(Written[ReadCalls], Join(bytes, Join(buf, Join(wire, l))))
    BY <1>9, WirePlace
  <2> DEFINE k == Join(SubSeq(wire, n + 1, Len(wire)), l)
  <2>2. k \in Seq(Nat) /\ Join(wire, l) = Join(wire', k)
    BY <1>3, <1>4, PlaceCut
  <2> HIDE DEF k
  <2>3. Written[writer] = Join(Written[ReadCalls], Join(bytes, Join(buf, Join(wire', k))))
    BY <2>1, <2>2, Zenon
  <2> QED BY <2>2, <2>3
<1>10. PlaceInv'
  <2>1. reader' \in {"frame", "bytes"} =>
             /\ Written[ReadCalls'] \in Seq(Nat) /\ Written[writer'] \in Seq(Nat)
             /\ bytes' \in Seq(Nat) /\ buf' \in Seq(Nat) /\ wire' \in Seq(Nat)
             /\ \E l \in Seq(Nat) :
                  /\ Written[writer'] = Join(Written[ReadCalls'], Join(bytes', Join(buf', Join(wire', l))))
                  /\ ~severed' => Nothing(l)
    BY <1>1, <1>2, <1>4, <1>5, <1>9, Zenon
  <2> QED BY <1>2, <2>1, PlaceThen, Zenon
<1> QED BY <1>6, <1>7, <1>8, <1>10 DEF WireInv

-----------------------------------------------------------------------------
(* The reader's steps. *)
LEMMA StepReadSome ==
    ASSUME WireInv, ReadSome
    PROVE  WireInv'
<1>1. reader = "frame" /\ UNCHANGED <<output, writer, stream, severed, header, frames, bytes, reader>>
  BY DEF ReadSome
<1>2. Written' = Written /\ ReadCalls' = ReadCalls /\ Calls' = Calls
  BY <1>1, OutputKept, ReadCallsSame DEF ReadSome, WireNext
<1>3. PICK n \in 1 .. Len(wire) :
        n <= Wanted - Len(buf) /\ buf' = buf \o SubSeq(wire, 1, n) /\ wire' = SubSeq(wire, n + 1, Len(wire))
  BY DEF ReadSome, Rest
<1>4. /\ Written[ReadCalls] \in Seq(Nat) /\ Written[writer] \in Seq(Nat)
      /\ wire \in Seq(Nat) /\ buf \in Seq(Nat) /\ bytes \in Seq(Nat)
  BY WireFacts
<1>5. n \in 0 .. Len(wire) /\ n \in Nat
  BY <1>3, <1>4
<1> DEFINE p == SubSeq(wire, 1, n)
<1>6. wire' \in Seq(Nat) /\ p \in Seq(Nat) /\ Len(p) = n
  BY <1>3, <1>4, <1>5, JoinParts
<1>7. buf' \in Seq(Nat) /\ Len(buf') = Len(buf) + n
  <2>1. buf' = Join(buf, p)
    BY <1>3 DEF Join
  <2> HIDE DEF p
  <2>2. Join(buf, p) \in Seq(Nat) /\ Len(Join(buf, p)) = Len(buf) + Len(p)
    BY <1>4, <1>6, JoinSeq
  <2> QED BY <1>6, <2>1, <2>2
<1>8. WireTypes'
  BY <1>1, <1>2, <1>6, <1>7 DEF WireInv, WireTypes
<1>9. FramesInv' /\ WriterInv'
  BY <1>1, FramesSame, WriterSame DEF WireInv
<1>10. ReaderInv'
  <2>1. Wanted' = Wanted
    BY <1>1 DEF Wanted
  <2>2. Len(buf') <= Wanted'
    <3> DEFINE b == Len(buf)
    <3>1. Wanted \in Nat /\ b \in Nat /\ Len(buf') = b + n /\ n <= Wanted - b
      BY <1>1, <1>3, <1>4, <1>7, NextPart
    <3> HIDE DEF b
    <3>2. b + n <= Wanted
      BY <1>5, <3>1
    <3> QED BY <2>1, <3>1, <3>2
  <2> QED BY <1>1, <2>2 DEF WireInv, ReaderInv
<1>11. \E l \in Seq(Nat) :
          /\ Written[writer] = Join(Written[ReadCalls], Join(bytes, Join(buf', Join(wire', l))))
          /\ ~severed => Nothing(l)
  <2>1. PICK l \in Seq(Nat) : /\ Written[writer] = Join(Written[ReadCalls], Join(bytes, Join(buf, Join(wire, l))))
                              /\ ~severed => Nothing(l)
    BY <1>1, WirePlace
  <2>2. Join(buf, Join(wire, l)) = Join(buf', Join(wire', l))
    <3>1. Join(buf, Join(wire, l)) = Join(buf \o SubSeq(wire, 1, n), Join(SubSeq(wire, n + 1, Len(wire)), l))
      BY <1>4, <1>5, PlaceRead
    <3> QED BY <1>3, <3>1, Zenon
  <2> QED BY <2>1, <2>2, Zenon
<1>12. PlaceInv'
  <2>1. reader' \in {"frame", "bytes"} =>
             /\ Written[ReadCalls'] \in Seq(Nat) /\ Written[writer'] \in Seq(Nat)
             /\ bytes' \in Seq(Nat) /\ buf' \in Seq(Nat) /\ wire' \in Seq(Nat)
             /\ \E l \in Seq(Nat) :
                  /\ Written[writer'] = Join(Written[ReadCalls'], Join(bytes', Join(buf', Join(wire', l))))
                  /\ ~severed' => Nothing(l)
    BY <1>1, <1>2, <1>4, <1>6, <1>7, <1>11, Zenon
  <2> QED BY <1>2, <2>1, PlaceThen, Zenon
<1> QED BY <1>8, <1>9, <1>10, <1>12 DEF WireInv

LEMMA StepReadEnds ==
    ASSUME WireInv, ReadEnds
    PROVE  WireInv'
<1>1. /\ reader = "frame" /\ reader' \in {"Io", "ShortHeader", "ShortPayload"}
      /\ UNCHANGED <<output, writer, wire, stream, severed, buf, header, frames, bytes>>
  BY DEF ReadEnds
<1>2. severed
  BY PartMissing DEF ReadEnds
<1>3. Calls' = Calls /\ bytes = <<>>
  BY <1>1, NextPart DEF Calls
<1>4. WireTypes'
  BY <1>1, <1>3 DEF WireInv, WireTypes
<1>5. FramesInv' /\ WriterInv'
  BY <1>1, FramesSame, WriterSame DEF WireInv
<1>6. ReaderInv'
  BY <1>1, <1>2, <1>3 DEF ReaderInv
<1>7. PlaceInv'
  BY <1>1 DEF PlaceInv
<1> QED BY <1>4, <1>5, <1>6, <1>7 DEF WireInv

(* The place when read_exact has returned. *)
LEMMA PlaceAfterRead ==
    ASSUME WireInv, WireNext, reader = "frame", Complete, ReadCalls' = ReadCalls + 1, buf' = <<>>,
           UNCHANGED <<writer, wire, severed, bytes>>
    PROVE  PlaceInv'
<1> DEFINE r == ReadCalls
           a == Written[r]
           x == Written[writer]
           e == <<>>
<1>1. a \in Seq(Nat) /\ x \in Seq(Nat) /\ wire \in Seq(Nat) /\ buf \in Seq(Nat) /\ output \in Outputs
  BY WireFacts
<1>2. r + 1 \in 0 .. Calls /\ Written[r + 1] = Join(a, buf) /\ bytes = e
  BY NextPart, PartComplete
<1>3. e \in Seq(Nat) /\ Nothing(e)
  BY NoBytes
<1>4. Written[r + 1] \in Seq(Nat)
  BY <1>1, <1>2, WrittenFacts
<1>5. PICK l \in Seq(Nat) : x = Join(a, Join(buf, Join(wire, l))) /\ (~severed => Nothing(l))
  BY BufPlace
<1>6. Join(wire, l) \in Seq(Nat)
  BY <1>1, JoinSeq
<1>b. bytes' = e /\ buf' = e
  BY <1>2
<1> HIDE DEF e
<1>7. Join(a, Join(buf, Join(wire, l))) = Join(Join(a, buf), Join(e, Join(e, Join(wire, l))))
  <2> HIDE DEF a
  <2> QED BY <1>1, <1>3, <1>6, PlaceAdvance
<1>8. x = Join(Written[r + 1], Join(bytes', Join(buf', Join(wire', l))))
  BY <1>2, <1>5, <1>7, <1>b, Zenon
<1>9. Written' = Written
  BY OutputKept
<1>10. reader' \in {"frame", "bytes"} =>
             /\ Written[ReadCalls'] \in Seq(Nat) /\ Written[writer'] \in Seq(Nat)
             /\ bytes' \in Seq(Nat) /\ buf' \in Seq(Nat) /\ wire' \in Seq(Nat)
             /\ \E k \in Seq(Nat) :
                  /\ Written[writer'] = Join(Written[ReadCalls'], Join(bytes', Join(buf', Join(wire', k))))
                  /\ ~severed' => Nothing(k)
  BY <1>1, <1>3, <1>4, <1>5, <1>8, <1>b, Zenon
<1> QED BY <1>9, <1>10, PlaceThen, Zenon

LEMMA StepHeaderRead ==
    ASSUME WireInv, HeaderRead
    PROVE  WireInv'
<1> DEFINE n == Len(frames)
           N == Len(output.frames)
           f == output.frames[n + 1]
<1>1. /\ reader = "frame" /\ header = <<>> /\ Complete
      /\ UNCHANGED <<output, writer, wire, stream, severed, frames, bytes>>
  BY DEF HeaderRead
<1>2. f \in Frame /\ buf = Header(f) /\ n \in Nat /\ N \in Nat /\ n + 1 \in 1 .. N /\ n < N /\ bytes = <<>>
  <2>1. f \in Frame /\ n + 1 \in 1 .. N /\ bytes = <<>> /\ NextWrite(ReadCalls) = Header(f)
    BY <1>1, NextPart
  <2>2. buf = NextWrite(ReadCalls)
    BY <1>1, PartComplete
  <2>3. n \in Nat /\ N \in Nat /\ n < N
    BY <1>1, WireFacts DEF WireInv, ReaderInv
  <2> QED BY <2>1, <2>2, <2>3
<1>3. Encodes(f)
  <2>1. 2 * n < writer
    BY <1>1, PartComplete DEF ReadCalls
  <2>2. 2 * ((n + 1) - 1) < writer
    <3> HIDE DEF n
    <3> QED BY <1>2, <2>1
  <2> QED BY <1>2, <2>2 DEF WireInv, WriterInv
<1>4. U16At(buf, 2) <= MaxPayload /\ U16At(buf, 2) \in Nat
  <2>1. U16At(buf, 2) = Len(EncodePayload(f))
    BY <1>2, HeaderFacts
  <2>2. EncodePayload(f) \in Seq(Nat)
    BY <1>2, CodecBack
  <2>3. Len(EncodePayload(f)) <= MaxPayload
    BY <1>3 DEF Encodes
  <2> QED BY <2>1, <2>2, <2>3
<1>5. ~Oversized(U16At(buf, 2))
  <2> DEFINE k == U16At(buf, 2)
  <2> HIDE DEF k
  <2>1. k \in Nat /\ k <= MaxPayload /\ MaxPayload \in Int
    BY <1>4, FramesAssumption DEF k
  <2>2. ~(k > MaxPayload)
    BY <2>1
  <2> QED BY <2>2 DEF Oversized, k
<1>6. header' = buf /\ buf' = <<>> /\ reader' = reader
  BY <1>5 DEF HeaderRead
<1>7. header' # <<>> /\ header' = Header(f)
  BY <1>2, <1>6, HeaderFacts
<1>8. ReadCalls' = ReadCalls + 1
  <2>1. ReadCalls = 2 * n
    <3>1. ReadCalls = 2 * n + 0
      BY <1>1 DEF ReadCalls
    <3> HIDE DEF n
    <3> QED BY <1>2, <3>1
  <2>2. ReadCalls' = 2 * n + 1
    BY <1>1, <1>7, Zenon DEF ReadCalls
  <2> QED BY <2>1, <2>2, Zenon
<1>9. PlaceInv'
  <2>1. WireNext
    BY DEF WireNext
  <2> QED BY <1>1, <1>6, <1>8, <2>1, PlaceAfterRead
<1>10. WireTypes'
  <2>1. buf' \in Seq(Nat)
    BY <1>6, NoBytes
  <2>2. Calls' = Calls
    BY <1>1 DEF Calls
  <2> QED BY <1>1, <1>6, <2>1, <2>2 DEF WireInv, WireTypes
<1>11. FramesInv'
  <2>1. n <= N /\ frames = SubSeq(output.frames, 1, n)
    BY DEF WireInv, FramesInv
  <2> QED BY <1>1, <1>2, <1>3, <1>7, <2>1, Zenon DEF FramesInv
<1>12. WriterInv'
  BY <1>1, WriterSame DEF WireInv
<1>13. ReaderInv'
  <2>1. Wanted' = Len(EncodePayload(f))
    BY <1>2, <1>7, HeaderFacts DEF Wanted
  <2>2. EncodePayload(f) \in Seq(Nat)
    BY <1>2, CodecBack
  <2>3. Len(buf') <= Wanted'
    BY <1>6, <2>1, <2>2
  <2>4. Len(frames') < Len(output'.frames)
    BY <1>1, <1>2
  <2> QED BY <1>1, <1>2, <1>6, <2>3, <2>4 DEF ReaderInv
<1> QED BY <1>9, <1>10, <1>11, <1>12, <1>13 DEF WireInv

(* The first n + 1 elements, with the next one appended. *)
LEMMA NextPrefix ==
    ASSUME NEW S, NEW s \in Seq(S), NEW n \in Nat, n < Len(s)
    PROVE  Append(SubSeq(s, 1, n), s[n + 1]) = SubSeq(s, 1, n + 1)
<1> DEFINE t == Append(SubSeq(s, 1, n), s[n + 1])
           v == SubSeq(s, 1, n + 1)
<1>0. SubSeq(s, 1, n) \in Seq(S) /\ Len(SubSeq(s, 1, n)) = n /\ \A i \in 1 .. n : SubSeq(s, 1, n)[i] = s[i]
  OBVIOUS
<1>1. s[n + 1] \in S
  OBVIOUS
<1>2. t \in Seq(S) /\ Len(t) = n + 1 /\ t[n + 1] = s[n + 1]
  <2> DEFINE q == SubSeq(s, 1, n)
  <2> HIDE DEF q
  <2>1. q \in Seq(S) /\ Len(q) = n
    BY <1>0 DEF q
  <2> QED BY <1>1, <2>1 DEF q
<1>3. \A i \in 1 .. n : t[i] = s[i]
  <2> DEFINE q == SubSeq(s, 1, n)
  <2> HIDE DEF q
  <2>1. q \in Seq(S) /\ Len(q) = n /\ \A i \in 1 .. n : q[i] = s[i]
    BY <1>0 DEF q
  <2>2. \A i \in 1 .. n : Append(q, s[n + 1])[i] = q[i]
    BY <1>1, <2>1
  <2> QED BY <2>1, <2>2 DEF q
<1>4. v \in Seq(S) /\ Len(v) = n + 1 /\ \A i \in 1 .. n + 1 : v[i] = s[i]
  OBVIOUS
<1> HIDE DEF t, v
<1>5. \A i \in 1 .. n + 1 : t[i] = v[i]
  <2> TAKE i \in 1 .. n + 1
  <2>1. CASE i \in 1 .. n
    BY <1>3, <1>4, <2>1
  <2>2. CASE i = n + 1
    BY <1>2, <1>4, <2>2
  <2> QED BY <2>1, <2>2
<1>6. t = v
  BY <1>2, <1>4, <1>5, SeqEqual
<1> QED BY <1>6 DEF t, v

LEMMA StepPayloadRead ==
    ASSUME WireInv, PayloadRead
    PROVE  WireInv'
<1> DEFINE n == Len(frames)
           N == Len(output.frames)
           f == output.frames[n + 1]
<1>1. /\ reader = "frame" /\ header # <<>> /\ Complete
      /\ UNCHANGED <<output, writer, wire, stream, severed, bytes>> /\ header' = <<>> /\ buf' = <<>>
  BY DEF PayloadRead
<1>2. /\ f \in Frame /\ buf = EncodePayload(f) /\ n \in Nat /\ N \in Nat /\ n + 1 \in 1 .. N /\ n < N
      /\ bytes = <<>> /\ header = Header(f)
  <2>1. f \in Frame /\ n + 1 \in 1 .. N /\ bytes = <<>> /\ NextWrite(ReadCalls) = EncodePayload(f)
    BY <1>1, NextPart
  <2>2. buf = NextWrite(ReadCalls)
    BY <1>1, PartComplete
  <2>3. n \in Nat /\ N \in Nat /\ n < N
    BY <1>1, WireFacts DEF WireInv, ReaderInv
  <2>4. header = Header(f)
    BY <1>1 DEF WireInv, FramesInv
  <2> QED BY <2>1, <2>2, <2>3, <2>4
<1>3. Decode(header[1], buf) = f /\ f \notin {Err, Panic}
  <2>1. header[1] = Tags[f.kind]
    BY <1>2, HeaderFacts
  <2> HIDE DEF f
  <2> QED BY <1>2, <2>1, CodecBack
<1>4. /\ frames' = Append(frames, f)
      /\ reader' = IF Len(frames') = Len(output.frames) THEN "bytes" ELSE "frame"
  <2> HIDE DEF f
  <2> QED BY <1>3, Zenon DEF PayloadRead
<1>5. frames \in Seq(Frame) /\ output.frames \in Seq(Frame) /\ frames = SubSeq(output.frames, 1, n)
  BY OutputFacts DEF WireInv, WireTypes, FramesInv
<1>6. frames' \in Seq(Frame) /\ Len(frames') = n + 1
  <2> HIDE DEF f
  <2> QED BY <1>2, <1>4, <1>5
<1>7. frames' = SubSeq(output.frames, 1, n + 1)
  <2>1. Append(SubSeq(output.frames, 1, n), output.frames[n + 1]) = SubSeq(output.frames, 1, n + 1)
    <3> DEFINE s == output.frames
    <3>1. s \in Seq(Frame) /\ n \in Nat /\ n < Len(s)
      BY <1>2, <1>5
    <3> HIDE DEF s, n
    <3>2. Append(SubSeq(s, 1, n), s[n + 1]) = SubSeq(s, 1, n + 1)
      BY <3>1, NextPrefix
    <3> QED BY <3>2 DEF s
  <2> QED BY <1>4, <1>5, <2>1, Zenon
<1>8. ReadCalls' = ReadCalls + 1
  <2>1. ReadCalls = 2 * n + 1
    BY <1>1, Zenon DEF ReadCalls
  <2>2. ReadCalls' = 2 * (n + 1) + 0
    BY <1>1, <1>6, Zenon DEF ReadCalls
  <2>3. 2 * (n + 1) + 0 = (2 * n + 1) + 1
    <3> HIDE DEF n
    <3> QED BY <1>2
  <2> QED BY <2>1, <2>2, <2>3, Zenon
<1>9. PlaceInv'
  <2>1. WireNext
    BY DEF WireNext
  <2> QED BY <1>1, <1>8, <2>1, PlaceAfterRead
<1>10. reader' \in {"frame", "bytes"}
  BY <1>4
<1>11. WireTypes'
  <2>1. buf' \in Seq(Nat)
    BY <1>1, NoBytes
  <2>2. Calls' = Calls
    BY <1>1 DEF Calls
  <2> QED BY <1>1, <1>6, <1>10, <2>1, <2>2 DEF WireInv, WireTypes
<1>12. FramesInv'
  <2>1. n + 1 <= N
    <3> HIDE DEF n, N
    <3> QED BY <1>2
  <2> QED BY <1>1, <1>6, <1>7, <2>1, Zenon DEF FramesInv
<1>13. WriterInv'
  BY <1>1, WriterSame DEF WireInv
<1>14. ReaderInv'
  <2>1. reader' = "frame" => Len(frames') < Len(output'.frames) /\ Len(buf') <= Wanted'
    <3>1. reader' = "frame" => n + 1 # N
      BY <1>4, <1>6
    <3>2. reader' = "frame" => n + 1 < N
      <4> HIDE DEF n, N
      <4> QED BY <1>2, <3>1
    <3>3. Wanted' = 3 /\ Len(buf') = 0
      BY <1>1, NoBytes DEF Wanted
    <3> QED BY <1>1, <1>6, <3>2, <3>3
  <2>2. reader' = "bytes" => Len(frames') = Len(output'.frames)
    BY <1>1, <1>4
  <2> QED BY <1>1, <1>2, <1>10, <2>1, <2>2 DEF ReaderInv
<1> QED BY <1>9, <1>11, <1>12, <1>13, <1>14 DEF WireInv

LEMMA StepReadBytes ==
    ASSUME WireInv, ReadBytes
    PROVE  WireInv'
<1>1. reader = "bytes" /\ UNCHANGED <<output, writer, stream, severed, buf, header, frames, reader>>
  BY DEF ReadBytes
<1>2. Written' = Written /\ ReadCalls' = ReadCalls /\ Calls' = Calls
  BY <1>1, OutputKept, ReadCallsSame DEF ReadBytes, WireNext
<1>3. PICK n \in 1 .. Len(wire) : bytes' = bytes \o SubSeq(wire, 1, n) /\ wire' = SubSeq(wire, n + 1, Len(wire))
  BY DEF ReadBytes, Rest
<1>4. /\ Written[ReadCalls] \in Seq(Nat) /\ Written[writer] \in Seq(Nat)
      /\ wire \in Seq(Nat) /\ buf \in Seq(Nat) /\ bytes \in Seq(Nat)
  BY WireFacts
<1>5. n \in 0 .. Len(wire) /\ n \in Nat
  BY <1>3, <1>4
<1> DEFINE p == SubSeq(wire, 1, n)
<1>6. wire' \in Seq(Nat) /\ p \in Seq(Nat)
  BY <1>3, <1>4, <1>5, JoinParts
<1>7. bytes' \in Seq(Nat)
  <2>1. bytes' = Join(bytes, p)
    BY <1>3 DEF Join
  <2> HIDE DEF p
  <2>2. Join(bytes, p) \in Seq(Nat)
    BY <1>4, <1>6, JoinSeq
  <2> QED BY <2>1, <2>2
<1>8. WireTypes'
  BY <1>1, <1>2, <1>6, <1>7 DEF WireInv, WireTypes
<1>9. FramesInv' /\ WriterInv'
  BY <1>1, FramesSame, WriterSame DEF WireInv
<1>10. ReaderInv'
  BY <1>1 DEF WireInv, ReaderInv
<1>11. \E l \in Seq(Nat) :
          /\ Written[writer] = Join(Written[ReadCalls], Join(bytes', Join(buf, Join(wire', l))))
          /\ ~severed => Nothing(l)
  <2>1. PICK l \in Seq(Nat) : /\ Written[writer] = Join(Written[ReadCalls], Join(bytes, Join(buf, Join(wire, l))))
                              /\ ~severed => Nothing(l)
    BY <1>1, WirePlace
  <2>2. Nothing(buf)
    BY <1>1 DEF WireInv, ReaderInv, Nothing
  <2>3. Join(buf, Join(wire, l)) = Join(wire, l) /\ Join(buf, Join(wire', l)) = Join(wire', l)
    <3>1. Join(wire, l) \in Seq(Nat) /\ Join(wire', l) \in Seq(Nat)
      BY <1>4, <1>6, JoinSeq
    <3> QED BY <1>4, <2>2, <3>1, NothingBefore
  <2>4. Join(bytes, Join(wire, l)) = Join(bytes', Join(wire', l))
    <3>1. Join(bytes, Join(wire, l)) = Join(bytes \o SubSeq(wire, 1, n), Join(SubSeq(wire, n + 1, Len(wire)), l))
      BY <1>4, <1>5, PlaceRead
    <3> QED BY <1>3, <3>1, Zenon
  <2> QED BY <2>1, <2>3, <2>4, Zenon
<1>12. PlaceInv'
  <2>1. reader' \in {"frame", "bytes"} =>
             /\ Written[ReadCalls'] \in Seq(Nat) /\ Written[writer'] \in Seq(Nat)
             /\ bytes' \in Seq(Nat) /\ buf' \in Seq(Nat) /\ wire' \in Seq(Nat)
             /\ \E l \in Seq(Nat) :
                  /\ Written[writer'] = Join(Written[ReadCalls'], Join(bytes', Join(buf', Join(wire', l))))
                  /\ ~severed' => Nothing(l)
    BY <1>1, <1>2, <1>4, <1>6, <1>7, <1>11, Zenon
  <2> QED BY <1>2, <2>1, PlaceThen, Zenon
<1> QED BY <1>8, <1>9, <1>10, <1>12 DEF WireInv

LEMMA WireStarts ==
    ASSUME WireInit
    PROVE  WireInv
<1> DEFINE N == Len(output.frames)
<1>1. /\ output \in Outputs /\ writer = 0 /\ wire = <<>> /\ stream = "open" /\ severed = FALSE
      /\ buf = <<>> /\ header = <<>> /\ frames = <<>> /\ bytes = <<>> /\ reader = "frame"
  BY DEF WireInit
<1>2. N \in Nat /\ N > 0 /\ Calls = 2 * N + 1 /\ output.frames \in Seq(Frame) /\ Written[0] = <<>>
  BY <1>1, OutputFacts, WrittenFacts
<1>3. WireTypes
  <2>1. writer \in 0 .. Calls
    BY <1>1, <1>2
  <2>2. <<>> \in Seq(Frame) /\ <<>> \in Seq(Nat)
    OBVIOUS
  <2> QED BY <1>1, <2>1, <2>2 DEF WireTypes
<1>4. FramesInv
  <2>1. Len(frames) = 0
    BY <1>1
  <2>2. SubSeq(output.frames, 1, 0) = <<>>
    BY <1>2
  <2>3. 0 <= N
    BY <1>2
  <2> QED BY <1>1, <2>1, <2>2, <2>3, Zenon DEF FramesInv
<1>5. ReaderInv
  <2>1. Len(frames) = 0 /\ Len(buf) = 0 /\ Wanted = 3
    BY <1>1, NoBytes DEF Wanted
  <2> QED BY <1>1, <1>2, <2>1 DEF ReaderInv
<1>6. WriterInv
  <2>1. \A i \in 1 .. N : ~(2 * (i - 1) < 0)
    BY <1>2
  <2> QED BY <1>1, <2>1 DEF WriterInv
<1>7. PlaceInv
  <2> DEFINE e == <<>>
  <2>1. ReadCalls = 0
    BY <1>1, NoBytes DEF ReadCalls
  <2>2. e \in Seq(Nat) /\ e \o e = e /\ IsPrefix(e, e)
    BY DEF IsPrefix
  <2>3. Written[0] = e /\ bytes = e /\ buf = e /\ wire = e /\ writer = 0
    BY <1>1, <1>2
  <2> HIDE DEF e
  <2>4. Reached = e
    BY <2>1, <2>2, <2>3, Zenon DEF Reached
  <2> QED BY <2>2, <2>3, <2>4, Zenon DEF PlaceInv
<1> QED BY <1>3, <1>4, <1>5, <1>6, <1>7 DEF WireInv

LEMMA WireStep ==
    ASSUME WireInv, [WireNext]_wireVars
    PROVE  WireInv'
<1>1. CASE WireNext
  BY <1>1, StepWriteFrame, StepWriteRefused, StepWriteBytes, StepFinish, StepCutOff, StepReadSome,
     StepReadEnds, StepHeaderRead, StepPayloadRead, StepReadBytes, Zenon DEF WireNext
<1>2. CASE UNCHANGED wireVars
  <2>1. UNCHANGED <<output, writer, wire, stream, severed, buf, header, frames, bytes, reader>>
    BY <1>2 DEF wireVars
  <2>2. Written' = Written /\ Calls' = Calls /\ ReadCalls' = ReadCalls
    BY <2>1, OutputKept, ReadCallsSame
  <2>3. WireTypes'
    BY <2>1, <2>2, Zenon DEF WireInv, WireTypes
  <2>4. FramesInv' /\ ReaderInv' /\ WriterInv'
    BY <2>1, FramesSame, ReaderSame, WriterSame DEF WireInv
  <2>5. PlaceInv'
    BY <2>1, <2>2, Zenon DEF WireInv, PlaceInv, Reached
  <2> QED BY <2>3, <2>4, <2>5 DEF WireInv
<1> QED BY <1>1, <1>2

LEMMA WireInvariant == WireSpec => []WireInv
<1>1. WireInit => WireInv
  BY WireStarts
<1>2. WireInv /\ [WireNext]_wireVars => WireInv'
  BY WireStep
<1> QED BY <1>1, <1>2, PTL DEF WireSpec

-----------------------------------------------------------------------------
(* The frames that read_from returns are the first ones that write_to was   *)
(* called with, in order and equal in every field, and the bytes that       *)
(* bridge then finds on the same stream are the tunnel's first bytes, for   *)
(* every sequence of frames, every payload limit that fits the length field *)
(* and every way in which the stream is handed over in portions or cut off. *)
THEOREM FramesRoundTrip == WireSpec => []RoundTrip
<1>1. WireInv => RoundTrip
  <2> SUFFICES ASSUME WireInv PROVE RoundTrip
    OBVIOUS
  <2> DEFINE n == Len(frames)
             N == Len(output.frames)
  <2>1. /\ output \in Outputs /\ n \in Nat /\ N \in Nat /\ n <= N /\ Calls = 2 * N + 1 /\ writer \in 0 .. Calls
        /\ bytes \in Seq(Nat) /\ buf \in Seq(Nat) /\ wire \in Seq(Nat) /\ output.bytes \in Seq(Nat)
        /\ output.frames \in Seq(Frame) /\ frames \in Seq(Frame)
    BY WireFacts, OutputFacts DEF WireInv, WireTypes, FramesInv
  <2>2. frames = SubSeq(output.frames, 1, n)
    BY DEF WireInv, FramesInv
  <2>3. IsPrefix(frames, output.frames)
    <3>1. SubSeq(frames, 1, n) = frames
      BY <2>1, SubSeqFull
    <3> QED BY <2>1, <2>2, <3>1 DEF IsPrefix
  <2>4. CASE reader = "bytes"
    <3>1. n = N /\ Nothing(buf) /\ header = <<>>
      BY <2>4 DEF WireInv, ReaderInv, Nothing
    <3>2. frames = output.frames
      BY <2>1, <2>2, <3>1, SubSeqFull
    <3>3. ReadCalls = 2 * N
      <4>1. ReadCalls = 2 * N + 0
        BY <3>1, Zenon DEF ReadCalls
      <4> HIDE DEF N
      <4> QED BY <2>1, <4>1
    <3> DEFINE a == Written[2 * N]
               x == Written[writer]
    <3>4. a \in Seq(Nat) /\ x \in Seq(Nat)
      BY <3>3, WireFacts
    <3>5. PICK l \in Seq(Nat) : x = Join(a, Join(bytes, Join(buf, Join(wire, l))))
      BY <2>4, <3>3, WirePlace
    <3> DEFINE z == Join(wire, l)
               bz == Join(bytes, z)
    <3>6. z \in Seq(Nat) /\ Join(buf, z) = z
      <4>1. z \in Seq(Nat)
        BY <2>1, JoinSeq
      <4> HIDE DEF z
      <4> QED BY <2>1, <3>1, <4>1, NothingBefore
    <3>7. bz \in Seq(Nat) /\ x = Join(a, bz) /\ Len(bz) = Len(bytes) + Len(z)
      <4>1. x = Join(a, bz)
        BY <3>5, <3>6, Zenon
      <4> HIDE DEF z
      <4>2. bz \in Seq(Nat) /\ Len(bz) = Len(bytes) + Len(z)
        BY <2>1, <3>6, JoinSeq
      <4> QED BY <4>1, <4>2
    <3>8. CASE writer = Calls
      <4>1. x = Join(a, output.bytes)
        <5>1. 2 * N \in 0 .. Calls - 1 /\ Calls = (2 * N) + 1
          <6> HIDE DEF N
          <6> QED BY <2>1
        <5>2. Written[(2 * N) + 1] = Join(Written[2 * N], NextWrite(2 * N))
          BY <2>1, <5>1, WrittenFacts
        <5>3. NextWrite(2 * N) = output.bytes
          BY Zenon DEF NextWrite
        <5> QED BY <3>8, <5>1, <5>2, <5>3, Zenon
      <4> HIDE DEF a, x, bz
      <4>2. output.bytes = bz
        BY <2>1, <3>4, <3>7, <4>1, JoinCancels
      <4>3. output.bytes = Join(bytes, z)
        BY <4>2 DEF bz
      <4>4. IsPrefix(bytes, output.bytes)
        <5> HIDE DEF z
        <5> QED BY <2>1, <3>6, <4>3, PrefixJoin
      <4> QED BY <2>3, <3>2, <4>4 DEF RoundTrip
    <3>9. CASE writer # Calls
      <4>1. writer <= 2 * N /\ 2 * N \in 0 .. Calls
        <5> HIDE DEF N
        <5> QED BY <2>1, <3>9
      <4>2. PICK v \in Seq(Nat) : a = Join(x, v)
        BY <2>1, <4>1, WrittenGrows
      <4> HIDE DEF a, x, bz, z
      <4>3. Len(Join(x, v)) = Len(x) + Len(v) /\ Len(Join(a, bz)) = Len(a) + Len(bz)
        BY <3>4, <3>7, JoinSeq
      <4>4. Len(a) = Len(x) + Len(v) /\ Len(x) = Len(a) + Len(bz)
        BY <3>7, <4>2, <4>3, Zenon
      <4>5. /\ Len(a) \in Nat /\ Len(x) \in Nat /\ Len(v) \in Nat /\ Len(bz) \in Nat
            /\ Len(bytes) \in Nat /\ Len(z) \in Nat
        BY <2>1, <3>4, <3>6, <3>7, SMTT(30)
      <4>6. Len(bz) = 0
        BY <4>4, <4>5
      <4>7. Len(bytes) = 0
        <5> DEFINE i == Len(bytes)  j == Len(z)
        <5>1. i \in Nat /\ j \in Nat /\ i + j = 0
          BY <3>7, <4>5, <4>6
        <5> HIDE DEF i, j
        <5>2. i = 0
          BY <5>1
        <5> QED BY <5>2 DEF i
      <4>8. bytes = <<>>
        BY <2>1, <4>7, EmptyIff
      <4>9. IsPrefix(bytes, output.bytes)
        <5>1. Join(bytes, output.bytes) = output.bytes
          BY <2>1, <4>8, JoinEmpty
        <5> QED BY <2>1, <5>1, PrefixJoin
      <4> QED BY <2>3, <4>8, <4>9, Zenon DEF RoundTrip
    <3> QED BY <3>8, <3>9
  <2>5. CASE reader # "bytes"
    <3>1. bytes = <<>>
      BY <2>5 DEF WireInv, ReaderInv
    <3>2. Join(bytes, output.bytes) = output.bytes
      BY <2>1, <3>1, JoinEmpty
    <3>3. IsPrefix(bytes, output.bytes)
      BY <2>1, <3>2, PrefixJoin
    <3> QED BY <2>3, <3>1, <3>3, Zenon DEF RoundTrip
  <2> QED BY <2>4, <2>5
<1> QED BY <1>1, WireInvariant, PTL

(* read_from fails only on a stream that was cut off, and even there it     *)
(* ends with the error of a short read: it never refuses the length of a    *)
(* frame that write_to wrote, and decode never refuses one or panics.       *)
THEOREM ErrorsMeanCuts == WireSpec => []ErrorMeansCut
<1>1. WireInv => ErrorMeansCut
  BY DEF WireInv, WireTypes, ReaderInv, ErrorMeansCut
<1> QED BY <1>1, WireInvariant, PTL

=============================================================================
