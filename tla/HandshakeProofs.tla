-------------------------- MODULE HandshakeProofs ---------------------------
(***************************************************************************)
(* Opening a tunnel, for every set of configuration files, consumers and   *)
(* attempts: an accepted file means what it says, and whoever is served    *)
(* holds the secret of the service it asked for.                           *)
(***************************************************************************)
EXTENDS Handshake, TLAPS

(* The row and the secret of an attempt are those of the row that serves it. *)
Authorised(r) ==
    /\ r.handler # "none"
    /\ r.spec.kind \in {"expose", "static"}
    /\ r.spec.row.name = r.row.name
    /\ r.spec.row.shared_secret = r.row.shared_secret

(* The frames an attempt can have under way: a proof is made of the         *)
(* consumer's own row, and nobody is told AuthOk who is not authorised.     *)
UpFrames(r) ==
    {Frame("DataOpen"), Frame("AuthHello")}
    \cup {AuthProof(ComputeProof(r.row.shared_secret, r.row.name, k)) : k \in Conns}
DownFrames(r) ==
    {Frame("AuthErr")} \cup {AuthNonce(k) : k \in Conns}
    \cup {f \in {Frame("AuthOk")} : Authorised(r)}

(* The fields of an attempt. *)
Fields(r) ==
    /\ DOMAIN r = DOMAIN Idle
    /\ r.consumer \in {"idle", "nonce", "verdict", "live", "auth_error", "error", "closed"}
    /\ r.path \in {"direct", "relay"}
    /\ r.relay \in {"none", "open", "dial", "copy", "ended"}
    /\ r.request \in BOOLEAN /\ r.reply \in BOOLEAN
    /\ r.handler \in {"none", "accept", "proof", "backend", "serve", "ended"}
    /\ r.open \subseteq {1, 2}

Queues(r) ==
    /\ r.up \in [{1, 2} -> Seq(UpFrames(r))]
    /\ r.down \in [{1, 2} -> Seq(DownFrames(r))]

(* The handler of an attempt is the one the router has for its row's name.  *)
Routed(r) ==
    /\ r.row \in Rows
    /\ r.relay \in {"open", "dial"} => r.handler = "none"
    /\ r.handler # "none" => r.spec.kind \in {"expose", "static"} /\ r.spec.row.name = r.row.name
    /\ r.consumer = "live" \/ r.handler \in {"backend", "serve"} => Authorised(r)

(* Each side waits for the other: there is one frame under way, but for the *)
(* first two of the relay path.                                             *)
Size(q) == Len(q)
Under(r) == Size(r.up[1]) + Size(r.up[2]) + Size(r.down[1]) + Size(r.down[2])
Alternating(r) ==
    /\ r.relay = "open" =>
         /\ ~r.request /\ ~r.reply
         /\ Size(r.up[1]) <= 2 /\ r.up[2] = <<>> /\ r.down[1] = <<>> /\ r.down[2] = <<>>
    /\ r.relay # "open" => Under(r) <= 1

Attempt(r) == Fields(r) /\ Queues(r) /\ Routed(r) /\ Alternating(r)
ConnInv(r) == r = Idle \/ Attempt(r)

(* What runs was started from a file that its program accepts. *)
Started ==
    /\ server # None => server \in Configs /\ StartsServer(server)
    /\ provider # None => provider \in Configs /\ StartsClient(provider)
    /\ starts \in 0 .. MaxStarts /\ faults \in 0 .. MaxFaults

HandshakeInv ==
    /\ Started
    /\ conn = [k \in Conns |-> conn[k]]
    /\ \A k \in Conns : ConnInv(conn[k])

-----------------------------------------------------------------------------
(* The tables of a configuration. *)

LEMMA ArrayDomain ==
    ASSUME NEW rows, IsArray(rows)
    PROVE  Len(rows) \in Nat /\ DOMAIN rows = 1 .. Len(rows)
BY DEF IsArray

LEMMA FunctionIsArray ==
    ASSUME NEW n \in Nat, NEW f, f = [i \in 1 .. n |-> f[i]]
    PROVE  IsArray(f) /\ Len(f) = n
<1>1. f \in [1 .. n -> {f[i] : i \in DOMAIN f}]
  OBVIOUS
<1> QED BY <1>1 DEF IsArray

LEMMA SeqIsArray ==
    ASSUME NEW S, NEW q \in Seq(S)
    PROVE  IsArray(q)
<1>1. Len(q) \in Nat /\ q = [i \in 1 .. Len(q) |-> q[i]]
  OBVIOUS
<1> QED BY <1>1, FunctionIsArray

(* u holds the rows of s and then those of t. *)
Joins(u, s, t) ==
    /\ IsArray(u) /\ Len(u) = Len(s) + Len(t)
    /\ \A i \in 1 .. Len(s) : u[i] = s[i]
    /\ \A i \in 1 .. Len(t) : u[Len(s) + i] = t[i]

LEMMA Concat ==
    ASSUME NEW s, NEW t, IsArray(s), IsArray(t)
    PROVE  Joins(s \o t, s, t)
<1> DEFINE S == {s[i] : i \in DOMAIN s} \cup {t[i] : i \in DOMAIN t}
<1>1. s \in Seq(S) /\ t \in Seq(S)
  BY DEF IsArray
<1> HIDE DEF S
<1>2. /\ s \o t \in Seq(S) /\ Len(s \o t) = Len(s) + Len(t)
      /\ \A i \in 1 .. Len(s) : (s \o t)[i] = s[i]
      /\ \A i \in 1 .. Len(t) : (s \o t)[Len(s) + i] = t[i]
  BY <1>1
<1> QED BY <1>2, SeqIsArray DEF Joins

(* With unique keys every row is found under its key. *)
LEMMA UniqueTable ==
    ASSUME NEW keys, NEW entries, DOMAIN keys \subseteq Nat, Unique(keys), NEW i \in DOMAIN keys
    PROVE  keys[i] \in DOMAIN TableOf(keys, entries) /\ TableOf(keys, entries)[keys[i]] = entries[i]
<1>1. LastRow(keys, keys[i]) = i
  <2>1. keys[i] = keys[i] /\ \A j \in DOMAIN keys : keys[j] = keys[i] => j <= i
    BY DEF Unique
  <2>2. \A m \in DOMAIN keys : keys[m] = keys[i] => m = i
    BY DEF Unique
  <2> QED BY <2>1, <2>2 DEF LastRow
<1> QED BY <1>1 DEF TableOf

LEMMA TableDomain ==
    ASSUME NEW keys, NEW entries
    PROVE  DOMAIN TableOf(keys, entries) = {keys[i] : i \in DOMAIN keys}
BY DEF TableOf

(* The keys and the handlers of the client's router, row by row. *)
LEMMA RouterRows ==
    ASSUME NEW c, IsArray(c.expose), IsArray(c.static), StartsClient(c)
    PROVE  /\ Router(c)[AlpnControl] = [kind |-> "control", row |-> None]
           /\ \A i \in DOMAIN c.expose :
                Router(c)[AlpnForService(c.expose[i].name)] = [kind |-> "expose", row |-> c.expose[i]]
           /\ \A i \in DOMAIN c.static :
                Router(c)[AlpnForService(c.static[i].name)] = [kind |-> "static", row |-> c.static[i]]
           /\ DOMAIN Router(c) = {AlpnControl} \cup {AlpnForService(name) : name \in Names(c.expose) \cup Names(c.static)}
<1> DEFINE m == Len(c.expose)
           n == Len(c.static)
           rows == c.expose \o c.static
           first == <<[kind |-> "control", row |-> None]>>
           exposed == [i \in DOMAIN c.expose |-> [kind |-> "expose", row |-> c.expose[i]]]
           served == [i \in DOMAIN c.static |-> [kind |-> "static", row |-> c.static[i]]]
           handlers == first \o exposed \o served
           named == [i \in DOMAIN rows |-> AlpnForService(rows[i].name)]
           alpns == <<AlpnControl>> \o named
<1>0. m \in Nat /\ n \in Nat /\ DOMAIN c.expose = 1 .. m /\ DOMAIN c.static = 1 .. n
  BY ArrayDomain
<1>1. ValidateClient(c)
  BY DEF StartsClient, Validate
<1>2. /\ DOMAIN rows = 1 .. m + n
      /\ \A i \in 1 .. m : rows[i] = c.expose[i]
      /\ \A i \in 1 .. n : rows[m + i] = c.static[i]
  <2>1. /\ IsArray(rows) /\ Len(rows) = m + n
        /\ \A i \in 1 .. m : rows[i] = c.expose[i]
        /\ \A i \in 1 .. n : rows[m + i] = c.static[i]
    <3>1. Joins(rows, c.expose, c.static)
      BY Concat
    <3> HIDE DEF rows
    <3> QED BY <3>1 DEF Joins
  <2> HIDE DEF rows, m, n
  <2> QED BY <2>1, ArrayDomain
<1>3. /\ DOMAIN alpns = 1 .. 1 + m + n
      /\ alpns[1] = AlpnControl
      /\ \A i \in 1 .. m + n : alpns[1 + i] = AlpnForService(rows[i].name)
  <2> HIDE DEF rows
  <2>1. IsArray(named) /\ Len(named) = m + n
    <3>1. named = [i \in 1 .. m + n |-> named[i]]
      BY <1>2
    <3> HIDE DEF named, m, n
    <3>2. m + n \in Nat
      BY <1>0
    <3> QED BY <3>1, <3>2, FunctionIsArray
  <2>2. IsArray(<<AlpnControl>>) /\ Len(<<AlpnControl>>) = 1 /\ <<AlpnControl>>[1] = AlpnControl
    BY DEF IsArray
  <2>3. \A i \in 1 .. m + n : named[i] = AlpnForService(rows[i].name)
    BY <1>2
  <2> HIDE DEF named, m, n
  <2>4. /\ IsArray(alpns) /\ Len(alpns) = 1 + (m + n)
        /\ \A i \in 1 .. 1 : alpns[i] = <<AlpnControl>>[i]
        /\ \A i \in 1 .. m + n : alpns[1 + i] = named[i]
    <3>0. Joins(alpns, <<AlpnControl>>, named)
      BY <2>1, <2>2, Concat
    <3> HIDE DEF alpns
    <3>1. /\ IsArray(alpns) /\ Len(alpns) = Len(<<AlpnControl>>) + Len(named)
          /\ \A i \in 1 .. Len(<<AlpnControl>>) : alpns[i] = <<AlpnControl>>[i]
          /\ \A i \in 1 .. Len(named) : alpns[Len(<<AlpnControl>>) + i] = named[i]
      BY <3>0 DEF Joins
    <3> QED BY <2>1, <2>2, <3>1
  <2> HIDE DEF alpns
  <2> QED BY <1>0, <2>2, <2>3, <2>4, ArrayDomain
<1>4. /\ handlers[1] = [kind |-> "control", row |-> None]
      /\ \A i \in 1 .. m : handlers[1 + i] = [kind |-> "expose", row |-> c.expose[i]]
      /\ \A i \in 1 .. n : handlers[1 + m + i] = [kind |-> "static", row |-> c.static[i]]
  <2>1. IsArray(exposed) /\ Len(exposed) = m
    <3>1. exposed = [i \in 1 .. m |-> exposed[i]]
      BY <1>0
    <3> HIDE DEF exposed, m
    <3> QED BY <1>0, <3>1, FunctionIsArray
  <2>2. IsArray(served) /\ Len(served) = n
    <3>1. served = [i \in 1 .. n |-> served[i]]
      BY <1>0
    <3> HIDE DEF served, n
    <3> QED BY <1>0, <3>1, FunctionIsArray
  <2>3. IsArray(first) /\ Len(first) = 1 /\ first[1] = [kind |-> "control", row |-> None]
    BY DEF IsArray
  <2>4. /\ \A i \in 1 .. m : exposed[i] = [kind |-> "expose", row |-> c.expose[i]]
        /\ \A i \in 1 .. n : served[i] = [kind |-> "static", row |-> c.static[i]]
    BY <1>0
  <2> HIDE DEF first, exposed, served, m, n
  <2>5. /\ handlers[1] = first[1]
        /\ \A i \in 1 .. m : handlers[1 + i] = exposed[i]
        /\ \A i \in 1 .. n : handlers[1 + m + i] = served[i]
    <3> DEFINE both == first \o exposed
    <3>0. Joins(both, first, exposed)
      BY <2>1, <2>3, Concat
    <3>6. Joins(handlers, both, served)
      <4>1. IsArray(both)
        BY <3>0 DEF Joins
      <4> QED BY <2>2, <4>1, Concat
    <3> HIDE DEF both, handlers
    <3>1. /\ IsArray(both) /\ Len(both) = Len(first) + Len(exposed)
          /\ \A i \in 1 .. Len(first) : both[i] = first[i]
          /\ \A i \in 1 .. Len(exposed) : both[Len(first) + i] = exposed[i]
      BY <3>0 DEF Joins
    <3>2. /\ \A i \in 1 .. Len(both) : handlers[i] = both[i]
          /\ \A i \in 1 .. Len(served) : handlers[Len(both) + i] = served[i]
      BY <3>6 DEF Joins
    <3>3. Len(both) = 1 + m
      BY <1>0, <2>1, <2>3, <3>1
    <3>4. /\ \A i \in 1 .. 1 : both[i] = first[i]
          /\ \A i \in 1 .. m : both[1 + i] = exposed[i]
      BY <2>1, <2>3, <3>1
    <3>5. /\ \A i \in 1 .. 1 + m : handlers[i] = both[i]
          /\ \A i \in 1 .. n : handlers[1 + m + i] = served[i]
      BY <2>2, <3>2, <3>3
    <3> QED BY <1>0, <3>4, <3>5
  <2> QED BY <2>3, <2>4, <2>5
<1>5. Router(c) = TableOf(alpns, handlers)
  BY DEF Router
<1>6. \A x, y : AlpnForService(x) = AlpnForService(y) => x = y
  BY DEF AlpnForService
<1>7. /\ \A i \in 1 .. m : alpns[1 + i] = AlpnForService(c.expose[i].name)
      /\ \A i \in 1 .. n : alpns[1 + m + i] = AlpnForService(c.static[i].name)
  <2> HIDE DEF m, n, rows, alpns
  <2>1. \A i \in 1 .. m : i \in 1 .. m + n
    BY <1>0
  <2>2. \A i \in 1 .. n : m + i \in 1 .. m + n /\ 1 + (m + i) = 1 + m + i
    BY <1>0
  <2> QED BY <1>2, <1>3, <2>1, <2>2
<1>8. Control \in Reserved
  BY ConfigAssumption
<1>9. /\ \A i \in 1 .. m : c.expose[i].name # Control
      /\ \A i \in 1 .. n : c.static[i].name # Control
  <2>1. /\ \A i \in DOMAIN c.expose : c.expose[i].name \notin Reserved
        /\ \A i \in DOMAIN c.static : c.static[i].name \notin Reserved
    BY <1>1, Zenon DEF ValidateClient, ValidateStatic, ValidateRow, ValidateServiceName
  <2> HIDE DEF m, n
  <2> QED BY <1>0, <1>8, <2>1
<1>10. /\ \A i, j \in 1 .. m : c.expose[i].name = c.expose[j].name => i = j
       /\ \A i, j \in 1 .. n : c.static[i].name = c.static[j].name => i = j
       /\ \A i \in 1 .. m, j \in 1 .. n : c.expose[i].name # c.static[j].name
  <2>1. /\ UniqueNames(c.expose) /\ UniqueNames(c.static)
        /\ Names(c.expose) \cap Names(c.static) = {}
    BY <1>1, Zenon DEF ValidateClient
  <2> HIDE DEF m, n
  <2>2. /\ \A i, j \in DOMAIN c.expose : c.expose[i].name = c.expose[j].name => i = j
        /\ \A i, j \in DOMAIN c.static : c.static[i].name = c.static[j].name => i = j
    BY <2>1 DEF UniqueNames, Unique
  <2>3. \A i \in DOMAIN c.expose, j \in DOMAIN c.static : c.expose[i].name # c.static[j].name
    BY <2>1 DEF Names
  <2> QED BY <1>0, <2>2, <2>3
<1>11. \A p \in 1 .. 1 + m + n :
         \/ p = 1
         \/ \E i \in 1 .. m : p = 1 + i
         \/ \E i \in 1 .. n : p = 1 + m + i
  <2> HIDE DEF m, n
  <2> SUFFICES ASSUME NEW p \in 1 .. 1 + m + n, p # 1, \A i \in 1 .. m : p # 1 + i
               PROVE  \E i \in 1 .. n : p = 1 + m + i
    OBVIOUS
  <2>1. p - 1 \notin 1 .. m
    BY <1>0
  <2>2. p - 1 - m \in 1 .. n /\ p = 1 + m + (p - 1 - m)
    BY <1>0, <2>1
  <2> QED BY <2>2
<1> HIDE DEF m, n, rows, alpns, handlers
<1>12. Unique(alpns)
  <2> SUFFICES ASSUME NEW p \in 1 .. 1 + m + n, NEW q \in 1 .. 1 + m + n, alpns[p] = alpns[q], p # q
               PROVE  FALSE
    BY <1>3 DEF Unique
  <2>1. ASSUME NEW r \in 1 .. 1 + m + n, NEW s \in 1 .. 1 + m + n, alpns[r] = alpns[s], r # s PROVE r # 1
    <3> SUFFICES ASSUME r = 1 PROVE FALSE
      OBVIOUS
    <3>1. CASE \E i \in 1 .. m : s = 1 + i
      BY <1>3, <1>6, <1>7, <1>9, <2>1, <3>1 DEF AlpnControl
    <3>2. CASE \E i \in 1 .. n : s = 1 + m + i
      BY <1>3, <1>6, <1>7, <1>9, <2>1, <3>2 DEF AlpnControl
    <3> QED BY <1>11, <2>1, <3>1, <3>2
  <2>2. p # 1 /\ q # 1
    BY <2>1
  <2>3. CASE \E i \in 1 .. m : p = 1 + i
    <3>1. PICK i \in 1 .. m : p = 1 + i
      BY <2>3
    <3>2. CASE \E j \in 1 .. m : q = 1 + j
      BY <1>6, <1>7, <1>10, <3>1, <3>2
    <3>3. CASE \E j \in 1 .. n : q = 1 + m + j
      BY <1>6, <1>7, <1>10, <3>1, <3>3
    <3> QED BY <1>11, <2>2, <3>2, <3>3
  <2>4. CASE \E i \in 1 .. n : p = 1 + m + i
    <3>1. PICK i \in 1 .. n : p = 1 + m + i
      BY <2>4
    <3>2. CASE \E j \in 1 .. m : q = 1 + j
      BY <1>6, <1>7, <1>10, <3>1, <3>2
    <3>3. CASE \E j \in 1 .. n : q = 1 + m + j
      BY <1>6, <1>7, <1>10, <3>1, <3>3
    <3> QED BY <1>11, <2>2, <3>2, <3>3
  <2> QED BY <1>11, <2>2, <2>3, <2>4
<1>13. \A p \in 1 .. 1 + m + n : Router(c)[alpns[p]] = handlers[p]
  <2>1. DOMAIN alpns \subseteq Nat
    BY <1>0, <1>3
  <2>2. \A p \in DOMAIN alpns : TableOf(alpns, handlers)[alpns[p]] = handlers[p]
    BY <1>12, <2>1, UniqueTable
  <2> QED BY <1>3, <1>5, <2>2
<1>14. /\ 1 \in 1 .. 1 + m + n
       /\ \A i \in 1 .. m : 1 + i \in 1 .. 1 + m + n
       /\ \A i \in 1 .. n : 1 + m + i \in 1 .. 1 + m + n
  BY <1>0
<1>15. DOMAIN Router(c) = {AlpnControl} \cup {AlpnForService(name) : name \in Names(c.expose) \cup Names(c.static)}
  <2>1. DOMAIN Router(c) = {alpns[p] : p \in 1 .. 1 + m + n}
    BY <1>3, <1>5, TableDomain
  <2>2. \A p \in 1 .. 1 + m + n : alpns[p] \in {AlpnControl} \cup {AlpnForService(name) : name \in Names(c.expose) \cup Names(c.static)}
    <3>1. \A i \in 1 .. m : c.expose[i].name \in Names(c.expose)
      BY <1>0 DEF Names
    <3>2. \A i \in 1 .. n : c.static[i].name \in Names(c.static)
      BY <1>0 DEF Names
    <3> QED BY <1>3, <1>7, <1>11, <3>1, <3>2
  <2>3. ASSUME NEW name \in Names(c.expose) PROVE \E p \in 1 .. 1 + m + n : alpns[p] = AlpnForService(name)
    <3>1. PICK i \in 1 .. m : name = c.expose[i].name
      BY <1>0 DEF Names
    <3> QED BY <1>7, <1>14, <3>1
  <2>4. ASSUME NEW name \in Names(c.static) PROVE \E p \in 1 .. 1 + m + n : alpns[p] = AlpnForService(name)
    <3>1. PICK i \in 1 .. n : name = c.static[i].name
      BY <1>0 DEF Names
    <3> QED BY <1>7, <1>14, <3>1
  <2> QED BY <1>3, <1>14, <2>1, <2>2, <2>3, <2>4
<1> QED BY <1>0, <1>3, <1>4, <1>7, <1>13, <1>14, <1>15

(* A new connection for a service is handed to the row of that name. *)
LEMMA RouterServes ==
    ASSUME NEW c, IsArray(c.expose), IsArray(c.static), StartsClient(c),
           NEW name, name \notin Reserved, AlpnForService(name) \in DOMAIN Router(c)
    PROVE  /\ Router(c)[AlpnForService(name)].kind \in {"expose", "static"}
           /\ Router(c)[AlpnForService(name)].row.name = name
<1>1. \A x, y : AlpnForService(x) = AlpnForService(y) => x = y
  BY DEF AlpnForService
<1>2. AlpnForService(name) # AlpnControl
  BY <1>1, ConfigAssumption DEF AlpnControl
<1>3. name \in Names(c.expose) \cup Names(c.static)
  <2>1. DOMAIN Router(c) = {AlpnControl} \cup {AlpnForService(x) : x \in Names(c.expose) \cup Names(c.static)}
    BY RouterRows
  <2> QED BY <1>1, <1>2, <2>1
<1>4. CASE name \in Names(c.expose)
  <2>1. PICK i \in DOMAIN c.expose : name = c.expose[i].name
    BY <1>4 DEF Names
  <2>2. Router(c)[AlpnForService(c.expose[i].name)] = [kind |-> "expose", row |-> c.expose[i]]
    BY RouterRows
  <2> QED BY <2>1, <2>2
<1>5. CASE name \in Names(c.static)
  <2>1. PICK i \in DOMAIN c.static : name = c.static[i].name
    BY <1>5 DEF Names
  <2>2. Router(c)[AlpnForService(c.static[i].name)] = [kind |-> "static", row |-> c.static[i]]
    BY RouterRows
  <2> QED BY <2>1, <2>2
<1> QED BY <1>3, <1>4, <1>5

(* The rows of an accepted client file. *)
LEMMA ClientRows ==
    ASSUME NEW c, IsArray(c.expose), IsArray(c.static), StartsClient(c)
    PROVE  /\ Router(c)[AlpnControl].kind = "control"
           /\ \A i \in DOMAIN c.expose : Router(c)[AlpnForService(c.expose[i].name)].row = c.expose[i]
           /\ \A i \in DOMAIN c.static : Router(c)[AlpnForService(c.static[i].name)].row = c.static[i]
           /\ {AlpnData} \cap DOMAIN Router(c) = {}
<1>1. /\ Router(c)[AlpnControl] = [kind |-> "control", row |-> None]
      /\ \A i \in DOMAIN c.expose :
           Router(c)[AlpnForService(c.expose[i].name)] = [kind |-> "expose", row |-> c.expose[i]]
      /\ \A i \in DOMAIN c.static :
           Router(c)[AlpnForService(c.static[i].name)] = [kind |-> "static", row |-> c.static[i]]
  BY RouterRows
<1>2. DOMAIN Router(c) = {AlpnControl} \cup {AlpnForService(x) : x \in Names(c.expose) \cup Names(c.static)}
  BY RouterRows
<1>3. \A x, y : AlpnForService(x) = AlpnForService(y) => x = y
  BY DEF AlpnForService
<1>4. Data \notin Names(c.expose) \cup Names(c.static)
  <2>1. ValidateClient(c)
    BY DEF StartsClient, Validate
  <2>2. /\ \A i \in DOMAIN c.expose : c.expose[i].name \notin Reserved
        /\ \A i \in DOMAIN c.static : c.static[i].name \notin Reserved
    BY <2>1, Zenon DEF ValidateClient, ValidateStatic, ValidateRow, ValidateServiceName
  <2> QED BY <2>2, ConfigAssumption DEF Names
<1>5. AlpnData \notin DOMAIN Router(c)
  BY <1>2, <1>3, <1>4, ConfigAssumption DEF AlpnData, AlpnControl
<1>6. Router(c)[AlpnControl].kind = "control"
  BY <1>1
<1>7. ASSUME NEW i \in DOMAIN c.expose PROVE Router(c)[AlpnForService(c.expose[i].name)].row = c.expose[i]
  <2>1. Router(c)[AlpnForService(c.expose[i].name)] = [kind |-> "expose", row |-> c.expose[i]]
    BY <1>1
  <2> QED BY <2>1
<1>8. ASSUME NEW i \in DOMAIN c.static PROVE Router(c)[AlpnForService(c.static[i].name)].row = c.static[i]
  <2>1. Router(c)[AlpnForService(c.static[i].name)] = [kind |-> "static", row |-> c.static[i]]
    BY <1>1
  <2> QED BY <2>1
<1>9. {AlpnData} \cap DOMAIN Router(c) = {}
  BY <1>5
<1> QED BY <1>6, <1>7, <1>8, <1>9

(* The rows of an accepted server file. *)
LEMMA ServerRows ==
    ASSUME NEW c, IsArray(c.groups), IsArray(RateOverrides(c)), StartsServer(c)
    PROVE  /\ \A i \in DOMAIN RateOverrides(c) :
                OverrideTable(c)[OverrideIds(c)[i]] = RateOverrides(c)[i].bytes_per_sec
           /\ \A i \in DOMAIN c.groups :
                \/ Authenticate(GroupTable(c), c.groups[i].group_token) = {c.groups[i].name}
                \/ \E j \in DOMAIN c.groups \ {i} : c.groups[j].group_token = c.groups[i].group_token
<1>1. ValidateServer(c)
  BY DEF StartsServer, Validate
<1>2. ASSUME NEW i \in DOMAIN RateOverrides(c)
      PROVE  OverrideTable(c)[OverrideIds(c)[i]] = RateOverrides(c)[i].bytes_per_sec
  <2> DEFINE ids == OverrideIds(c)
             rates == [j \in DOMAIN RateOverrides(c) |-> RateOverrides(c)[j].bytes_per_sec]
  <2>1. DOMAIN ids = DOMAIN RateOverrides(c) /\ DOMAIN ids \subseteq Nat
    BY ArrayDomain DEF OverrideIds
  <2>2. Unique(ids)
    BY <1>1 DEF ValidateServer
  <2>3. OverrideTable(c) = TableOf(ids, rates) /\ rates[i] = RateOverrides(c)[i].bytes_per_sec
    BY DEF OverrideTable
  <2> HIDE DEF ids, rates
  <2>4. TableOf(ids, rates)[ids[i]] = rates[i]
    BY <2>1, <2>2, UniqueTable
  <2> QED BY <2>3, <2>4 DEF ids
<1>3. ASSUME NEW i \in DOMAIN c.groups,
             \A j \in DOMAIN c.groups \ {i} : c.groups[j].group_token # c.groups[i].group_token
      PROVE  Authenticate(GroupTable(c), c.groups[i].group_token) = {c.groups[i].name}
  <2> DEFINE names == [j \in DOMAIN c.groups |-> c.groups[j].name]
             tokens == [j \in DOMAIN c.groups |-> c.groups[j].group_token]
  <2>1. DOMAIN names = DOMAIN c.groups /\ DOMAIN names \subseteq Nat
    BY ArrayDomain
  <2>2. Unique(names)
    BY <1>1 DEF ValidateServer, UniqueNames
  <2>3. /\ GroupTable(c) = TableOf(names, tokens)
        /\ \A j \in DOMAIN c.groups : names[j] = c.groups[j].name /\ tokens[j] = c.groups[j].group_token
    BY DEF GroupTable
  <2> HIDE DEF names, tokens
  <2>4. \A j \in DOMAIN c.groups : TableOf(names, tokens)[names[j]] = tokens[j]
    BY <2>1, <2>2, UniqueTable
  <2>5. DOMAIN TableOf(names, tokens) = {names[j] : j \in DOMAIN c.groups}
    BY <2>1, TableDomain
  <2>6. \A j \in DOMAIN c.groups : tokens[j] = tokens[i] <=> j = i
    BY <1>3, <2>3
  <2>7. Authenticate(TableOf(names, tokens), tokens[i]) = {names[i]}
    BY <2>4, <2>5, <2>6 DEF Authenticate
  <2> QED BY <2>3, <2>7
<1> QED BY <1>2, <1>3

-----------------------------------------------------------------------------
(* Queues of frames. *)
LEMMA ReadFacts ==
    ASSUME NEW S, NEW q \in Seq(S), q # <<>>
    PROVE  Head(q) \in S /\ Tail(q) \in Seq(S) /\ Size(q) \in Nat \ {0} /\ Size(Tail(q)) = Size(q) - 1
BY DEF Size

LEMMA WriteFacts ==
    ASSUME NEW S, NEW q \in Seq(S), NEW x \in S
    PROVE  Append(q, x) \in Seq(S) /\ Size(q) \in Nat /\ Size(Append(q, x)) = Size(q) + 1
BY DEF Size

LEMMA PrefixFacts ==
    ASSUME NEW S, NEW q \in Seq(S), NEW p \in Prefixed(q)
    PROVE  p \in Seq(S) /\ Size(p) \in Nat /\ Size(q) \in Nat /\ Size(p) <= Size(q)
BY DEF Prefixed, Size

LEMMA EmptyFacts ==
    ASSUME NEW S, NEW q \in Seq(S)
    PROVE  Size(q) \in Nat /\ (q = <<>> <=> Size(q) = 0)
BY DEF Size

LEMMA IdleFields ==
    DOMAIN Idle = {"consumer", "path", "row", "relay", "request", "reply", "handler", "spec",
                   "up", "down", "open"}
BY DEF Idle

(* What a step of an attempt that keeps its row and its handler owes.       *)
LEMMA AttemptKept ==
    ASSUME NEW r, NEW s, Attempt(r), Fields(s), s.row = r.row, s.spec = r.spec,
           s.handler = "none" <=> r.handler = "none",
           s.up \in [{1, 2} -> Seq(UpFrames(r))], s.down \in [{1, 2} -> Seq(DownFrames(r))],
           s.consumer = "live" \/ s.handler \in {"backend", "serve"} => Authorised(r),
           s.relay \in {"open", "dial"} => s.handler = "none",
           Alternating(s)
    PROVE  Attempt(s)
<1>1. Authorised(s) <=> Authorised(r)
  BY DEF Authorised
<1>2. UpFrames(s) = UpFrames(r) /\ DownFrames(s) = DownFrames(r)
  BY <1>1 DEF UpFrames, DownFrames
<1>3. Queues(s)
  BY <1>2 DEF Queues
<1>4. Routed(s)
  BY <1>1 DEF Attempt, Routed
<1> QED BY <1>3, <1>4 DEF Attempt

(* The lengths of the queues. *)
LEMMA Lengths ==
    ASSUME NEW r, Attempt(r)
    PROVE  /\ Size(r.up[1]) \in Nat /\ Size(r.up[2]) \in Nat
           /\ Size(r.down[1]) \in Nat /\ Size(r.down[2]) \in Nat
           /\ r.up[1] = <<>> <=> Size(r.up[1]) = 0
           /\ r.up[2] = <<>> <=> Size(r.up[2]) = 0
           /\ r.down[1] = <<>> <=> Size(r.down[1]) = 0
           /\ r.down[2] = <<>> <=> Size(r.down[2]) = 0
<1>1. /\ r.up[1] \in Seq(UpFrames(r)) /\ r.up[2] \in Seq(UpFrames(r))
      /\ r.down[1] \in Seq(DownFrames(r)) /\ r.down[2] \in Seq(DownFrames(r))
  BY DEF Attempt, Queues
<1> QED BY <1>1, EmptyFacts

(* A connection goes down with the last of its frames. *)
LEMMA CutKeeps ==
    ASSUME NEW r, Attempt(r), NEW l \in {1, 2}, NEW s \in Cut(r, l)
    PROVE  Attempt(s)
<1>1. PICK p \in Prefixed(r.up[l]), q \in Prefixed(r.down[l]) :
        s = CutTo(r, l, p, q)
  BY DEF Cut
<1>2. DOMAIN r = DOMAIN Idle
  BY DEF Attempt, Fields
<1>3. /\ DOMAIN s = DOMAIN Idle /\ s.open = r.open \ {l}
      /\ s.up = [r.up EXCEPT ![l] = p] /\ s.down = [r.down EXCEPT ![l] = q]
  BY <1>1, <1>2, IdleFields DEF CutTo
<1>4. /\ s.consumer = r.consumer /\ s.path = r.path /\ s.row = r.row /\ s.relay = r.relay
      /\ s.handler = r.handler /\ s.spec = r.spec
  BY <1>1, <1>2, IdleFields DEF CutTo
<1>5. s.request = r.request
  BY <1>1, <1>2, IdleFields DEF CutTo
<1>6. s.reply = r.reply
  BY <1>1, <1>2, IdleFields DEF CutTo
<1>7. /\ r.up \in [{1, 2} -> Seq(UpFrames(r))] /\ r.down \in [{1, 2} -> Seq(DownFrames(r))]
  BY DEF Attempt, Queues
<1>8. /\ p \in Seq(UpFrames(r)) /\ Size(p) \in Nat /\ Size(p) <= Size(r.up[l])
      /\ q \in Seq(DownFrames(r)) /\ Size(q) \in Nat /\ Size(q) <= Size(r.down[l])
  BY <1>1, <1>7, PrefixFacts
<1>9. s.up \in [{1, 2} -> Seq(UpFrames(r))] /\ s.down \in [{1, 2} -> Seq(DownFrames(r))]
  BY <1>3, <1>7, <1>8
<1>10. Fields(s)
  BY <1>3, <1>4, <1>5, <1>6 DEF Attempt, Fields
<1>11. \A m \in {1, 2} : /\ Size(s.up[m]) \in Nat /\ Size(s.up[m]) <= Size(r.up[m])
                         /\ Size(s.down[m]) \in Nat /\ Size(s.down[m]) <= Size(r.down[m])
  BY <1>3, <1>7, <1>8, Lengths
<1>12. Alternating(s)
  <2>1. /\ s.up[2] = <<>> <=> Size(s.up[2]) = 0
        /\ s.down[1] = <<>> <=> Size(s.down[1]) = 0
        /\ s.down[2] = <<>> <=> Size(s.down[2]) = 0
    BY <1>9, EmptyFacts
  <2>2. CASE r.relay = "open"
    BY <1>4, <1>5, <1>6, <1>11, <2>1, <2>2, Lengths DEF Attempt, Alternating
  <2>3. CASE r.relay # "open"
    <3>1. Size(r.up[1]) + Size(r.up[2]) + Size(r.down[1]) + Size(r.down[2]) <= 1
      BY <2>3 DEF Attempt, Alternating, Under
    <3>2. Size(s.up[1]) + Size(s.up[2]) + Size(s.down[1]) + Size(s.down[2]) <= 1
      <4>1. /\ Size(s.up[1]) \in Nat /\ Size(s.up[1]) <= Size(r.up[1])
            /\ Size(s.up[2]) \in Nat /\ Size(s.up[2]) <= Size(r.up[2])
            /\ Size(s.down[1]) \in Nat /\ Size(s.down[1]) <= Size(r.down[1])
            /\ Size(s.down[2]) \in Nat /\ Size(s.down[2]) <= Size(r.down[2])
        BY <1>11
      <4>2. /\ Size(r.up[1]) \in Nat /\ Size(r.up[2]) \in Nat
            /\ Size(r.down[1]) \in Nat /\ Size(r.down[2]) \in Nat
        BY Lengths
      <4> QED BY <3>1, <4>1, <4>2
    <3> QED BY <1>4, <2>3, <3>2 DEF Alternating, Under
  <2> QED BY <2>2, <2>3
<1>13. s.consumer = "live" \/ s.handler \in {"backend", "serve"} => Authorised(r)
  BY <1>4 DEF Attempt, Routed
<1>14. s.relay \in {"open", "dial"} => s.handler = "none"
  BY <1>4 DEF Attempt, Routed
<1> QED BY <1>4, <1>9, <1>10, <1>12, <1>13, <1>14, AttemptKept

(* The consumer gives up or closes. *)
LEMMA ConsumerOver ==
    ASSUME NEW r, Attempt(r), NEW outcome \in {"auth_error", "error", "closed"},
           NEW s, s = [r EXCEPT !.consumer = outcome]
    PROVE  Attempt(s)
<1>1. DOMAIN r = DOMAIN Idle
  BY DEF Attempt, Fields
<1>2. DOMAIN s = DOMAIN Idle /\ s.consumer = outcome
  BY <1>1, IdleFields
<1>3. /\ s.path = r.path /\ s.row = r.row /\ s.relay = r.relay /\ s.handler = r.handler
      /\ s.spec = r.spec /\ s.up = r.up /\ s.down = r.down /\ s.open = r.open
  BY <1>1, IdleFields
<1>4. s.request = r.request
  BY <1>1, IdleFields
<1>5. s.reply = r.reply
  BY <1>1, IdleFields
<1>6. Fields(s)
  BY <1>2, <1>3, <1>4, <1>5 DEF Attempt, Fields
<1>7. s.up \in [{1, 2} -> Seq(UpFrames(r))] /\ s.down \in [{1, 2} -> Seq(DownFrames(r))]
  BY <1>3 DEF Attempt, Queues
<1>8. Alternating(s)
  BY <1>2, <1>3, <1>4, <1>5 DEF Attempt, Alternating, Under
<1>9. s.consumer = "live" \/ s.handler \in {"backend", "serve"} => Authorised(r)
  BY <1>2, <1>3 DEF Attempt, Routed
<1>10. /\ s.relay \in {"open", "dial"} => s.handler = "none"
       /\ s.handler = "none" <=> r.handler = "none"
  BY <1>2, <1>3 DEF Attempt, Routed
<1> QED BY <1>3, <1>6, <1>7, <1>8, <1>9, <1>10, AttemptKept

(* The relay returns: past DataOpen, or with nothing more to read. *)
LEMMA RelayOver ==
    ASSUME NEW r, Attempt(r), r.relay # "open" \/ r.up[1] = <<>>,
           NEW s, s = [r EXCEPT !.relay = "ended"]
    PROVE  Attempt(s)
<1>1. DOMAIN r = DOMAIN Idle
  BY DEF Attempt, Fields
<1>2. DOMAIN s = DOMAIN Idle /\ s.relay = "ended"
  BY <1>1, IdleFields
<1>3. /\ s.consumer = r.consumer /\ s.path = r.path /\ s.row = r.row /\ s.handler = r.handler
      /\ s.spec = r.spec /\ s.up = r.up /\ s.down = r.down /\ s.open = r.open
  BY <1>1, IdleFields
<1>4. s.request = r.request
  BY <1>1, IdleFields
<1>5. s.reply = r.reply
  BY <1>1, IdleFields
<1>6. Fields(s)
  BY <1>2, <1>3, <1>4, <1>5 DEF Attempt, Fields
<1>7. s.up \in [{1, 2} -> Seq(UpFrames(r))] /\ s.down \in [{1, 2} -> Seq(DownFrames(r))]
  BY <1>3 DEF Attempt, Queues
<1>8. Alternating(s)
  <2>1. CASE r.relay # "open"
    BY <1>2, <1>3, <2>1 DEF Attempt, Alternating, Under
  <2>2. CASE r.relay = "open"
    <3>1. r.up[1] = <<>> /\ r.up[2] = <<>> /\ r.down[1] = <<>> /\ r.down[2] = <<>>
      BY <2>2 DEF Attempt, Alternating
    <3>2. Size(s.up[1]) = 0 /\ Size(s.up[2]) = 0 /\ Size(s.down[1]) = 0 /\ Size(s.down[2]) = 0
      BY <1>3, <3>1 DEF Size
    <3> QED BY <1>2, <3>2 DEF Alternating, Under
  <2> QED BY <2>1, <2>2
<1>9. s.consumer = "live" \/ s.handler \in {"backend", "serve"} => Authorised(r)
  BY <1>2, <1>3 DEF Attempt, Routed
<1>10. /\ s.relay \in {"open", "dial"} => s.handler = "none"
       /\ s.handler = "none" <=> r.handler = "none"
  BY <1>2, <1>3 DEF Attempt, Routed
<1> QED BY <1>3, <1>6, <1>7, <1>8, <1>9, <1>10, AttemptKept

(* One of the two copies ends. *)
LEMMA RequestOver ==
    ASSUME NEW r, Attempt(r),
           NEW s, s = [r EXCEPT !.request = FALSE]
    PROVE  Attempt(s)
<1>1. DOMAIN r = DOMAIN Idle
  BY DEF Attempt, Fields
<1>2. DOMAIN s = DOMAIN Idle
  BY <1>1, IdleFields
<1>3. /\ s.consumer = r.consumer /\ s.path = r.path /\ s.row = r.row /\ s.relay = r.relay
      /\ s.handler = r.handler /\ s.spec = r.spec /\ s.up = r.up /\ s.down = r.down /\ s.open = r.open
  BY <1>1, IdleFields
<1>4. s.request = FALSE
  BY <1>1, IdleFields
<1>5. s.reply = r.reply
  BY <1>1, IdleFields
<1>6. Fields(s)
  BY <1>2, <1>3, <1>4, <1>5 DEF Attempt, Fields
<1>7. s.up \in [{1, 2} -> Seq(UpFrames(r))] /\ s.down \in [{1, 2} -> Seq(DownFrames(r))]
  BY <1>3 DEF Attempt, Queues
<1>8. Alternating(s)
  BY <1>2, <1>3, <1>4, <1>5 DEF Attempt, Alternating, Under
<1>9. s.consumer = "live" \/ s.handler \in {"backend", "serve"} => Authorised(r)
  BY <1>2, <1>3 DEF Attempt, Routed
<1>10. /\ s.relay \in {"open", "dial"} => s.handler = "none"
       /\ s.handler = "none" <=> r.handler = "none"
  BY <1>2, <1>3 DEF Attempt, Routed
<1> QED BY <1>3, <1>6, <1>7, <1>8, <1>9, <1>10, AttemptKept

LEMMA ReplyOver ==
    ASSUME NEW r, Attempt(r),
           NEW s, s = [r EXCEPT !.reply = FALSE]
    PROVE  Attempt(s)
<1>1. DOMAIN r = DOMAIN Idle
  BY DEF Attempt, Fields
<1>2. DOMAIN s = DOMAIN Idle
  BY <1>1, IdleFields
<1>3. /\ s.consumer = r.consumer /\ s.path = r.path /\ s.row = r.row /\ s.relay = r.relay
      /\ s.handler = r.handler /\ s.spec = r.spec /\ s.up = r.up /\ s.down = r.down /\ s.open = r.open
  BY <1>1, IdleFields
<1>4. s.request = r.request
  BY <1>1, IdleFields
<1>5. s.reply = FALSE
  BY <1>1, IdleFields
<1>6. Fields(s)
  BY <1>2, <1>3, <1>4, <1>5 DEF Attempt, Fields
<1>7. s.up \in [{1, 2} -> Seq(UpFrames(r))] /\ s.down \in [{1, 2} -> Seq(DownFrames(r))]
  BY <1>3 DEF Attempt, Queues
<1>8. Alternating(s)
  BY <1>2, <1>3, <1>4, <1>5 DEF Attempt, Alternating, Under
<1>9. s.consumer = "live" \/ s.handler \in {"backend", "serve"} => Authorised(r)
  BY <1>2, <1>3 DEF Attempt, Routed
<1>10. /\ s.relay \in {"open", "dial"} => s.handler = "none"
       /\ s.handler = "none" <=> r.handler = "none"
  BY <1>2, <1>3 DEF Attempt, Routed
<1> QED BY <1>3, <1>6, <1>7, <1>8, <1>9, <1>10, AttemptKept

(* The handler goes on, and to its backend or files only when authorised. *)
LEMMA HandlerBecomes ==
    ASSUME NEW r, Attempt(r), r.handler # "none", NEW next \in {"proof", "backend", "serve", "ended"}, 
           next \in {"backend", "serve"} => Authorised(r),
           NEW s, s = [r EXCEPT !.handler = next]
    PROVE  Attempt(s)
<1>1. DOMAIN r = DOMAIN Idle
  BY DEF Attempt, Fields
<1>2. DOMAIN s = DOMAIN Idle /\ s.handler = next
  BY <1>1, IdleFields
<1>3. /\ s.consumer = r.consumer /\ s.path = r.path /\ s.row = r.row /\ s.relay = r.relay
      /\ s.spec = r.spec /\ s.up = r.up /\ s.down = r.down /\ s.open = r.open
  BY <1>1, IdleFields
<1>4. s.request = r.request
  BY <1>1, IdleFields
<1>5. s.reply = r.reply
  BY <1>1, IdleFields
<1>6. Fields(s)
  BY <1>2, <1>3, <1>4, <1>5 DEF Attempt, Fields
<1>7. s.up \in [{1, 2} -> Seq(UpFrames(r))] /\ s.down \in [{1, 2} -> Seq(DownFrames(r))]
  BY <1>3 DEF Attempt, Queues
<1>8. Alternating(s)
  BY <1>2, <1>3, <1>4, <1>5 DEF Attempt, Alternating, Under
<1>9. s.consumer = "live" \/ s.handler \in {"backend", "serve"} => Authorised(r)
  BY <1>2, <1>3 DEF Attempt, Routed
<1>10. /\ s.relay \in {"open", "dial"} => s.handler = "none"
       /\ s.handler = "none" <=> r.handler = "none"
  BY <1>2, <1>3 DEF Attempt, Routed
<1> QED BY <1>3, <1>6, <1>7, <1>8, <1>9, <1>10, AttemptKept

(* The consumer reads a frame and writes another. *)
LEMMA ConsumerAnswers ==
    ASSUME NEW r, Attempt(r), r.down[1] # <<>>, NEW x \in UpFrames(r),
           NEW s, s = [r EXCEPT !.consumer = "verdict", !.down[1] = Tail(@), !.up[1] = Append(@, x)]
    PROVE  Attempt(s)
<1>1. DOMAIN r = DOMAIN Idle
  BY DEF Attempt, Fields
<1>2. DOMAIN s = DOMAIN Idle /\ s.consumer = "verdict" /\ s.down = [r.down EXCEPT ![1] = Tail(r.down[1])] /\ s.up = [r.up EXCEPT ![1] = Append(r.up[1], x)]
  BY <1>1, IdleFields
<1>3. /\ s.path = r.path /\ s.row = r.row /\ s.relay = r.relay /\ s.handler = r.handler
      /\ s.spec = r.spec /\ s.open = r.open
  BY <1>1, IdleFields
<1>4. s.request = r.request
  BY <1>1, IdleFields
<1>5. s.reply = r.reply
  BY <1>1, IdleFields
<1>6. Fields(s)
  BY <1>2, <1>3, <1>4, <1>5 DEF Attempt, Fields
<1>7. s.up \in [{1, 2} -> Seq(UpFrames(r))] /\ s.down \in [{1, 2} -> Seq(DownFrames(r))]
  <2>1. r.up \in [{1, 2} -> Seq(UpFrames(r))] /\ r.down \in [{1, 2} -> Seq(DownFrames(r))]
    BY DEF Attempt, Queues
  <2>2. Tail(r.down[1]) \in Seq(DownFrames(r)) /\ Append(r.up[1], x) \in Seq(UpFrames(r))
    BY <2>1, ReadFacts, WriteFacts
  <2> QED BY <1>2, <2>1, <2>2
<1>8. Alternating(s)
  <2>1. r.relay # "open"
    BY DEF Attempt, Alternating
  <2>2. /\ Size(s.up[1]) = Size(r.up[1]) + 1 /\ Size(s.down[1]) = Size(r.down[1]) - 1
        /\ Size(s.up[2]) = Size(r.up[2]) /\ Size(s.down[2]) = Size(r.down[2])
    <3>1. r.up \in [{1, 2} -> Seq(UpFrames(r))] /\ r.down \in [{1, 2} -> Seq(DownFrames(r))]
      BY DEF Attempt, Queues
    <3>2. Size(Append(r.up[1], x)) = Size(r.up[1]) + 1 /\ Size(Tail(r.down[1])) = Size(r.down[1]) - 1
      BY <3>1, ReadFacts, WriteFacts
    <3> QED BY <1>2, <3>1, <3>2
  <2>3. Size(r.up[1]) + Size(r.up[2]) + Size(r.down[1]) + Size(r.down[2]) <= 1
    BY <2>1 DEF Attempt, Alternating, Under
  <2>4. /\ Size(r.up[1]) \in Nat /\ Size(r.up[2]) \in Nat
        /\ Size(r.down[1]) \in Nat /\ Size(r.down[2]) \in Nat
    BY Lengths
  <2>5. Size(s.up[1]) + Size(s.up[2]) + Size(s.down[1]) + Size(s.down[2]) <= 1
    BY <2>2, <2>3, <2>4
  <2> QED BY <2>1, <2>5, <1>3 DEF Alternating, Under
<1>9. s.consumer = "live" \/ s.handler \in {"backend", "serve"} => Authorised(r)
  BY <1>2, <1>3 DEF Attempt, Routed
<1>10. /\ s.relay \in {"open", "dial"} => s.handler = "none"
       /\ s.handler = "none" <=> r.handler = "none"
  BY <1>2, <1>3 DEF Attempt, Routed
<1> QED BY <1>3, <1>6, <1>7, <1>8, <1>9, <1>10, AttemptKept

(* The consumer is told that it is authorised. *)
LEMMA ConsumerReads ==
    ASSUME NEW r, Attempt(r), r.down[1] # <<>>, Authorised(r),
           NEW s, s = [r EXCEPT !.consumer = "live", !.down[1] = Tail(@)]
    PROVE  Attempt(s)
<1>1. DOMAIN r = DOMAIN Idle
  BY DEF Attempt, Fields
<1>2. DOMAIN s = DOMAIN Idle /\ s.consumer = "live" /\ s.down = [r.down EXCEPT ![1] = Tail(r.down[1])]
  BY <1>1, IdleFields
<1>3. /\ s.path = r.path /\ s.row = r.row /\ s.relay = r.relay /\ s.handler = r.handler
      /\ s.spec = r.spec /\ s.up = r.up /\ s.open = r.open
  BY <1>1, IdleFields
<1>4. s.request = r.request
  BY <1>1, IdleFields
<1>5. s.reply = r.reply
  BY <1>1, IdleFields
<1>6. Fields(s)
  BY <1>2, <1>3, <1>4, <1>5 DEF Attempt, Fields
<1>7. s.up \in [{1, 2} -> Seq(UpFrames(r))] /\ s.down \in [{1, 2} -> Seq(DownFrames(r))]
  <2>1. r.up \in [{1, 2} -> Seq(UpFrames(r))] /\ r.down \in [{1, 2} -> Seq(DownFrames(r))]
    BY DEF Attempt, Queues
  <2>2. Tail(r.down[1]) \in Seq(DownFrames(r))
    BY <2>1, ReadFacts
  <2> QED BY <1>2, <1>3, <2>1, <2>2
<1>8. Alternating(s)
  <2>1. r.relay # "open"
    BY DEF Attempt, Alternating
  <2>2. /\ Size(s.up[1]) = Size(r.up[1]) /\ Size(s.down[1]) = Size(r.down[1]) - 1
        /\ Size(s.up[2]) = Size(r.up[2]) /\ Size(s.down[2]) = Size(r.down[2])
    <3>1. r.up \in [{1, 2} -> Seq(UpFrames(r))] /\ r.down \in [{1, 2} -> Seq(DownFrames(r))]
      BY DEF Attempt, Queues
    <3>2. Size(Tail(r.down[1])) = Size(r.down[1]) - 1
      BY <3>1, ReadFacts
    <3> QED BY <1>2, <1>3, <3>1, <3>2
  <2>3. Size(r.up[1]) + Size(r.up[2]) + Size(r.down[1]) + Size(r.down[2]) <= 1
    BY <2>1 DEF Attempt, Alternating, Under
  <2>4. /\ Size(r.up[1]) \in Nat /\ Size(r.up[2]) \in Nat
        /\ Size(r.down[1]) \in Nat /\ Size(r.down[2]) \in Nat
    BY Lengths
  <2>5. Size(s.up[1]) + Size(s.up[2]) + Size(s.down[1]) + Size(s.down[2]) <= 1
    BY <2>2, <2>3, <2>4
  <2> QED BY <2>1, <2>5, <1>3 DEF Alternating, Under
<1>9. s.consumer = "live" \/ s.handler \in {"backend", "serve"} => Authorised(r)
  BY <1>2, <1>3 DEF Attempt, Routed
<1>10. /\ s.relay \in {"open", "dial"} => s.handler = "none"
       /\ s.handler = "none" <=> r.handler = "none"
  BY <1>2, <1>3 DEF Attempt, Routed
<1> QED BY <1>3, <1>6, <1>7, <1>8, <1>9, <1>10, AttemptKept

(* The relay reads DataOpen. *)
LEMMA RelayReads ==
    ASSUME NEW r, Attempt(r), r.relay = "open", r.up[1] # <<>>, NEW verdict \in {"dial", "ended"},
           NEW s, s = [r EXCEPT !.relay = verdict, !.up[1] = Tail(@)]
    PROVE  Attempt(s)
<1>1. DOMAIN r = DOMAIN Idle
  BY DEF Attempt, Fields
<1>2. DOMAIN s = DOMAIN Idle /\ s.relay = verdict /\ s.up = [r.up EXCEPT ![1] = Tail(r.up[1])]
  BY <1>1, IdleFields
<1>3. /\ s.consumer = r.consumer /\ s.path = r.path /\ s.row = r.row /\ s.handler = r.handler
      /\ s.spec = r.spec /\ s.down = r.down /\ s.open = r.open
  BY <1>1, IdleFields
<1>4. s.request = r.request
  BY <1>1, IdleFields
<1>5. s.reply = r.reply
  BY <1>1, IdleFields
<1>6. Fields(s)
  BY <1>2, <1>3, <1>4, <1>5 DEF Attempt, Fields
<1>7. s.up \in [{1, 2} -> Seq(UpFrames(r))] /\ s.down \in [{1, 2} -> Seq(DownFrames(r))]
  <2>1. r.up \in [{1, 2} -> Seq(UpFrames(r))] /\ r.down \in [{1, 2} -> Seq(DownFrames(r))]
    BY DEF Attempt, Queues
  <2>2. Tail(r.up[1]) \in Seq(UpFrames(r))
    BY <2>1, ReadFacts
  <2> QED BY <1>2, <1>3, <2>1, <2>2
<1>8. Alternating(s)
  <2>1. r.up \in [{1, 2} -> Seq(UpFrames(r))]
    BY DEF Attempt, Queues
  <2>2. /\ Size(r.up[1]) <= 2 /\ Size(r.up[1]) \in Nat
        /\ r.up[2] = <<>> /\ r.down[1] = <<>> /\ r.down[2] = <<>>
    BY Lengths DEF Attempt, Alternating
  <2>3. Size(Tail(r.up[1])) = Size(r.up[1]) - 1
    BY <2>1, ReadFacts
  <2>4. /\ Size(s.up[1]) = Size(r.up[1]) - 1
        /\ s.up[2] = <<>> /\ s.down[1] = <<>> /\ s.down[2] = <<>>
    BY <1>2, <1>3, <2>1, <2>2, <2>3
  <2>5. Size(s.up[2]) = 0 /\ Size(s.down[1]) = 0 /\ Size(s.down[2]) = 0
    BY <2>4 DEF Size
  <2> QED BY <1>2, <2>2, <2>4, <2>5 DEF Alternating, Under
<1>9. s.consumer = "live" \/ s.handler \in {"backend", "serve"} => Authorised(r)
  BY <1>2, <1>3 DEF Attempt, Routed
<1>10. /\ s.relay \in {"open", "dial"} => s.handler = "none"
       /\ s.handler = "none" <=> r.handler = "none"
  BY <1>2, <1>3 DEF Attempt, Routed
<1> QED BY <1>3, <1>6, <1>7, <1>8, <1>9, <1>10, AttemptKept

(* A copy of the relay moves a frame on. *)
LEMMA RequestCopied ==
    ASSUME NEW r, Attempt(r), r.request, r.up[1] # <<>>,
           NEW s, s = [r EXCEPT !.up[1] = Tail(@), !.up[2] = Append(@, Head(r.up[1]))]
    PROVE  Attempt(s)
<1>1. DOMAIN r = DOMAIN Idle
  BY DEF Attempt, Fields
<1>0. PICK x, y : x = Tail(r.up[1]) /\ y = Append(r.up[2], Head(r.up[1]))
  OBVIOUS
<1>2. DOMAIN s = DOMAIN Idle /\ s.up = [[r.up EXCEPT ![1] = x] EXCEPT ![2] = y]
  BY <1>0, <1>1, IdleFields
<1>3. /\ s.consumer = r.consumer /\ s.path = r.path /\ s.row = r.row /\ s.relay = r.relay
      /\ s.handler = r.handler /\ s.spec = r.spec /\ s.down = r.down /\ s.open = r.open
  BY <1>1, IdleFields
<1>4. s.request = r.request
  BY <1>1, IdleFields
<1>5. s.reply = r.reply
  BY <1>1, IdleFields
<1>6. Fields(s)
  BY <1>2, <1>3, <1>4, <1>5 DEF Attempt, Fields
<1>7. s.up \in [{1, 2} -> Seq(UpFrames(r))] /\ s.down \in [{1, 2} -> Seq(DownFrames(r))]
  <2>1. r.up \in [{1, 2} -> Seq(UpFrames(r))] /\ r.down \in [{1, 2} -> Seq(DownFrames(r))]
    BY DEF Attempt, Queues
  <2>2. x \in Seq(UpFrames(r)) /\ y \in Seq(UpFrames(r))
    BY <1>0, <2>1, ReadFacts, WriteFacts
  <2>3. s.up \in [{1, 2} -> Seq(UpFrames(r))]
    BY ONLY <1>2, <2>1, <2>2
  <2> QED BY <1>3, <2>1, <2>3
<1>8. Alternating(s)
  <2>1. r.relay # "open"
    BY DEF Attempt, Alternating
  <2>2. /\ Size(s.up[1]) = Size(r.up[1]) - 1 /\ Size(s.up[2]) = Size(r.up[2]) + 1
        /\ Size(s.down[1]) = Size(r.down[1]) /\ Size(s.down[2]) = Size(r.down[2])
    <3>1. r.up \in [{1, 2} -> Seq(UpFrames(r))]
      BY DEF Attempt, Queues
    <3>2. Size(x) = Size(r.up[1]) - 1 /\ Size(y) = Size(r.up[2]) + 1
      BY <1>0, <3>1, ReadFacts, WriteFacts
    <3>3. s.up[1] = x /\ s.up[2] = y
      BY ONLY <1>2, <3>1
    <3> QED BY <1>3, <3>2, <3>3
  <2>3. Size(r.up[1]) + Size(r.up[2]) + Size(r.down[1]) + Size(r.down[2]) <= 1
    BY <2>1 DEF Attempt, Alternating, Under
  <2>4. /\ Size(r.up[1]) \in Nat /\ Size(r.up[2]) \in Nat
        /\ Size(r.down[1]) \in Nat /\ Size(r.down[2]) \in Nat
    BY Lengths
  <2>5. Size(s.up[1]) + Size(s.up[2]) + Size(s.down[1]) + Size(s.down[2]) <= 1
    BY <2>2, <2>3, <2>4
  <2> QED BY <2>1, <2>5, <1>3 DEF Alternating, Under
<1>9. s.consumer = "live" \/ s.handler \in {"backend", "serve"} => Authorised(r)
  BY <1>2, <1>3 DEF Attempt, Routed
<1>10. /\ s.relay \in {"open", "dial"} => s.handler = "none"
       /\ s.handler = "none" <=> r.handler = "none"
  BY <1>2, <1>3 DEF Attempt, Routed
<1> QED BY <1>3, <1>6, <1>7, <1>8, <1>9, <1>10, AttemptKept

LEMMA ReplyCopied ==
    ASSUME NEW r, Attempt(r), r.reply, r.down[2] # <<>>,
           NEW s, s = [r EXCEPT !.down[2] = Tail(@), !.down[1] = Append(@, Head(r.down[2]))]
    PROVE  Attempt(s)
<1>1. DOMAIN r = DOMAIN Idle
  BY DEF Attempt, Fields
<1>0. PICK x, y : x = Tail(r.down[2]) /\ y = Append(r.down[1], Head(r.down[2]))
  OBVIOUS
<1>2. DOMAIN s = DOMAIN Idle /\ s.down = [[r.down EXCEPT ![2] = x] EXCEPT ![1] = y]
  BY <1>0, <1>1, IdleFields
<1>3. /\ s.consumer = r.consumer /\ s.path = r.path /\ s.row = r.row /\ s.relay = r.relay
      /\ s.handler = r.handler /\ s.spec = r.spec /\ s.up = r.up /\ s.open = r.open
  BY <1>1, IdleFields
<1>4. s.request = r.request
  BY <1>1, IdleFields
<1>5. s.reply = r.reply
  BY <1>1, IdleFields
<1>6. Fields(s)
  BY <1>2, <1>3, <1>4, <1>5 DEF Attempt, Fields
<1>7. s.up \in [{1, 2} -> Seq(UpFrames(r))] /\ s.down \in [{1, 2} -> Seq(DownFrames(r))]
  <2>1. r.up \in [{1, 2} -> Seq(UpFrames(r))] /\ r.down \in [{1, 2} -> Seq(DownFrames(r))]
    BY DEF Attempt, Queues
  <2>2. x \in Seq(DownFrames(r)) /\ y \in Seq(DownFrames(r))
    BY <1>0, <2>1, ReadFacts, WriteFacts
  <2>3. s.down \in [{1, 2} -> Seq(DownFrames(r))]
    BY ONLY <1>2, <2>1, <2>2
  <2> QED BY <1>3, <2>1, <2>3
<1>8. Alternating(s)
  <2>1. r.relay # "open"
    BY DEF Attempt, Alternating
  <2>2. /\ Size(s.down[2]) = Size(r.down[2]) - 1 /\ Size(s.down[1]) = Size(r.down[1]) + 1
        /\ Size(s.up[1]) = Size(r.up[1]) /\ Size(s.up[2]) = Size(r.up[2])
    <3>1. r.down \in [{1, 2} -> Seq(DownFrames(r))]
      BY DEF Attempt, Queues
    <3>2. Size(x) = Size(r.down[2]) - 1 /\ Size(y) = Size(r.down[1]) + 1
      BY <1>0, <3>1, ReadFacts, WriteFacts
    <3>3. s.down[2] = x /\ s.down[1] = y
      BY ONLY <1>2, <3>1
    <3> QED BY <1>3, <3>2, <3>3
  <2>3. Size(r.up[1]) + Size(r.up[2]) + Size(r.down[1]) + Size(r.down[2]) <= 1
    BY <2>1 DEF Attempt, Alternating, Under
  <2>4. /\ Size(r.up[1]) \in Nat /\ Size(r.up[2]) \in Nat
        /\ Size(r.down[1]) \in Nat /\ Size(r.down[2]) \in Nat
    BY Lengths
  <2>5. Size(s.up[1]) + Size(s.up[2]) + Size(s.down[1]) + Size(s.down[2]) <= 1
    BY <2>2, <2>3, <2>4
  <2> QED BY <2>1, <2>5, <1>3 DEF Alternating, Under
<1>9. s.consumer = "live" \/ s.handler \in {"backend", "serve"} => Authorised(r)
  BY <1>2, <1>3 DEF Attempt, Routed
<1>10. /\ s.relay \in {"open", "dial"} => s.handler = "none"
       /\ s.handler = "none" <=> r.handler = "none"
  BY <1>2, <1>3 DEF Attempt, Routed
<1> QED BY <1>3, <1>6, <1>7, <1>8, <1>9, <1>10, AttemptKept

(* The handler reads a frame and writes another. *)
LEMMA HandlerAnswers ==
    ASSUME NEW r, Attempt(r), r.handler # "none", NEW l \in {1, 2}, r.up[l] # <<>>, NEW x \in DownFrames(r),
           NEW s, s = Answer(r, l, x)
    PROVE  Attempt(s)
<1>1. DOMAIN r = DOMAIN Idle
  BY DEF Attempt, Fields
<1>2. DOMAIN s = DOMAIN Idle /\ s.up = [r.up EXCEPT ![l] = Tail(r.up[l])] /\ s.down = [r.down EXCEPT ![l] = Append(r.down[l], x)]
  BY <1>1, IdleFields DEF Answer
<1>3. /\ s.consumer = r.consumer /\ s.path = r.path /\ s.row = r.row /\ s.relay = r.relay
      /\ s.handler = r.handler /\ s.spec = r.spec /\ s.open = r.open
  BY <1>1, IdleFields DEF Answer
<1>4. s.request = r.request
  BY <1>1, IdleFields DEF Answer
<1>5. s.reply = r.reply
  BY <1>1, IdleFields DEF Answer
<1>6. Fields(s)
  BY <1>2, <1>3, <1>4, <1>5 DEF Attempt, Fields
<1>7. s.up \in [{1, 2} -> Seq(UpFrames(r))] /\ s.down \in [{1, 2} -> Seq(DownFrames(r))]
  <2>1. r.up \in [{1, 2} -> Seq(UpFrames(r))] /\ r.down \in [{1, 2} -> Seq(DownFrames(r))]
    BY DEF Attempt, Queues
  <2>2. Tail(r.up[l]) \in Seq(UpFrames(r)) /\ Append(r.down[l], x) \in Seq(DownFrames(r))
    BY <2>1, ReadFacts, WriteFacts
  <2> QED BY <1>2, <2>1, <2>2
<1>8. Alternating(s)
  <2>1. r.relay # "open"
    BY DEF Attempt, Routed
  <2>2. \A m \in {1, 2} :
          IF m = l THEN Size(s.up[m]) = Size(r.up[m]) - 1 /\ Size(s.down[m]) = Size(r.down[m]) + 1
          ELSE Size(s.up[m]) = Size(r.up[m]) /\ Size(s.down[m]) = Size(r.down[m])
    <3>1. r.up \in [{1, 2} -> Seq(UpFrames(r))] /\ r.down \in [{1, 2} -> Seq(DownFrames(r))]
      BY DEF Attempt, Queues
    <3>2. Size(Append(r.down[l], x)) = Size(r.down[l]) + 1 /\ Size(Tail(r.up[l])) = Size(r.up[l]) - 1
      BY <3>1, ReadFacts, WriteFacts
    <3> QED BY <1>2, <3>1, <3>2
  <2>3. Size(r.up[1]) + Size(r.up[2]) + Size(r.down[1]) + Size(r.down[2]) <= 1
    BY <2>1 DEF Attempt, Alternating, Under
  <2>4. /\ Size(r.up[1]) \in Nat /\ Size(r.up[2]) \in Nat
        /\ Size(r.down[1]) \in Nat /\ Size(r.down[2]) \in Nat
    BY Lengths
  <2>5. Size(s.up[1]) + Size(s.up[2]) + Size(s.down[1]) + Size(s.down[2]) <= 1
    <3>1. CASE l = 1
      <4>1. /\ Size(s.up[1]) = Size(r.up[1]) - 1 /\ Size(s.down[1]) = Size(r.down[1]) + 1
            /\ Size(s.up[2]) = Size(r.up[2]) /\ Size(s.down[2]) = Size(r.down[2])
        BY <2>2, <3>1
      <4> QED BY <2>3, <2>4, <4>1
    <3>2. CASE l = 2
      <4>1. /\ Size(s.up[2]) = Size(r.up[2]) - 1 /\ Size(s.down[2]) = Size(r.down[2]) + 1
            /\ Size(s.up[1]) = Size(r.up[1]) /\ Size(s.down[1]) = Size(r.down[1])
        BY <2>2, <3>2
      <4> QED BY <2>3, <2>4, <4>1
    <3> QED BY <3>1, <3>2
  <2> QED BY <2>1, <2>5, <1>3 DEF Alternating, Under
<1>9. s.consumer = "live" \/ s.handler \in {"backend", "serve"} => Authorised(r)
  BY <1>2, <1>3 DEF Attempt, Routed
<1>10. /\ s.relay \in {"open", "dial"} => s.handler = "none"
       /\ s.handler = "none" <=> r.handler = "none"
  BY <1>2, <1>3 DEF Attempt, Routed
<1> QED BY <1>3, <1>6, <1>7, <1>8, <1>9, <1>10, AttemptKept

(* The relay is connected to the provider. *)
LEMMA RelayCopies ==
    ASSUME NEW r, Attempt(r), r.relay = "dial",
           NEW s, s = [r EXCEPT !.relay = "copy", !.open = @ \cup {2}, !.request = TRUE, !.reply = TRUE]
    PROVE  Attempt(s)
<1>1. DOMAIN r = DOMAIN Idle
  BY DEF Attempt, Fields
<1>2. DOMAIN s = DOMAIN Idle /\ s.relay = "copy" /\ s.open = r.open \cup {2}
  BY <1>1, IdleFields
<1>3. /\ s.consumer = r.consumer /\ s.path = r.path /\ s.row = r.row /\ s.handler = r.handler
      /\ s.spec = r.spec /\ s.up = r.up /\ s.down = r.down
  BY <1>1, IdleFields
<1>4. s.request = TRUE
  BY <1>1, IdleFields
<1>5. s.reply = TRUE
  BY <1>1, IdleFields
<1>6. Fields(s)
  BY <1>2, <1>3, <1>4, <1>5 DEF Attempt, Fields
<1>7. s.up \in [{1, 2} -> Seq(UpFrames(r))] /\ s.down \in [{1, 2} -> Seq(DownFrames(r))]
  BY <1>3 DEF Attempt, Queues
<1>8. Alternating(s)
  BY <1>2, <1>3, <1>4, <1>5 DEF Attempt, Alternating, Under
<1>9. s.consumer = "live" \/ s.handler \in {"backend", "serve"} => Authorised(r)
  BY <1>2, <1>3 DEF Attempt, Routed
<1>10. /\ s.relay \in {"open", "dial"} => s.handler = "none"
       /\ s.handler = "none" <=> r.handler = "none"
  BY <1>2, <1>3 DEF Attempt, Routed
<1> QED BY <1>3, <1>6, <1>7, <1>8, <1>9, <1>10, AttemptKept

(* The router hands the connection to a handler of the row's name. *)
Handed(r, spec) == [r EXCEPT !.handler = "accept", !.spec = spec]

LEMMA HandlerStarts ==
    ASSUME NEW r, Attempt(r), r.handler = "none", r.relay \notin {"open", "dial"},
           NEW spec, spec.kind \in {"expose", "static"}, spec.row.name = r.row.name,
           NEW s, s = Handed(r, spec)
    PROVE  Attempt(s)
<1>1. DOMAIN r = DOMAIN Idle
  BY DEF Attempt, Fields
<1>2. DOMAIN s = DOMAIN Idle /\ s.handler = "accept" /\ s.spec = spec
  BY <1>1, IdleFields DEF Handed
<1>3. /\ s.consumer = r.consumer /\ s.path = r.path /\ s.row = r.row /\ s.relay = r.relay
      /\ s.up = r.up /\ s.down = r.down /\ s.open = r.open
  BY <1>1, IdleFields DEF Handed
<1>4. s.request = r.request
  BY <1>1, IdleFields DEF Handed
<1>5. s.reply = r.reply
  BY <1>1, IdleFields DEF Handed
<1>6. Fields(s)
  BY <1>2, <1>3, <1>4, <1>5 DEF Attempt, Fields
<1>7. ~Authorised(r)
  BY DEF Authorised
<1>8. Queues(s)
  <2>1. UpFrames(s) = UpFrames(r)
    BY ONLY <1>3 DEF UpFrames
  <2>2. DownFrames(r) \subseteq DownFrames(s)
    BY <1>7 DEF DownFrames
  <2>3. r.up \in [{1, 2} -> Seq(UpFrames(r))] /\ r.down \in [{1, 2} -> Seq(DownFrames(r))]
    BY DEF Attempt, Queues
  <2>4. r.down \in [{1, 2} -> Seq(DownFrames(s))]
    BY ONLY <2>2, <2>3
  <2> QED BY ONLY <1>3, <2>1, <2>3, <2>4 DEF Queues
<1>9. r.row \in Rows /\ r.consumer # "live"
  BY <1>7 DEF Attempt, Routed
<1>10. Routed(s)
  BY <1>2, <1>3, <1>9 DEF Routed
<1>11. Alternating(s)
  BY <1>3 DEF Attempt, Alternating, Under
<1> QED BY <1>6, <1>8, <1>10, <1>11 DEF Attempt

(* A new attempt, on the direct path, on the relay path or failed. *)
LEMMA FreshAttempt ==
    ASSUME NEW s, NEW row \in Rows, NEW q \in {<<>>, <<Frame("AuthHello")>>, <<Frame("DataOpen"), Frame("AuthHello")>>},
           DOMAIN s = DOMAIN Idle,
           s.consumer \in {"nonce", "error"}, s.path \in {"direct", "relay"}, s.row = row,
           s.relay \in {"none", "open"}, ~s.request, ~s.reply, s.request \in BOOLEAN, s.reply \in BOOLEAN,
           s.handler = "none", s.open \subseteq {1, 2},
           s.up = [m \in {1, 2} |-> IF m = 1 THEN q ELSE <<>>], s.down = [m \in {1, 2} |-> <<>>],
           Len(q) = 2 => s.relay = "open"
    PROVE  Attempt(s)
<1>1. Fields(s)
  BY DEF Fields
<1>2. q \in Seq(UpFrames(s)) /\ Len(q) \in Nat /\ Len(q) <= 2
  <2>1. Frame("AuthHello") \in UpFrames(s) /\ Frame("DataOpen") \in UpFrames(s)
    BY ONLY TRUE DEF UpFrames
  <2>2. \A x, y \in UpFrames(s) : <<x>> \in Seq(UpFrames(s)) /\ <<x, y>> \in Seq(UpFrames(s))
    BY ONLY TRUE
  <2>3. CASE q = <<>>
    BY ONLY <2>3
  <2>4. CASE q = <<Frame("AuthHello")>>
    BY ONLY <2>1, <2>2, <2>4
  <2>5. CASE q = <<Frame("DataOpen"), Frame("AuthHello")>>
    BY ONLY <2>1, <2>2, <2>5
  <2> QED BY <2>3, <2>4, <2>5
<1>3. /\ s.up[1] = q /\ s.up[2] = <<>> /\ s.down[1] = <<>> /\ s.down[2] = <<>>
  OBVIOUS
<1>4. Queues(s)
  BY <1>2 DEF Queues
<1>5. Routed(s)
  BY DEF Routed
<1>6. Alternating(s)
  <2>1. Size(s.up[1]) = Len(q) /\ Size(s.up[2]) = 0 /\ Size(s.down[1]) = 0 /\ Size(s.down[2]) = 0
    BY ONLY <1>3 DEF Size
  <2>2. s.relay # "open" => Len(q) <= 1
    BY <1>2
  <2> QED BY <1>2, <1>3, <2>1, <2>2 DEF Alternating, Under
<1> QED BY <1>1, <1>4, <1>5, <1>6 DEF Attempt

-----------------------------------------------------------------------------
(* The steps of the programs. *)
LEMMA IdleRests ==
    /\ Idle.consumer = "idle" /\ Idle.relay = "none" /\ Idle.handler = "none"
    /\ ~Idle.request /\ ~Idle.reply /\ Idle.open = {}
BY DEF Idle

LEMMA NotIdle ==
    ASSUME HandshakeInv, NEW k \in Conns,
           \/ conn[k].consumer # "idle" \/ conn[k].relay # "none" \/ conn[k].handler # "none"
           \/ conn[k].request \/ conn[k].reply \/ conn[k].open # {}
    PROVE  Attempt(conn[k])
<1>1. ConnInv(conn[k])
  BY DEF HandshakeInv
<1>2. conn[k] # Idle
  BY IdleRests
<1> QED BY <1>1, <1>2 DEF ConnInv

LEMMA BecomesKeeps ==
    ASSUME HandshakeInv, NEW k \in Conns, NEW s, Attempt(s), Becomes(k, s)
    PROVE  HandshakeInv'
<1>1. Started'
  BY DEF HandshakeInv, Started, Becomes
<1>2. conn = [j \in Conns |-> conn[j]] /\ conn' = [conn EXCEPT ![k] = s]
  BY DEF HandshakeInv, Becomes
<1>3. /\ conn' = [j \in Conns |-> conn'[j]] /\ conn'[k] = s
      /\ \A j \in Conns : j # k => conn'[j] = conn[j]
  BY ONLY <1>2, k \in Conns
<1>4. \A j \in Conns : ConnInv(conn[j])
  BY DEF HandshakeInv
<1>5. ASSUME NEW j \in Conns PROVE ConnInv(conn'[j])
  BY <1>3, <1>4 DEF ConnInv
<1>6. \A j \in Conns : ConnInv(conn[j])'
  BY <1>5
<1> QED BY <1>1, <1>3, <1>6 DEF HandshakeInv

LEMMA FailsKeeps ==
    ASSUME HandshakeInv, NEW k \in Conns, NEW outcome \in {"auth_error", "error", "closed"},
           conn[k].consumer # "idle", Fails(k, outcome)
    PROVE  HandshakeInv'
<1>1. PICK s \in Cut([conn[k] EXCEPT !.consumer = outcome], 1) : Becomes(k, s)
  BY DEF Fails
<1>2. Attempt(conn[k])
  BY NotIdle
<1>3. Attempt([conn[k] EXCEPT !.consumer = outcome])
  BY <1>2, ConsumerOver
<1>4. Attempt(s)
  BY <1>1, <1>3, CutKeeps
<1> QED BY <1>1, <1>4, BecomesKeeps

LEMMA ReturnsKeeps ==
    ASSUME HandshakeInv, NEW k \in Conns, NEW r, Attempt(r), r.handler # "none", Returns(k, r)
    PROVE  HandshakeInv'
<1>1. PICK s \in Cut([r EXCEPT !.handler = "ended"], Far(k)) : Becomes(k, s)
  BY DEF Returns
<1>2. Attempt([r EXCEPT !.handler = "ended"])
  BY HandlerBecomes
<1>3. Far(k) \in {1, 2}
  BY DEF Far
<1>4. Attempt(s)
  BY <1>1, <1>2, <1>3, CutKeeps
<1> QED BY <1>1, <1>4, BecomesKeeps

(* A provider that is reached has a handler for the name. *)
LEMMA RouterAnswers ==
    ASSUME HandshakeInv, NEW row \in Rows, Reachable(row.name)
    PROVE  /\ Router(provider)[AlpnForService(row.name)].kind \in {"expose", "static"}
           /\ Router(provider)[AlpnForService(row.name)].row.name = row.name
<1>1. provider \in Configs /\ StartsClient(provider)
  BY DEF HandshakeInv, Started, Reachable
<1>2. IsArray(provider.expose) /\ IsArray(provider.static)
  BY <1>1, HandshakeAssumption
<1>3. row.name \notin Reserved
  BY HandshakeAssumption, Zenon DEF ValidateRow, ValidateServiceName
<1>4. AlpnForService(row.name) \in DOMAIN Router(provider)
  BY DEF Reachable
<1> QED BY <1>1, <1>2, <1>3, <1>4, RouterServes

LEMMA DialDirectKeeps ==
    ASSUME HandshakeInv, NEW k \in Conns, NEW row \in Rows, DialDirect(k, row)
    PROVE  HandshakeInv'
<1>1. PICK r : r = [Idle EXCEPT !.consumer = "nonce", !.row = row, !.open = {1},
                                !.up[1] = <<Frame("AuthHello")>>]
  OBVIOUS
<1>2. /\ DOMAIN r = DOMAIN Idle /\ r.consumer = "nonce" /\ r.path = "direct" /\ r.row = row
      /\ r.relay = "none" /\ r.handler = "none" /\ r.open = {1}
      /\ r.up = [m \in {1, 2} |-> IF m = 1 THEN <<Frame("AuthHello")>> ELSE <<>>]
      /\ r.down = [m \in {1, 2} |-> <<>>]
  BY <1>1 DEF Idle
<1>3. r.request = FALSE /\ r.reply = FALSE
  BY <1>1 DEF Idle
<1>4. Attempt(r)
  <2>1. Len(<<Frame("AuthHello")>>) # 2
    OBVIOUS
  <2> QED BY <1>2, <1>3, <2>1, FreshAttempt
<1>5. PICK s : s = Accepted(r, row.name) /\ Becomes(k, s)
  BY <1>1 DEF DialDirect
<1>6. PICK spec : spec = Router(provider)[AlpnForService(row.name)]
  OBVIOUS
<1>7. spec.kind \in {"expose", "static"} /\ spec.row.name = r.row.name
  BY <1>2, <1>6, RouterAnswers DEF DialDirect
<1>8. s = Handed(r, spec)
  BY <1>5, <1>6 DEF Accepted, Handed
<1>9. Attempt(s)
  <2>1. r.handler = "none" /\ r.relay \notin {"open", "dial"}
    BY <1>2
  <2> QED BY ONLY <1>4, <1>7, <1>8, <2>1, HandlerStarts
<1> QED BY <1>5, <1>9, BecomesKeeps

LEMMA DialRelayKeeps ==
    ASSUME HandshakeInv, NEW k \in Conns, NEW row \in Rows, DialRelay(k, row)
    PROVE  HandshakeInv'
<1>1. PICK r : /\ r = [Idle EXCEPT !.consumer = "nonce", !.row = row, !.path = "relay", !.open = {1},
                                   !.relay = "open",
                                   !.up[1] = <<Frame("DataOpen"), Frame("AuthHello")>>]
               /\ Becomes(k, r)
  BY DEF DialRelay
<1>2. /\ DOMAIN r = DOMAIN Idle /\ r.consumer = "nonce" /\ r.path = "relay" /\ r.row = row
      /\ r.relay = "open" /\ r.handler = "none" /\ r.open = {1}
      /\ r.up = [m \in {1, 2} |-> IF m = 1 THEN <<Frame("DataOpen"), Frame("AuthHello")>> ELSE <<>>]
      /\ r.down = [m \in {1, 2} |-> <<>>]
  BY <1>1 DEF Idle
<1>3. r.request = FALSE /\ r.reply = FALSE
  BY <1>1 DEF Idle
<1>4. Attempt(r)
  BY <1>2, <1>3, FreshAttempt
<1> QED BY <1>1, <1>4, BecomesKeeps

LEMMA DialFailsKeeps ==
    ASSUME HandshakeInv, NEW k \in Conns, NEW row \in Rows, NEW path \in {"direct", "relay"},
           DialFails(k, row, path)
    PROVE  HandshakeInv'
<1>1. PICK r : /\ r = [Idle EXCEPT !.consumer = "error", !.row = row, !.path = path]
               /\ Becomes(k, r)
  BY DEF DialFails
<1>2. /\ DOMAIN r = DOMAIN Idle /\ r.consumer = "error" /\ r.path = path /\ r.row = row
      /\ r.relay = "none" /\ r.handler = "none" /\ r.open = {}
      /\ r.up = [m \in {1, 2} |-> IF m = 1 THEN <<>> ELSE <<>>]
      /\ r.down = [m \in {1, 2} |-> <<>>]
  BY <1>1 DEF Idle
<1>3. r.request = FALSE /\ r.reply = FALSE
  BY <1>1 DEF Idle
<1>4. Attempt(r)
  <2>1. Len(<<>>) # 2
    OBVIOUS
  <2> QED BY <1>2, <1>3, <2>1, FreshAttempt
<1> QED BY <1>1, <1>4, BecomesKeeps

(* What the frames carry. *)
LEMMA FrameFacts ==
    ASSUME NEW r
    PROVE  /\ \A x \in DownFrames(r) : x.kind = "AuthNonce" => x.data \in Conns
           /\ \A x \in DownFrames(r) : x.kind = "AuthOk" => Authorised(r)
           /\ \A x \in UpFrames(r) : x.kind = "AuthProof" =>
                \E n \in Conns : x.data = ComputeProof(r.row.shared_secret, r.row.name, n)
           /\ \A n \in Conns : AuthNonce(n) \in DownFrames(r)
           /\ \A n \in Conns : AuthProof(ComputeProof(r.row.shared_secret, r.row.name, n)) \in UpFrames(r)
           /\ Frame("AuthErr") \in DownFrames(r)
           /\ Authorised(r) => Frame("AuthOk") \in DownFrames(r)
<1>1. \A x \in DownFrames(r) : x.kind = "AuthNonce" => x.data \in Conns
  BY DEF DownFrames, Frame, AuthNonce
<1>2. \A x \in DownFrames(r) : x.kind = "AuthOk" => Authorised(r)
  BY DEF DownFrames, Frame, AuthNonce
<1>3. ASSUME NEW x \in UpFrames(r), x.kind = "AuthProof"
      PROVE  \E n \in Conns : x.data = ComputeProof(r.row.shared_secret, r.row.name, n)
  <2>1. x \notin {Frame("DataOpen"), Frame("AuthHello")}
    BY <1>3 DEF Frame
  <2>2. PICK n \in Conns : x = AuthProof(ComputeProof(r.row.shared_secret, r.row.name, n))
    BY <2>1 DEF UpFrames
  <2> QED BY <2>2 DEF AuthProof
<1>4. \A n \in Conns : AuthNonce(n) \in DownFrames(r)
  BY DEF DownFrames
<1>5. \A n \in Conns : AuthProof(ComputeProof(r.row.shared_secret, r.row.name, n)) \in UpFrames(r)
  BY DEF UpFrames
<1>6. Frame("AuthErr") \in DownFrames(r) /\ (Authorised(r) => Frame("AuthOk") \in DownFrames(r))
  BY DEF DownFrames
<1> QED BY <1>1, <1>2, <1>3, <1>4, <1>5, <1>6

LEMMA HeadsAreFrames ==
    ASSUME NEW r, Attempt(r), NEW l \in {1, 2}
    PROVE  /\ r.up[l] # <<>> => Head(r.up[l]) \in UpFrames(r)
           /\ r.down[l] # <<>> => Head(r.down[l]) \in DownFrames(r)
<1>1. r.up[l] \in Seq(UpFrames(r)) /\ r.down[l] \in Seq(DownFrames(r))
  BY DEF Attempt, Queues
<1> QED BY ONLY <1>1, ReadFacts

LEMMA ConsumerKeeps ==
    ASSUME HandshakeInv, NEW k \in Conns, Consumer(k) \/ AppCloses(k)
    PROVE  HandshakeInv'
<1>0. Refusal(k) \in {"auth_error", "error", "closed"}
  BY DEF Refusal
<1>1. CASE ReadNonce(k)
  <2>0. PICK head : head = Head(conn[k].down[1])
    OBVIOUS
  <2>1. conn[k].consumer = "nonce" /\ conn[k].down[1] # <<>>
    BY <1>1 DEF ReadNonce
  <2>2. Attempt(conn[k])
    BY <2>1, NotIdle
  <2>3. CASE head.kind = "AuthNonce" /\ 1 \in conn[k].open
    <3>1. PICK x : x = AuthProof(ComputeProof(conn[k].row.shared_secret, conn[k].row.name, head.data))
      OBVIOUS
    <3>2. PICK s : /\ s = [conn[k] EXCEPT !.consumer = "verdict",
                                          !.down[1] = Tail(@), !.up[1] = Append(@, x)]
                   /\ Becomes(k, s)
      BY <1>1, <2>0, <2>3, <3>1 DEF ReadNonce
    <3>3. head \in DownFrames(conn[k])
      BY <2>0, <2>1, <2>2, HeadsAreFrames
    <3>4. x \in UpFrames(conn[k])
      BY <2>3, <3>1, <3>3, FrameFacts
    <3>5. Attempt(s)
      BY ONLY <2>1, <2>2, <3>2, <3>4, ConsumerAnswers
    <3> QED BY <3>2, <3>5, BecomesKeeps
  <2>4. CASE ~(head.kind = "AuthNonce" /\ 1 \in conn[k].open)
    <3>1. PICK outcome \in {"auth_error", "error", "closed"} : Fails(k, outcome)
      BY <1>0, <1>1, <2>0, <2>4 DEF ReadNonce
    <3> QED BY <2>1, <3>1, FailsKeeps
  <2> QED BY <2>3, <2>4
<1>2. CASE ReadVerdict(k)
  <2>0. PICK head : head = Head(conn[k].down[1])
    OBVIOUS
  <2>1. conn[k].consumer = "verdict" /\ conn[k].down[1] # <<>>
    BY <1>2 DEF ReadVerdict
  <2>2. Attempt(conn[k])
    BY <2>1, NotIdle
  <2>3. CASE head.kind = "AuthOk"
    <3>1. PICK s : s = [conn[k] EXCEPT !.consumer = "live", !.down[1] = Tail(@)] /\ Becomes(k, s)
      BY <1>2, <2>0, <2>3 DEF ReadVerdict
    <3>2. Authorised(conn[k])
      BY <2>0, <2>1, <2>2, <2>3, HeadsAreFrames, FrameFacts
    <3>3. Attempt(s)
      BY ONLY <2>1, <2>2, <3>1, <3>2, ConsumerReads
    <3> QED BY <3>1, <3>3, BecomesKeeps
  <2>4. CASE head.kind # "AuthOk"
    <3>1. PICK outcome \in {"auth_error", "error", "closed"} : Fails(k, outcome)
      BY <1>0, <1>2, <2>0, <2>4 DEF ReadVerdict
    <3> QED BY <2>1, <3>1, FailsKeeps
  <2> QED BY <2>3, <2>4
<1>3. CASE ReadFails(k) \/ BridgeEnds(k) \/ AppCloses(k)
  <2>1. conn[k].consumer # "idle"
    BY <1>3 DEF ReadFails, BridgeEnds, AppCloses
  <2>2. PICK outcome \in {"auth_error", "error", "closed"} : Fails(k, outcome)
    BY <1>0, <1>3 DEF ReadFails, BridgeEnds, AppCloses
  <2> QED BY <2>1, <2>2, FailsKeeps
<1> QED BY <1>1, <1>2, <1>3 DEF Consumer

LEMMA RelayKeeps ==
    ASSUME HandshakeInv, NEW k \in Conns, RelayTask(k)
    PROVE  HandshakeInv'
<1>0. conn[k].relay # "none"
  BY DEF RelayTask, ReadDataOpen, NoDataOpen, RelayConnects, RelayFails, RelayReturns
<1>a. Attempt(conn[k])
  BY <1>0, NotIdle
<1>1. CASE ReadDataOpen(k)
  <2>1. PICK verdict \in {"dial", "ended"} :
          Becomes(k, [conn[k] EXCEPT !.relay = verdict, !.up[1] = Tail(@)])
    BY <1>1 DEF ReadDataOpen
  <2>2. conn[k].relay = "open" /\ conn[k].up[1] # <<>>
    BY <1>1 DEF ReadDataOpen
  <2>3. PICK s : s = [conn[k] EXCEPT !.relay = verdict, !.up[1] = Tail(@)]
    OBVIOUS
  <2>4. Attempt(s)
    BY ONLY <1>a, <2>1, <2>2, <2>3, RelayReads
  <2> QED BY <2>1, <2>3, <2>4, BecomesKeeps
<1>2. CASE NoDataOpen(k) \/ RelayFails(k)
  <2>1. conn[k].relay # "open" \/ conn[k].up[1] = <<>>
    BY <1>2 DEF NoDataOpen, RelayFails
  <2>2. PICK s : s = [conn[k] EXCEPT !.relay = "ended"] /\ Becomes(k, s)
    BY <1>2 DEF NoDataOpen, RelayFails
  <2>3. Attempt(s)
    BY ONLY <1>a, <2>1, <2>2, RelayOver
  <2> QED BY <2>2, <2>3, BecomesKeeps
<1>3. CASE RelayConnects(k)
  <2>1. conn[k].relay = "dial" /\ Reachable(conn[k].row.name)
    BY <1>3 DEF RelayConnects
  <2>2. PICK r : r = [conn[k] EXCEPT !.relay = "copy", !.open = @ \cup {2},
                                     !.request = TRUE, !.reply = TRUE]
    OBVIOUS
  <2>3. Attempt(r)
    BY ONLY <1>a, <2>1, <2>2, RelayCopies
  <2>4. r.row = conn[k].row /\ r.handler = "none" /\ r.relay = "copy"
    <3>1. DOMAIN conn[k] = DOMAIN Idle /\ conn[k].handler = "none"
      BY <1>a, <2>1 DEF Attempt, Fields, Routed
    <3> QED BY <2>2, <3>1, IdleFields
  <2>5. PICK spec : spec = Router(provider)[AlpnForService(conn[k].row.name)]
    OBVIOUS
  <2>6. spec.kind \in {"expose", "static"} /\ spec.row.name = r.row.name
    <3>1. conn[k].row \in Rows
      BY <1>a DEF Attempt, Routed
    <3> QED BY <2>1, <2>4, <2>5, <3>1, RouterAnswers
  <2>7. PICK s : s = Handed(r, spec) /\ Becomes(k, s)
    <3>1. Becomes(k, Accepted(r, conn[k].row.name))
      BY <1>3, <2>2 DEF RelayConnects
    <3>2. Accepted(r, conn[k].row.name) = Handed(r, spec)
      BY <2>5 DEF Accepted, Handed
    <3> QED BY <3>1, <3>2
  <2>8. r.relay \notin {"open", "dial"}
    BY <2>4
  <2>9. Attempt(s)
    BY ONLY <2>3, <2>4, <2>6, <2>7, <2>8, HandlerStarts
  <2> QED BY <2>7, <2>9, BecomesKeeps
<1>4. CASE RelayReturns(k)
  <2>1. PICK s \in Cut([conn[k] EXCEPT !.relay = "ended"], 2) : Becomes(k, s)
    BY <1>4 DEF RelayReturns
  <2>2. conn[k].relay # "open"
    BY <1>4 DEF RelayReturns
  <2>3. Attempt([conn[k] EXCEPT !.relay = "ended"])
    BY <1>a, <2>2, RelayOver
  <2>4. Attempt(s)
    BY <2>1, <2>3, CutKeeps
  <2> QED BY <2>1, <2>4, BecomesKeeps
<1> QED BY <1>1, <1>2, <1>3, <1>4 DEF RelayTask

LEMMA CopyKeeps ==
    ASSUME HandshakeInv, NEW k \in Conns, CopyRequest(k) \/ CopyReply(k)
    PROVE  HandshakeInv'
<1>1. CASE CopyRequest(k)
  <2>1. conn[k].request
    BY <1>1 DEF CopyRequest
  <2>2. Attempt(conn[k])
    BY <2>1, NotIdle
  <2>3. PICK s : /\ Becomes(k, s)
                 /\ \/ /\ conn[k].up[1] # <<>>
                       /\ s = [conn[k] EXCEPT !.up[1] = Tail(@), !.up[2] = Append(@, Head(conn[k].up[1]))]
                    \/ s = [conn[k] EXCEPT !.request = FALSE]
    BY <1>1, Zenon DEF CopyRequest
  <2>4. Attempt(s)
    BY ONLY <2>1, <2>2, <2>3, RequestCopied, RequestOver
  <2> QED BY <2>3, <2>4, BecomesKeeps
<1>2. CASE CopyReply(k)
  <2>1. conn[k].reply
    BY <1>2 DEF CopyReply
  <2>2. Attempt(conn[k])
    BY <2>1, NotIdle
  <2>3. PICK s : /\ Becomes(k, s)
                 /\ \/ /\ conn[k].down[2] # <<>>
                       /\ s = [conn[k] EXCEPT !.down[2] = Tail(@), !.down[1] = Append(@, Head(conn[k].down[2]))]
                    \/ s = [conn[k] EXCEPT !.reply = FALSE]
    BY <1>2, Zenon DEF CopyReply
  <2>4. Attempt(s)
    BY ONLY <2>1, <2>2, <2>3, ReplyCopied, ReplyOver
  <2> QED BY <2>3, <2>4, BecomesKeeps
<1> QED BY <1>1, <1>2

LEMMA AnswerFields ==
    ASSUME NEW r, Attempt(r), NEW l \in {1, 2}, NEW x
    PROVE  LET s == Answer(r, l, x) IN s.handler = r.handler /\ s.spec = r.spec /\ s.row = r.row
<1>1. DOMAIN r = DOMAIN Idle
  BY DEF Attempt, Fields
<1> QED BY <1>1, IdleFields DEF Answer

LEMMA HandlerKeeps ==
    ASSUME HandshakeInv, NEW k \in Conns, Handler(k)
    PROVE  HandshakeInv'
<1>0. conn[k].handler # "none" /\ Far(k) \in {1, 2}
  BY DEF Handler, ReadHello, ReadProof, BackendConnects, BackendFails, HandlerLoses, Far
<1>a. Attempt(conn[k])
  BY <1>0, NotIdle
<1>1. ASSUME Arrived(k) # <<>>, NEW x \in DownFrames(conn[k]),
             NEW next \in {"proof", "backend", "serve", "ended"},
             next \in {"backend", "serve"} => Authorised(conn[k]),
             Becomes(k, [Answer(conn[k], Far(k), x) EXCEPT !.handler = next])
      PROVE  HandshakeInv'
  <2>1. PICK r : r = Answer(conn[k], Far(k), x)
    OBVIOUS
  <2>2. conn[k].up[Far(k)] # <<>>
    BY <1>1 DEF Arrived
  <2>3. Attempt(r)
    BY ONLY <1>0, <1>a, <1>1, <2>1, <2>2, HandlerAnswers
  <2>4. r.handler = conn[k].handler /\ r.spec = conn[k].spec /\ r.row = conn[k].row
    BY ONLY <1>0, <1>a, <2>1, AnswerFields
  <2>5. next \in {"backend", "serve"} => Authorised(r)
    BY <1>1, <2>4 DEF Authorised
  <2>6. PICK s : s = [r EXCEPT !.handler = next] /\ Becomes(k, s)
    BY <1>1, <2>1
  <2>7. Attempt(s)
    BY ONLY <1>0, <1>1, <2>3, <2>4, <2>5, <2>6, HandlerBecomes
  <2> QED BY <2>6, <2>7, BecomesKeeps
<1>2. CASE ReadHello(k)
  <2>1. CASE Head(Arrived(k)).kind = "AuthHello" /\ Far(k) \in conn[k].open
    <3>1. Becomes(k, [Answer(conn[k], Far(k), AuthNonce(k)) EXCEPT !.handler = "proof"])
      BY <1>2, <2>1 DEF ReadHello
    <3>2. AuthNonce(k) \in DownFrames(conn[k])
      BY FrameFacts
    <3> QED BY <1>1, <1>2, <3>1, <3>2 DEF ReadHello
  <2>2. CASE ~(Head(Arrived(k)).kind = "AuthHello" /\ Far(k) \in conn[k].open)
    BY <1>0, <1>a, <1>2, <2>2, ReturnsKeeps DEF ReadHello
  <2> QED BY <2>1, <2>2
<1>3. CASE ReadProof(k)
  <2>0. Arrived(k) # <<>> /\ conn[k].handler = "proof"
    BY <1>3 DEF ReadProof
  <2>1. CASE /\ Head(Arrived(k)).kind = "AuthProof" /\ ProofHolds(k)
             /\ Becomes(k, [Answer(conn[k], Far(k), Frame("AuthOk")) EXCEPT
                              !.handler = IF conn[k].spec.kind = "static" THEN "serve" ELSE "backend"])
    <3>1. Head(Arrived(k)) \in UpFrames(conn[k])
      BY <1>0, <1>a, <2>0, HeadsAreFrames DEF Arrived
    <3>2. PICK n \in Conns :
            Head(Arrived(k)).data = ComputeProof(conn[k].row.shared_secret, conn[k].row.name, n)
      BY <2>1, <3>1, FrameFacts
    <3>3. Head(Arrived(k)).data = ComputeProof(conn[k].spec.row.shared_secret, conn[k].spec.row.name, k)
      BY <2>1 DEF ProofHolds, VerifyProof
    <3>4. conn[k].spec.row.shared_secret = conn[k].row.shared_secret
      BY <3>2, <3>3 DEF ComputeProof
    <3>5. conn[k].spec.kind \in {"expose", "static"} /\ conn[k].spec.row.name = conn[k].row.name
      BY <1>0, <1>a DEF Attempt, Routed
    <3>6. Authorised(conn[k])
      BY <1>0, <3>4, <3>5 DEF Authorised
    <3>7. Frame("AuthOk") \in DownFrames(conn[k])
      BY <3>6, FrameFacts
    <3> QED BY <1>1, <2>0, <2>1, <3>6, <3>7
  <2>2. CASE Returns(k, Answer(conn[k], Far(k), Frame("AuthErr")))
    <3>1. PICK r : r = Answer(conn[k], Far(k), Frame("AuthErr"))
      OBVIOUS
    <3>2. conn[k].up[Far(k)] # <<>> /\ Frame("AuthErr") \in DownFrames(conn[k])
      BY <2>0, FrameFacts DEF Arrived
    <3>3. Attempt(r)
      BY ONLY <1>0, <1>a, <3>1, <3>2, HandlerAnswers
    <3>4. r.handler = conn[k].handler
      BY ONLY <1>0, <1>a, <3>1, AnswerFields
    <3> QED BY <1>0, <2>2, <3>1, <3>3, <3>4, ReturnsKeeps
  <2>3. CASE Returns(k, conn[k])
    BY <1>0, <1>a, <2>3, ReturnsKeeps
  <2> QED BY <1>3, <2>1, <2>2, <2>3 DEF ReadProof
<1>4. CASE BackendConnects(k)
  <2>1. PICK s : s = [conn[k] EXCEPT !.handler = "serve"] /\ Becomes(k, s)
    BY <1>4 DEF BackendConnects
  <2>2. Authorised(conn[k])
    BY <1>a, <1>4 DEF BackendConnects, Attempt, Routed
  <2>3. Attempt(s)
    BY <1>0, <1>a, <2>1, <2>2, HandlerBecomes
  <2> QED BY <2>1, <2>3, BecomesKeeps
<1>5. CASE BackendFails(k) \/ HandlerLoses(k)
  BY <1>0, <1>a, <1>5, ReturnsKeeps DEF BackendFails, HandlerLoses
<1> QED BY <1>2, <1>3, <1>4, <1>5 DEF Handler

(* The process of the provider ends, with its handlers and connections. *)
LEMMA StopKeeps ==
    ASSUME HandshakeInv, StopProvider
    PROVE  HandshakeInv'
<1>1. Started'
  BY DEF HandshakeInv, Started, StopProvider
<1>2. conn' = [k \in Conns |-> conn'[k]] /\ \A k \in Conns : conn'[k] \in Orphaned(k)
  BY DEF StopProvider
<1>3. ASSUME NEW k \in Conns PROVE ConnInv(conn[k])'
  <2>1. CASE conn[k].handler \in {"none", "ended"}
    <3>1. conn'[k] = conn[k]
      BY <1>2, <2>1 DEF Orphaned
    <3> QED BY <3>1 DEF HandshakeInv
  <2>2. CASE conn[k].handler \notin {"none", "ended"}
    <3>1. conn'[k] \in Cut([conn[k] EXCEPT !.handler = "ended"], Far(k))
      BY <1>2, <2>2 DEF Orphaned
    <3>2. Attempt(conn[k]) /\ conn[k].handler # "none"
      BY <2>2, NotIdle
    <3>3. Attempt([conn[k] EXCEPT !.handler = "ended"])
      BY <3>2, HandlerBecomes
    <3>4. Far(k) \in {1, 2}
      BY DEF Far
    <3>5. Attempt(conn'[k])
      BY <3>1, <3>3, <3>4, CutKeeps
    <3> QED BY <3>5 DEF ConnInv
  <2> QED BY <2>1, <2>2
<1> QED BY <1>1, <1>2, <1>3 DEF HandshakeInv

(* A connection is lost. *)
LEMMA LoseKeeps ==
    ASSUME HandshakeInv, NEW k \in Conns, NEW l \in {1, 2}, Lose(k, l)
    PROVE  HandshakeInv'
<1>1. Started'
  BY HandshakeAssumption DEF HandshakeInv, Started, Lose
<1>2. PICK s \in Cut(conn[k], l) : conn' = [conn EXCEPT ![k] = s]
  BY DEF Lose
<1>3. Attempt(conn[k])
  <2>1. conn[k].open # {}
    BY DEF Lose
  <2> QED BY <2>1, NotIdle
<1>4. Attempt(s)
  BY <1>2, <1>3, CutKeeps
<1>5. conn = [j \in Conns |-> conn[j]] /\ \A j \in Conns : ConnInv(conn[j])
  BY DEF HandshakeInv
<1>6. /\ conn' = [j \in Conns |-> conn'[j]] /\ conn'[k] = s
      /\ \A j \in Conns : j # k => conn'[j] = conn[j]
  BY ONLY <1>2, <1>5, k \in Conns
<1>7. ASSUME NEW j \in Conns PROVE ConnInv(conn'[j])
  BY <1>4, <1>5, <1>6 DEF ConnInv
<1>8. \A j \in Conns : ConnInv(conn[j])'
  BY <1>7
<1> QED BY <1>1, <1>6, <1>8 DEF HandshakeInv

(* The inductive invariant. *)
LEMMA HandshakeInvariant == Spec => []HandshakeInv
<1>1. Init => HandshakeInv
  BY HandshakeAssumption DEF Init, HandshakeInv, Started, ConnInv
<1>2. HandshakeInv /\ [Next]_vars => HandshakeInv'
  <2> SUFFICES ASSUME HandshakeInv, [Next]_vars PROVE HandshakeInv'
    OBVIOUS
  <2>1. ASSUME NEW c \in Configs, StartServer(c) \/ StartProvider(c) PROVE HandshakeInv'
    <3>1. Started'
      BY <2>1, HandshakeAssumption DEF HandshakeInv, Started, StartServer, StartProvider
    <3>2. conn' = conn
      BY <2>1 DEF StartServer, StartProvider
    <3> QED BY <3>1, <3>2 DEF HandshakeInv
  <2>2. CASE StopProvider
    BY <2>2, StopKeeps
  <2>3. ASSUME NEW k \in Conns, NEW row \in Rows,
               \/ DialDirect(k, row) \/ DialRelay(k, row)
               \/ \E path \in {"direct", "relay"} : DialFails(k, row, path)
        PROVE  HandshakeInv'
    BY <2>3, DialDirectKeeps, DialRelayKeeps, DialFailsKeeps
  <2>4. ASSUME NEW k \in Conns, Consumer(k) \/ AppCloses(k) PROVE HandshakeInv'
    BY <2>4, ConsumerKeeps
  <2>5. ASSUME NEW k \in Conns, RelayTask(k) PROVE HandshakeInv'
    BY <2>5, RelayKeeps
  <2>6. ASSUME NEW k \in Conns, CopyRequest(k) \/ CopyReply(k) PROVE HandshakeInv'
    BY <2>6, CopyKeeps
  <2>7. ASSUME NEW k \in Conns, Handler(k) PROVE HandshakeInv'
    BY <2>7, HandlerKeeps
  <2>8. ASSUME NEW k \in Conns, NEW l \in {1, 2}, Lose(k, l) PROVE HandshakeInv'
    BY <2>8, LoseKeeps
  <2>9. CASE UNCHANGED vars
    BY <2>9 DEF vars, HandshakeInv, Started
  <2> QED BY <2>1, <2>2, <2>3, <2>4, <2>5, <2>6, <2>7, <2>8, <2>9 DEF Next
<1> QED BY <1>1, <1>2, PTL DEF Spec

-----------------------------------------------------------------------------
(* Every variable keeps its type, and no queue ever holds more than two     *)
(* frames: the handshake alternates, on both paths.                         *)
THEOREM HandshakeTypeOK == Spec => []TypeOK
<1>1. HandshakeInv => TypeOK
  <2> SUFFICES ASSUME HandshakeInv PROVE TypeOK
    OBVIOUS
  <2>1. /\ server \in Configs \cup {None} /\ provider \in Configs \cup {None}
        /\ starts \in 0 .. MaxStarts /\ faults \in 0 .. MaxFaults
    BY DEF HandshakeInv, Started
  <2>2. ASSUME NEW k \in Conns, conn[k] = Idle
        PROVE  /\ DOMAIN conn[k] = DOMAIN Idle
               /\ conn[k].consumer \in {"idle", "nonce", "verdict", "live", "auth_error", "error", "closed"}
               /\ conn[k].path \in {"direct", "relay"} /\ conn[k].row \in Rows \cup {None}
               /\ conn[k].relay \in {"none", "open", "dial", "copy", "ended"}
               /\ conn[k].request \in BOOLEAN /\ conn[k].reply \in BOOLEAN
               /\ conn[k].handler \in {"none", "accept", "proof", "backend", "serve", "ended"}
               /\ conn[k].open \subseteq {1, 2}
               /\ \A l \in {1, 2} : conn[k].up[l] = <<>> /\ conn[k].down[l] = <<>>
    BY <2>2 DEF Idle
  <2>3. ASSUME NEW k \in Conns, Attempt(conn[k])
        PROVE  /\ DOMAIN conn[k] = DOMAIN Idle
               /\ conn[k].consumer \in {"idle", "nonce", "verdict", "live", "auth_error", "error", "closed"}
               /\ conn[k].path \in {"direct", "relay"} /\ conn[k].row \in Rows \cup {None}
               /\ conn[k].relay \in {"none", "open", "dial", "copy", "ended"}
               /\ conn[k].request \in BOOLEAN /\ conn[k].reply \in BOOLEAN
               /\ conn[k].handler \in {"none", "accept", "proof", "backend", "serve", "ended"}
               /\ conn[k].open \subseteq {1, 2}
    BY <2>3 DEF Attempt, Fields, Routed
  <2>4. ASSUME NEW k \in Conns, NEW l \in {1, 2}, NEW q \in {conn[k].up[l], conn[k].down[l]}
        PROVE  q \in Seq(FrameType) /\ Len(q) <= 2
    <3>1. CASE conn[k] = Idle
      <4>1. q = <<>>
        BY <2>2, <2>4, <3>1
      <4> QED BY ONLY <4>1
    <3>2. CASE Attempt(conn[k])
      <4>1. UpFrames(conn[k]) \subseteq FrameType
        <5>1. conn[k].row \in Rows
          BY <3>2 DEF Attempt, Routed
        <5> QED BY ONLY <5>1 DEF UpFrames, FrameType, Frame, AuthProof
      <4>2. DownFrames(conn[k]) \subseteq FrameType
        BY ONLY TRUE DEF DownFrames, FrameType, Frame, AuthNonce
      <4>3. /\ conn[k].up[l] \in Seq(UpFrames(conn[k])) /\ conn[k].down[l] \in Seq(DownFrames(conn[k]))
        BY <3>2 DEF Attempt, Queues
      <4>4. conn[k].up[l] \in Seq(FrameType) /\ conn[k].down[l] \in Seq(FrameType)
        BY ONLY <4>1, <4>2, <4>3
      <4>5. Size(conn[k].up[l]) <= 2 /\ Size(conn[k].down[l]) <= 2
        <5>0. PICK r : r = conn[k]
          OBVIOUS
        <5>1. /\ Size(r.up[1]) \in Nat /\ Size(r.up[2]) \in Nat
              /\ Size(r.down[1]) \in Nat /\ Size(r.down[2]) \in Nat
              /\ r.up[2] = <<>> <=> Size(r.up[2]) = 0
              /\ r.down[1] = <<>> <=> Size(r.down[1]) = 0
              /\ r.down[2] = <<>> <=> Size(r.down[2]) = 0
          BY ONLY <3>2, <5>0, Lengths
        <5>2. Size(r.up[1]) <= 2 /\ Size(r.up[2]) <= 2 /\ Size(r.down[1]) <= 2 /\ Size(r.down[2]) <= 2
          BY ONLY <3>2, <5>0, <5>1 DEF Attempt, Alternating, Under
        <5> QED BY <5>0, <5>2
      <4> QED BY <4>4, <4>5 DEF Size
    <3> QED BY <3>1, <3>2 DEF HandshakeInv, ConnInv
  <2> QED BY <2>1, <2>2, <2>3, <2>4 DEF TypeOK, HandshakeInv, ConnInv
<1> QED BY <1>1, HandshakeInvariant, PTL

(* Whoever is served holds the secret, for every set of files and rows, any *)
(* number of attempts, restarts of the provider with other files and lost   *)
(* connections, on both paths.                                              *)
THEOREM ServedIsAuthorised == Spec => []LiveIsAuthorised
<1>1. HandshakeInv => LiveIsAuthorised
  <2> SUFFICES ASSUME HandshakeInv, NEW k \in Conns,
                      conn[k].consumer = "live" \/ conn[k].handler \in {"backend", "serve"}
               PROVE  /\ conn[k].spec.kind \in {"expose", "static"}
                      /\ conn[k].spec.row.name = conn[k].row.name
                      /\ conn[k].spec.row.shared_secret = conn[k].row.shared_secret
    BY DEF LiveIsAuthorised
  <2>1. Attempt(conn[k])
    BY NotIdle
  <2> QED BY <2>1 DEF Attempt, Routed, Authorised
<1> QED BY <1>1, HandshakeInvariant, PTL

(* An accepted row takes effect, in every file that validate accepts.       *)
THEOREM AcceptedRowsTakeEffect == Spec => []RowsTakeEffect
<1>1. HandshakeInv => RowsTakeEffect
  <2> SUFFICES ASSUME HandshakeInv PROVE RowsTakeEffect
    OBVIOUS
  <2>1. ASSUME provider # None
        PROVE  IsArray(provider.expose) /\ IsArray(provider.static) /\ StartsClient(provider)
    BY <2>1, HandshakeAssumption DEF HandshakeInv, Started
  <2>2. ASSUME server # None
        PROVE  IsArray(server.groups) /\ IsArray(RateOverrides(server)) /\ StartsServer(server)
    BY <2>2, HandshakeAssumption DEF HandshakeInv, Started
  <2> QED BY <2>1, <2>2, ClientRows, ServerRows DEF RowsTakeEffect
<1> QED BY <1>1, HandshakeInvariant, PTL
=============================================================================
