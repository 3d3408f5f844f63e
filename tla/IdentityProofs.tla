--------------------------- MODULE IdentityProofs ---------------------------
(***************************************************************************)
(* The identity file for every number of processes, keys and inodes, and   *)
(* a crash at any point of a start.                                        *)
(***************************************************************************)
EXTENDS Identity, TLAPS

(* Whatever overlaps: a process that loads found a key file, one that       *)
(* generates has a key, and an open descriptor is an inode.                 *)
ProcInv ==
    \A p \in Procs :
        /\ proc[p].pc \in {"open", "read"} => key_file # None
        /\ proc[p].pc \in {"read", "write"} => proc[p].fd \in Inodes
        /\ proc[p].pc \in {"create", "write", "rename"} => proc[p].key \in Keys

(* Without overlap one process starts at a time.  It generates only while   *)
(* there is no key file, and from then on the temporary file is its own:    *)
(* what it writes is what it renames.                                       *)
SoloInv ==
    ~overlapped =>
        /\ \A p, q \in Procs :
             proc[p].pc \in Starting /\ proc[q].pc \in Starting => p = q
        /\ \A p \in Procs :
             /\ proc[p].pc = "read" => proc[p].fd = key_file
             /\ proc[p].pc \in {"create", "write", "rename"} => key_file = None
             /\ proc[p].pc = "write" => proc[p].fd = tmp
             /\ proc[p].pc = "rename" => tmp # None /\ content[tmp] = proc[p].key

IdentityInv ==
    TypeOK /\ ProcInv /\ SoloInv /\ KeyFileIsWhole /\ RunningKeyIsPersisted

-----------------------------------------------------------------------------
(* The initial states. *)
LEMMA InitInv == Init => IdentityInv
<1> SUFFICES ASSUME Init PROVE IdentityInv
  OBVIOUS
<1>1. TypeOK
  BY DEF Init, TypeOK, Off, Starting
<1>2. \A p \in Procs : proc[p].pc = "off"
  BY DEF Init, Off
<1>3. ProcInv /\ SoloInv /\ RunningKeyIsPersisted
  BY <1>2 DEF ProcInv, SoloInv, RunningKeyIsPersisted, Starting, At
<1>4. KeyFileIsWhole
  BY DEF Init, KeyFileIsWhole
<1> QED BY <1>1, <1>3, <1>4 DEF IdentityInv

(* Every variable keeps its type. *)
LEMMA TypeStep == IdentityInv /\ [Next]_vars => TypeOK'
<1> SUFFICES ASSUME IdentityInv, [Next]_vars PROVE TypeOK'
  OBVIOUS
<1> USE IdentityAssumption DEF IdentityInv, TypeOK, Starting, At, Goto
<1>1. ASSUME NEW p \in Procs, Start(p) PROVE TypeOK'
  BY <1>1 DEF Start
<1>2. ASSUME NEW p \in Procs, Check(p) PROVE TypeOK'
  BY <1>2 DEF Check
<1>3. ASSUME NEW p \in Procs, Open(p) PROVE TypeOK'
  BY <1>3 DEF Open
<1>4. ASSUME NEW p \in Procs, Read(p) PROVE TypeOK'
  <2>1. content[proc[p].fd] \in Keys \cup {Empty}
    BY <1>4 DEF Read, DecodeKey, ProcInv
  <2> QED BY <1>4, <2>1 DEF Read, DecodeKey, Returns, Fails, Off
<1>5. ASSUME NEW p \in Procs, Create(p) PROVE TypeOK'
  <2>1. PICK i \in Inodes : /\ content' = [content EXCEPT ![i] = Empty]
                            /\ proc' = [proc EXCEPT ![p].pc = "write", ![p].fd = i]
                            /\ tmp' = i
    BY <1>5 DEF Create
  <2>2. content' \in [Inodes -> Keys \cup {Empty}]
    BY <2>1
  <2>3. proc' \in [Procs -> [pc : Starting \cup {"off", "running"}, key : Keys \cup {None},
                             fd : Inodes \cup {None}]]
    BY <2>1
  <2> QED BY <1>5, <2>1, <2>2, <2>3 DEF Create
<1>6. ASSUME NEW p \in Procs, Write(p) PROVE TypeOK'
  BY <1>6 DEF Write, ProcInv, Fails, Off
<1>7. ASSUME NEW p \in Procs, Rename(p) PROVE TypeOK'
  BY <1>7 DEF Rename, ProcInv, Returns, Fails, Off
<1>8. ASSUME NEW p \in Procs, Crash(p) PROVE TypeOK'
  BY <1>8 DEF Crash, Off
<1>9. CASE UNCHANGED vars
  BY <1>9 DEF vars
<1> QED BY <1>1, <1>2, <1>3, <1>4, <1>5, <1>6, <1>7, <1>8, <1>9 DEF Next, Load

(* A key file is never gone, and what a process holds stays valid. *)
LEMMA ProcStep == IdentityInv /\ [Next]_vars => ProcInv'
<1> SUFFICES ASSUME IdentityInv, [Next]_vars PROVE ProcInv'
  OBVIOUS
<1> USE IdentityAssumption DEF IdentityInv, TypeOK, ProcInv, At, Goto
<1>1. ASSUME NEW p \in Procs, Start(p) PROVE ProcInv'
  BY <1>1 DEF Start
<1>2. ASSUME NEW p \in Procs, Check(p) PROVE ProcInv'
  BY <1>2 DEF Check, KeyFileExists
<1>3. ASSUME NEW p \in Procs, Open(p) PROVE ProcInv'
  BY <1>3 DEF Open
<1>4. ASSUME NEW p \in Procs, Read(p) PROVE ProcInv'
  BY <1>4 DEF Read, DecodeKey, Returns, Fails, Off
<1>5. ASSUME NEW p \in Procs, Create(p) PROVE ProcInv'
  BY <1>5 DEF Create
<1>6. ASSUME NEW p \in Procs, Write(p) PROVE ProcInv'
  BY <1>6 DEF Write, Fails, Off
<1>7. ASSUME NEW p \in Procs, Rename(p) PROVE ProcInv'
  BY <1>7 DEF Rename, Returns, Fails, Off
<1>8. ASSUME NEW p \in Procs, Crash(p) PROVE ProcInv'
  BY <1>8 DEF Crash, Off
<1>9. CASE UNCHANGED vars
  BY <1>9 DEF vars
<1> QED BY <1>1, <1>2, <1>3, <1>4, <1>5, <1>6, <1>7, <1>8, <1>9 DEF Next, Load

(* A start that overlaps no other keeps the temporary file to itself. *)
LEMMA SoloStep == IdentityInv /\ [Next]_vars => SoloInv'
<1> SUFFICES ASSUME IdentityInv, [Next]_vars PROVE SoloInv'
  OBVIOUS
<1> USE IdentityAssumption DEF IdentityInv, TypeOK, ProcInv, SoloInv, Starting, At, Goto
<1>1. ASSUME NEW p \in Procs, Start(p) PROVE SoloInv'
  <2> SUFFICES ASSUME ~overlapped' PROVE SoloInv'
    OBVIOUS
  <2>1. ~overlapped /\ ~ \E q \in Procs : proc[q].pc \in Starting
    BY <1>1 DEF Start
  <2>2. proc'[p].pc = "check" /\ \A q \in Procs \ {p} : proc'[q] = proc[q]
    BY <1>1 DEF Start
  <2>3. \A q \in Procs \ {p} : proc'[q].pc \notin Starting
    BY <2>1, <2>2
  <2> QED BY <2>2, <2>3
<1>2. ASSUME NEW p \in Procs, Check(p) PROVE SoloInv'
  BY <1>2 DEF Check, KeyFileExists
<1>3. ASSUME NEW p \in Procs, Open(p) PROVE SoloInv'
  BY <1>3 DEF Open
<1>4. ASSUME NEW p \in Procs, Read(p) PROVE SoloInv'
  BY <1>4 DEF Read, DecodeKey, Returns, Fails, Off
<1>5. ASSUME NEW p \in Procs, Create(p) PROVE SoloInv'
  BY <1>5 DEF Create
<1>6. ASSUME NEW p \in Procs, Write(p) PROVE SoloInv'
  BY <1>6 DEF Write, Fails, Off
<1>7. ASSUME NEW p \in Procs, Rename(p) PROVE SoloInv'
  BY <1>7 DEF Rename, Returns, Fails, Off
<1>8. ASSUME NEW p \in Procs, Crash(p) PROVE SoloInv'
  BY <1>8 DEF Crash, Off
<1>9. CASE UNCHANGED vars
  BY <1>9 DEF vars
<1> QED BY <1>1, <1>2, <1>3, <1>4, <1>5, <1>6, <1>7, <1>8, <1>9 DEF Next, Load

(* The key file and the keys in use change together. *)
LEMMA KeyStep == IdentityInv /\ [Next]_vars => (KeyFileIsWhole /\ RunningKeyIsPersisted)'
<1> SUFFICES ASSUME IdentityInv, [Next]_vars PROVE (KeyFileIsWhole /\ RunningKeyIsPersisted)'
  OBVIOUS
<1> USE IdentityAssumption
    DEF IdentityInv, TypeOK, ProcInv, SoloInv, Starting, At, Goto, KeyFileIsWhole,
        RunningKeyIsPersisted
<1>1. ASSUME NEW p \in Procs, Start(p) PROVE (KeyFileIsWhole /\ RunningKeyIsPersisted)'
  BY <1>1 DEF Start
<1>2. ASSUME NEW p \in Procs, Check(p) PROVE (KeyFileIsWhole /\ RunningKeyIsPersisted)'
  BY <1>2 DEF Check
<1>3. ASSUME NEW p \in Procs, Open(p) PROVE (KeyFileIsWhole /\ RunningKeyIsPersisted)'
  BY <1>3 DEF Open
<1>4. ASSUME NEW p \in Procs, Read(p) PROVE (KeyFileIsWhole /\ RunningKeyIsPersisted)'
  BY <1>4 DEF Read, DecodeKey, Returns, Fails, Off
<1>5. ASSUME NEW p \in Procs, Create(p) PROVE (KeyFileIsWhole /\ RunningKeyIsPersisted)'
  BY <1>5 DEF Create
<1>6. ASSUME NEW p \in Procs, Write(p) PROVE (KeyFileIsWhole /\ RunningKeyIsPersisted)'
  BY <1>6 DEF Write, Fails, Off
<1>7. ASSUME NEW p \in Procs, Rename(p) PROVE (KeyFileIsWhole /\ RunningKeyIsPersisted)'
  BY <1>7 DEF Rename, Returns, Fails, Off
<1>8. ASSUME NEW p \in Procs, Crash(p) PROVE (KeyFileIsWhole /\ RunningKeyIsPersisted)'
  BY <1>8 DEF Crash, Off
<1>9. CASE UNCHANGED vars
  BY <1>9 DEF vars
<1> QED BY <1>1, <1>2, <1>3, <1>4, <1>5, <1>6, <1>7, <1>8, <1>9 DEF Next, Load

-----------------------------------------------------------------------------
(* The inductive invariant. *)
LEMMA IdentityInvariant == Spec => []IdentityInv
<1>1. IdentityInv /\ [Next]_vars => IdentityInv'
  BY TypeStep, ProcStep, SoloStep, KeyStep DEF IdentityInv
<1> QED BY InitInv, <1>1, PTL DEF Spec

(* Every variable keeps its type: in particular a descriptor that is read   *)
(* or written is open, and a key that is returned was generated or loaded.  *)
THEOREM IdentityTypeOK == Spec => []TypeOK
<1>1. IdentityInv => TypeOK
  BY DEF IdentityInv
<1> QED BY IdentityInvariant, <1>1, PTL

(* "It must be persisted between runs" (identity.rs:5-6): a running key is  *)
(* the one the next start loads, for every number of processes and crashes, *)
(* as long as no two starts overlapped.                                     *)
THEOREM RunningKeySurvives == Spec => []RunningKeyIsPersisted
<1>1. IdentityInv => RunningKeyIsPersisted
  BY DEF IdentityInv
<1> QED BY IdentityInvariant, <1>1, PTL

(* "Atomic-ish write" (identity.rs:86): no crash leaves a key file without  *)
(* a key, as long as no two starts overlapped.                              *)
THEOREM KeyFileSurvives == Spec => []KeyFileIsWhole
<1>1. IdentityInv => KeyFileIsWhole
  BY DEF IdentityInv
<1> QED BY IdentityInvariant, <1>1, PTL

(* load_or_generate_at never removes a key file, and without overlap never  *)
(* changes the key in it.                                                   *)
THEOREM IdentityKept == Spec => IdentityIsStable
<1> DEFINE A == key_file # None =>
                  /\ key_file' # None
                  /\ ~overlapped' => content'[key_file'] = content[key_file]
<1>1. ASSUME IdentityInv, [Next]_vars PROVE [A]_vars
  <2> SUFFICES ASSUME key_file # None, ~ UNCHANGED vars
               PROVE  /\ key_file' # None
                      /\ ~overlapped' => content'[key_file'] = content[key_file]
    OBVIOUS
  <2> USE <1>1 DEF IdentityInv, TypeOK, ProcInv, SoloInv, At
  <2>1. ASSUME NEW p \in Procs, Start(p) \/ Check(p) \/ Open(p) \/ Read(p) \/ Crash(p) PROVE A
    BY <2>1 DEF Start, Check, Open, Read, DecodeKey, Crash
  <2>2. ASSUME NEW p \in Procs, Create(p) PROVE A
    BY <2>2 DEF Create
  <2>3. ASSUME NEW p \in Procs, Write(p) PROVE A
    BY <2>3 DEF Write
  <2>4. ASSUME NEW p \in Procs, Rename(p) PROVE A
    BY <2>4 DEF Rename
  <2> QED BY <2>1, <2>2, <2>3, <2>4 DEF Next, Load
<1>2. Spec => [][Next]_vars
  BY PTL DEF Spec
<1>3. Spec => [][A]_vars
  BY <1>1, <1>2, IdentityInvariant, PTL
<1> QED BY <1>3 DEF IdentityIsStable
=============================================================================
