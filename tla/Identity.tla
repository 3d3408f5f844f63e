------------------------------ MODULE Identity ------------------------------
(***************************************************************************)
(* load_or_generate_at (common/src/identity.rs) run by processes that      *)
(* share one identity file, and that may crash at any point of it.  The    *)
(* file system is a directory of two names, the key file and the temporary *)
(* file, that point to inodes: a rename moves a name, a descriptor stays   *)
(* with its inode.                                                         *)
(***************************************************************************)
EXTENDS Naturals, FiniteSets

CONSTANTS
    Procs,          \* processes configured with the same identity path
    Keys,           \* secret keys SecretKey::generate may return
    Inodes,
    Empty,          \* the content of a file created and not written
    None

ASSUME IdentityAssumption ==
    /\ Empty \notin Keys
    /\ None \notin Keys \cup Inodes

VARIABLES
    content,        \* content[i]: the key in inode i, or Empty
    key_file,       \* the inode named identity.key, or None
    tmp,            \* the inode named .identity.key.tmp, or None
    used,           \* keys generated so far
    proc,           \* pc, key and open descriptor of each process
    overlapped      \* history: two processes were starting at the same time

vars == <<content, key_file, tmp, used, proc, overlapped>>

Starting == {"check", "open", "read", "create", "write", "rename"}
Off == [pc |-> "off", key |-> None, fd |-> None]

(* Every variable has its type; in particular nobody runs with anything but *)
(* a whole key, although starts that overlap can leave an empty key file    *)
(* (decode_key, identity.rs:80).                                            *)
TypeOK ==
    /\ content \in [Inodes -> Keys \cup {Empty}]
    /\ key_file \in Inodes \cup {None}
    /\ tmp \in Inodes \cup {None}
    /\ used \subseteq Keys
    /\ proc \in [Procs -> [pc : Starting \cup {"off", "running"},
                           key : Keys \cup {None},
                           fd : Inodes \cup {None}]]
    /\ overlapped \in BOOLEAN

Init ==
    /\ content = [i \in Inodes |-> Empty]
    /\ key_file = None
    /\ tmp = None
    /\ used = {}
    /\ proc = [p \in Procs |-> Off]
    /\ overlapped = FALSE

At(p, pc) == proc[p].pc = pc
Goto(p, pc) == proc' = [proc EXCEPT ![p].pc = pc]

(* load_or_generate_at returns a key, or an error that ends the process. *)
Returns(p, key) == proc' = [proc EXCEPT ![p] = [pc |-> "running", key |-> key, fd |-> None]]
Fails(p) == proc' = [proc EXCEPT ![p] = Off]

-----------------------------------------------------------------------------
Start(p) ==
    /\ At(p, "off")
    /\ overlapped' = (overlapped \/ \E q \in Procs : proc[q].pc \in Starting)
    /\ Goto(p, "check")
    /\ UNCHANGED <<content, key_file, tmp, used>>

(* key_file.exists() decides between loading and generating. *)
KeyFileIgnored == FALSE   \* mutant: the key file is never found
KeyFileExists == key_file # None

Check(p) ==
    /\ At(p, "check")
    /\ \/ /\ KeyFileExists
          /\ Goto(p, "open")
          /\ UNCHANGED used
       \/ /\ ~KeyFileExists
          /\ \E k \in Keys \ used :
               /\ used' = used \cup {k}
               /\ proc' = [proc EXCEPT ![p].pc = "create", ![p].key = k]
    /\ UNCHANGED <<content, key_file, tmp, overlapped>>

Open(p) ==
    /\ At(p, "open")
    /\ proc' = [proc EXCEPT ![p].pc = "read", ![p].fd = key_file]
    /\ UNCHANGED <<content, key_file, tmp, used, overlapped>>

(* decode_key accepts exactly 32 bytes. *)
DecodePadded(bytes) == TRUE   \* mutant: missing bytes are taken as zeros
DecodeKey(bytes) == bytes # Empty

Read(p) ==
    /\ At(p, "read")
    /\ \/ DecodeKey(content[proc[p].fd]) /\ Returns(p, content[proc[p].fd])
       \/ ~DecodeKey(content[proc[p].fd]) /\ Fails(p)
    /\ UNCHANGED <<content, key_file, tmp, used, overlapped>>

Referenced == {key_file, tmp} \cup {proc[q].fd : q \in Procs}

(* File::create truncates the temporary file, or makes a new one. *)
CreateInPlace(p) ==   \* mutant: no temporary file
    /\ At(p, "create")
    /\ \E i \in Inodes :
         /\ i \notin Referenced
         /\ content' = [content EXCEPT ![i] = Empty]
         /\ proc' = [proc EXCEPT ![p].pc = "write", ![p].fd = i]
         /\ tmp' = i /\ key_file' = i
    /\ UNCHANGED <<used, overlapped>>

Create(p) ==
    /\ At(p, "create")
    /\ \E i \in Inodes :
         /\ IF tmp # None THEN i = tmp ELSE i \notin Referenced
         /\ content' = [content EXCEPT ![i] = Empty]
         /\ proc' = [proc EXCEPT ![p].pc = "write", ![p].fd = i]
         /\ tmp' = i
    /\ UNCHANGED <<key_file, used, overlapped>>

Write(p) ==
    /\ At(p, "write")
    /\ \/ /\ content' = [content EXCEPT ![proc[p].fd] = proc[p].key]
          /\ proc' = [proc EXCEPT ![p].pc = "rename", ![p].fd = None]
       \/ Fails(p) /\ UNCHANGED content
    /\ UNCHANGED <<key_file, tmp, used, overlapped>>

(* rename fails if the temporary file is gone. *)
RenameKeeps(p) ==   \* mutant: renamed file not used, the key returned anyway
    /\ At(p, "rename")
    /\ Returns(p, proc[p].key)
    /\ UNCHANGED <<content, key_file, tmp, used, overlapped>>

Rename(p) ==
    /\ At(p, "rename")
    /\ \/ /\ tmp # None
          /\ key_file' = tmp
          /\ tmp' = None
          /\ Returns(p, proc[p].key)
       \/ /\ tmp = None
          /\ Fails(p)
          /\ UNCHANGED <<key_file, tmp>>
    /\ UNCHANGED <<content, used, overlapped>>

(* The process is killed or stops. *)
Crash(p) ==
    /\ proc[p].pc # "off"
    /\ proc' = [proc EXCEPT ![p] = Off]
    /\ UNCHANGED <<content, key_file, tmp, used, overlapped>>

Load(p) == Check(p) \/ Open(p) \/ Read(p) \/ Create(p) \/ Write(p) \/ Rename(p)

Next == \E p \in Procs : Start(p) \/ Load(p) \/ Crash(p)

Spec == Init /\ [][Next]_vars
-----------------------------------------------------------------------------
(***************************************************************************)
(* Properties.                                                             *)
(***************************************************************************)

(* "It must be persisted between runs so that other peers can keep          *)
(* addressing the same node" (identity.rs:5-6): while a process runs under  *)
(* a key, that key is what the next start will load, as long as no two      *)
(* starts overlapped.                                                       *)
RunningKeyIsPersisted ==
    ~overlapped => \A p \in Procs : At(p, "running") =>
        key_file # None /\ content[key_file] = proc[p].key

(* A key file is never seen half-written, whenever a start crashed          *)
(* ("Atomic-ish write", identity.rs:86); overlapping starts share the       *)
(* temporary file, and one can truncate what the other renames.             *)
KeyFileIsWhole ==
    (~overlapped /\ key_file # None) => content[key_file] # Empty

(* Once there is a key file it is never gone, whatever overlaps, and        *)
(* without overlap its key stays.                                           *)
IdentityIsStable ==
    [][key_file # None =>
         /\ key_file' # None
         /\ ~overlapped' => content'[key_file'] = content[key_file]]_vars
=============================================================================
