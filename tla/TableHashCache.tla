--------------------------- MODULE TableHashCache ---------------------------
(***************************************************************************)
(* The cache of table hashes: Schema() looks a table up (client.go), and   *)
(* asks the enclave and stores the answer when it is missing.  Cache       *)
(* (internal/cache.go) keeps the entries in memory under an RWMutex and    *)
(* writes them all to cache.json after every Set: to cache.json.tmp first, *)
(* which is then renamed.  The directory is the OS temp dir unless         *)
(* configured, so several processes can share both files.                  *)
(*                                                                         *)
(* The file system is outside this repository: directory entries name      *)
(* inodes, opening with O_TRUNC empties the inode, a write goes to the     *)
(* inode the descriptor was opened on whatever the directory now says, and *)
(* a rename moves a directory entry in one step.  A process may be killed  *)
(* between any two calls; one write call is one step.  What an entry holds *)
(* does not matter here: a cache is the set of tables it has a hash for.   *)
(***************************************************************************)
EXTENDS FiniteSets

CONSTANTS
  Clients,   \* the processes that share the directory, one Cache each
  Procs,     \* the goroutines that call Schema
  ClientOf,  \* goroutine -> its process
  Tables,    \* table names
  Inodes,    \* the inodes the file system can use
  None       \* no inode, no goroutine, no table

ASSUME ConstantsOK ==
  /\ ClientOf \in [Procs -> Clients]
  /\ None \notin Inodes \cup Procs \cup Tables

VARIABLES
  up,      \* process -> its Cache is loaded
  mem,     \* process -> tables in Cache.data
  mu,      \* process -> the goroutine that holds Cache.mu exclusively, or None
  pc,      \* goroutine -> where it is
  table,   \* goroutine -> the table it wants
  fd,      \* goroutine -> the inode it writes to
  path,    \* directory: cache.json
  tmp,     \* directory: cache.json.tmp
  data,    \* inode -> content
  stored   \* history: tables for which Set returned nil

vars == <<up, mem, mu, pc, table, fd, path, tmp, data, stored>>

\* A file that parses, and one that does not.
File(names) == [torn |-> FALSE, names |-> names]
Empty == File({})
Torn == [torn |-> TRUE, names |-> {}]

Init ==
  /\ up = [c \in Clients |-> FALSE]
  /\ mem = [c \in Clients |-> {}]
  /\ mu = [c \in Clients |-> None]
  /\ pc = [p \in Procs |-> "idle"]
  /\ table = [p \in Procs |-> None]
  /\ fd = [p \in Procs |-> None]
  /\ path = None
  /\ tmp = None
  /\ data = [i \in Inodes |-> Empty]
  /\ stored = {}

-----------------------------------------------------------------------------
(* NewCache, at the start of a process, and its end.                       *)

\* Mutant: the file is not read.
LoadNothing(c) ==
  /\ ~up[c]
  /\ path # None => ~data[path].torn
  /\ up' = [up EXCEPT ![c] = TRUE]
  /\ mem' = [mem EXCEPT ![c] = {}]
  /\ UNCHANGED <<mu, pc, table, fd, path, tmp, data, stored>>

\* No file and an empty file are an empty cache; NewCache fails on a file it
\* cannot parse, and NewClient with it.
Load(c) ==
  /\ ~up[c]
  /\ path # None => ~data[path].torn
  /\ up' = [up EXCEPT ![c] = TRUE]
  /\ mem' = [mem EXCEPT ![c] = IF path = None THEN {} ELSE data[path].names]
  /\ UNCHANGED <<mu, pc, table, fd, path, tmp, data, stored>>

\* The process ends, its goroutines wherever they are.
Kill(c) ==
  LET Mine(p) == ClientOf[p] = c IN
  /\ up[c]
  /\ up' = [up EXCEPT ![c] = FALSE]
  /\ mem' = [mem EXCEPT ![c] = {}]
  /\ mu' = [mu EXCEPT ![c] = None]
  /\ pc' = [p \in Procs |-> IF Mine(p) THEN "idle" ELSE pc[p]]
  /\ table' = [p \in Procs |-> IF Mine(p) THEN None ELSE table[p]]
  /\ fd' = [p \in Procs |-> IF Mine(p) THEN None ELSE fd[p]]
  /\ UNCHANGED <<path, tmp, data, stored>>

-----------------------------------------------------------------------------
(* Schema.                                                                 *)

\* Cache.Get waits for a Set that holds the lock, and misses.  (A hit changes
\* nothing.)
Miss(p, t) ==
  /\ pc[p] = "idle"
  /\ up[ClientOf[p]]
  /\ mu[ClientOf[p]] = None
  /\ t \notin mem[ClientOf[p]]
  /\ table' = [table EXCEPT ![p] = t]
  /\ pc' = [pc EXCEPT ![p] = "fetch"]
  /\ UNCHANGED <<up, mem, mu, fd, path, tmp, data, stored>>

\* EnclaveClient.GetTableHash answers, or fails and Schema with it.
Fetch(p) ==
  /\ pc[p] = "fetch"
  /\ \/ /\ pc' = [pc EXCEPT ![p] = "set"]
        /\ UNCHANGED table
     \/ /\ pc' = [pc EXCEPT ![p] = "idle"]
        /\ table' = [table EXCEPT ![p] = None]
  /\ UNCHANGED <<up, mem, mu, fd, path, tmp, data, stored>>

-----------------------------------------------------------------------------
(* Cache.Set and save.                                                     *)

\* Mutant: Set does not lock out other Sets.
SetUnlocked(p) ==
  /\ pc[p] = "set"
  /\ mem' = [mem EXCEPT ![ClientOf[p]] = @ \cup {table[p]}]
  /\ pc' = [pc EXCEPT ![p] = "open"]
  /\ UNCHANGED <<up, mu, table, fd, path, tmp, data, stored>>

\* The entry is in memory once the lock is taken, whatever becomes of the file.
Set(p) ==
  LET c == ClientOf[p] IN
  /\ pc[p] = "set"
  /\ mu[c] = None
  /\ mu' = [mu EXCEPT ![c] = p]
  /\ mem' = [mem EXCEPT ![c] = @ \cup {table[p]}]
  /\ pc' = [pc EXCEPT ![p] = "open"]
  /\ UNCHANGED <<up, table, fd, path, tmp, data, stored>>

\* Set returns: deferred Unlock.  Schema ignores the error.
SetReturns(p) ==
  /\ mu' = [mu EXCEPT ![ClientOf[p]] = None]
  /\ pc' = [pc EXCEPT ![p] = "idle"]
  /\ table' = [table EXCEPT ![p] = None]
  /\ fd' = [fd EXCEPT ![p] = None]

InUse == {path, tmp} \cup {fd[p] : p \in Procs}

\* Mutant: the file is written in place.
OpenInPlace(p, i) ==
  /\ pc[p] = "open"
  /\ IF path = None THEN i \in Inodes \ InUse ELSE i = path
  /\ path' = i
  /\ tmp' = i
  /\ data' = [data EXCEPT ![i] = Empty]
  /\ fd' = [fd EXCEPT ![p] = i]
  /\ pc' = [pc EXCEPT ![p] = "write"]
  /\ UNCHANGED <<up, mem, mu, table, stored>>

\* os.WriteFile opens the temporary file, new or truncated.
Open(p, i) ==
  /\ pc[p] = "open"
  /\ IF tmp = None THEN i \in Inodes \ InUse ELSE i = tmp
  /\ tmp' = i
  /\ data' = [data EXCEPT ![i] = Empty]
  /\ fd' = [fd EXCEPT ![p] = i]
  /\ pc' = [pc EXCEPT ![p] = "write"]
  /\ UNCHANGED <<up, mem, mu, table, path, stored>>

OpenFails(p) ==
  /\ pc[p] = "open"
  /\ SetReturns(p)
  /\ UNCHANGED <<up, mem, path, tmp, data, stored>>

\* What writing "names" over a file from its start can leave: the rest of a
\* longer text stays behind it.
Overwritten(old, names) ==
  IF old.torn THEN {Torn}
  ELSE (IF old.names \subseteq names \/ ~(names \subseteq old.names) THEN {File(names)} ELSE {})
         \cup (IF old.names \subseteq names THEN {} ELSE {Torn})

Write(p) ==
  /\ pc[p] = "write"
  /\ \E f \in Overwritten(data[fd[p]], mem[ClientOf[p]]) : data' = [data EXCEPT ![fd[p]] = f]
  /\ pc' = [pc EXCEPT ![p] = "rename"]
  /\ UNCHANGED <<up, mem, mu, table, fd, path, tmp, stored>>

\* Mutant: the error of a failed write is not looked at.
WriteFailsUnnoticed(p) ==
  /\ pc[p] = "write"
  /\ data' = [data EXCEPT ![fd[p]] = Torn]
  /\ pc' = [pc EXCEPT ![p] = "rename"]
  /\ UNCHANGED <<up, mem, mu, table, fd, path, tmp, stored>>

\* The disk is full: a part is written and save returns the error.
WriteFails(p) ==
  /\ pc[p] = "write"
  /\ data' = [data EXCEPT ![fd[p]] = Torn]
  /\ SetReturns(p)
  /\ UNCHANGED <<up, mem, path, tmp, stored>>

\* The rename takes whatever the temporary name stands for now; it fails when
\* another process has renamed it away.
Rename(p) ==
  /\ pc[p] = "rename"
  /\ IF tmp # None
       THEN /\ path' = tmp
            /\ tmp' = None
            /\ stored' = stored \cup {table[p]}
       ELSE UNCHANGED <<path, tmp, stored>>
  /\ SetReturns(p)
  /\ UNCHANGED <<up, mem, data>>

-----------------------------------------------------------------------------
Proceed(p) ==
  \/ Fetch(p) \/ Set(p) \/ OpenFails(p) \/ Write(p) \/ WriteFails(p) \/ Rename(p)
  \/ \E i \in Inodes : Open(p, i)

Next ==
  \/ \E c \in Clients : Load(c) \/ Kill(c)
  \/ \E p \in Procs : Proceed(p) \/ (\E t \in Tables : Miss(p, t))

Spec == Init /\ [][Next]_vars

-----------------------------------------------------------------------------
Content == {Torn} \cup {File(names) : names \in SUBSET Tables}

\* Every variable holds what the code can put in it, and of the goroutines of a
\* process only the holder of its lock is between Set's Lock and Unlock.
TypeOK ==
  /\ up \in [Clients -> BOOLEAN]
  /\ mem \in [Clients -> SUBSET Tables]
  /\ mu \in [Clients -> Procs \cup {None}]
  /\ pc \in [Procs -> {"idle", "fetch", "set", "open", "write", "rename"}]
  /\ table \in [Procs -> Tables \cup {None}]
  /\ fd \in [Procs -> Inodes \cup {None}]
  /\ path \in Inodes \cup {None}
  /\ tmp \in Inodes \cup {None}
  /\ data \in [Inodes -> Content]
  /\ stored \subseteq Tables
  /\ \A p \in Procs : pc[p] \in {"open", "write", "rename"} <=> mu[ClientOf[p]] = p

\* A client can be started at any moment: cache.json is never a file that
\* NewCache cannot parse, wherever a process was killed and whatever write
\* failed (NewCache, save; the tests of NewClient expect it to succeed).
CacheFileLoads == path # None => ~data[path].torn

\* An entry whose Set returned without an error is never lost again: it is in
\* cache.json through every later Set, failed save, kill and restart.
StoredIsKept == stored # {} => path # None /\ stored \subseteq data[path].names

\* A save that fails leaves the cache file as it was, and a save that succeeds
\* replaces all of it: readers of cache.json see one whole state or another.
FileChangesWhole ==
  [][(path' = path /\ path # None => data'[path] = data[path])
     /\ (path' # path => data'[path'].names \in {mem[c] : c \in Clients})]_vars

=============================================================================
