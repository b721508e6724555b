------------------------ MODULE TableHashCacheProofs ------------------------
(***************************************************************************)
(* Proofs about TableHashCache: type correctness for any number of         *)
(* processes, the state of the cache file while their saves do not         *)
(* overlap, and what is kept in it for one process, with any number of     *)
(* goroutines, tables, kills and failing writes.  That the saves do not    *)
(* overlap is a real restriction: TLC finds two that break the file.       *)
(***************************************************************************)
EXTENDS TableHashCache, TLAPS

LEMMA ContentType == Empty \in Content /\ Torn \in Content
                     /\ \A names \in SUBSET Tables : File(names) \in Content
  BY DEF Content, Empty

LEMMA OverwrittenType ==
  ASSUME NEW f \in Content, NEW names \in SUBSET Tables
  PROVE  Overwritten(f, names) \subseteq Content
  BY ContentType DEF Overwritten

\* What is read from the cache file is a set of tables.
LEMMA NamesType == \A f \in Content : f.names \in SUBSET Tables
  BY DEF Content, File, Torn

\* Between its Lock and Unlock a goroutine has its table, and its inode once
\* it has opened it; its process is loaded.
ControlInv ==
  /\ \A p \in Procs : pc[p] # "idle" => up[ClientOf[p]] /\ table[p] \in Tables
  /\ \A p \in Procs : pc[p] \in {"write", "rename"} => fd[p] \in Inodes

TypeInv == TypeOK /\ ControlInv

-----------------------------------------------------------------------------
\* SetReturns gives the lock back.
LEMMA SetReturnsType ==
  ASSUME TypeInv, NEW p \in Procs, pc[p] \in {"open", "write", "rename"}, SetReturns(p),
         UNCHANGED up
  PROVE  /\ mu' \in [Clients -> Procs \cup {None}]
         /\ pc' \in [Procs -> {"idle", "fetch", "set", "open", "write", "rename"}]
         /\ table' \in [Procs -> Tables \cup {None}]
         /\ fd' \in [Procs -> Inodes \cup {None}]
         /\ \A q \in Procs : pc'[q] \in {"open", "write", "rename"} <=> mu'[ClientOf[q]] = q
         /\ ControlInv'
<1> USE ConstantsOK DEF TypeInv, TypeOK, SetReturns
<1>1. mu' \in [Clients -> Procs \cup {None}]
  OBVIOUS
<1>2. /\ pc' \in [Procs -> {"idle", "fetch", "set", "open", "write", "rename"}]
      /\ table' \in [Procs -> Tables \cup {None}]
      /\ fd' \in [Procs -> Inodes \cup {None}]
  OBVIOUS
<1>3. mu[ClientOf[p]] = p
  OBVIOUS
<1>4. ASSUME NEW q \in Procs
      PROVE  pc'[q] \in {"open", "write", "rename"} <=> mu'[ClientOf[q]] = q
  <2>1. CASE q = p
    BY <2>1
  <2>2. CASE q # p /\ ClientOf[q] = ClientOf[p]
    BY <1>3, <2>2
  <2>3. CASE q # p /\ ClientOf[q] # ClientOf[p]
    BY <2>3
  <2> QED
    BY <2>1, <2>2, <2>3
<1>5. ControlInv'
  BY DEF ControlInv
<1> QED
  BY <1>1, <1>2, <1>4, <1>5

LEMMA TypeStep == TypeInv /\ [Next]_vars => TypeInv'
<1> SUFFICES ASSUME TypeInv, [Next]_vars PROVE TypeInv'
  OBVIOUS
<1> USE ConstantsOK
<1>1. ASSUME NEW c \in Clients, Load(c) PROVE TypeInv'
  <2>1. path # None => data[path].names \in SUBSET Tables
    BY NamesType DEF TypeInv, TypeOK
  <2> QED
    BY <1>1, <2>1 DEF Load, TypeInv, TypeOK, ControlInv
<1>2. ASSUME NEW c \in Clients, Kill(c) PROVE TypeInv'
  BY <1>2 DEF Kill, TypeInv, TypeOK, ControlInv
<1>3. ASSUME NEW p \in Procs, NEW t \in Tables, Miss(p, t) PROVE TypeInv'
  BY <1>3 DEF Miss, TypeInv, TypeOK, ControlInv
<1>4. ASSUME NEW p \in Procs, Fetch(p) PROVE TypeInv'
  BY <1>4 DEF Fetch, TypeInv, TypeOK, ControlInv
<1>5. ASSUME NEW p \in Procs, Set(p) PROVE TypeInv'
  <2>1. mem' \in [Clients -> SUBSET Tables]
    BY <1>5 DEF Set, TypeInv, TypeOK, ControlInv
  <2>2. \A q \in Procs : pc'[q] \in {"open", "write", "rename"} <=> mu'[ClientOf[q]] = q
    BY <1>5 DEF Set, TypeInv, TypeOK
  <2> QED
    BY <1>5, <2>1, <2>2 DEF Set, TypeInv, TypeOK, ControlInv
<1>6. ASSUME NEW p \in Procs, NEW i \in Inodes, Open(p, i) PROVE TypeInv'
  BY <1>6, ContentType DEF Open, TypeInv, TypeOK, ControlInv
<1>7. ASSUME NEW p \in Procs, OpenFails(p) PROVE TypeInv'
  BY <1>7, SetReturnsType DEF OpenFails, TypeInv, TypeOK
<1>8. ASSUME NEW p \in Procs, Write(p) PROVE TypeInv'
  <2>1. PICK f \in Overwritten(data[fd[p]], mem[ClientOf[p]]) :
          data' = [data EXCEPT ![fd[p]] = f]
    BY <1>8 DEF Write
  <2>2. f \in Content
    BY <1>8, <2>1, OverwrittenType DEF Write, TypeInv, TypeOK, ControlInv
  <2>3. data' \in [Inodes -> Content]
    BY <2>1, <2>2 DEF TypeInv, TypeOK
  <2> QED
    BY <1>8, <2>3 DEF Write, TypeInv, TypeOK, ControlInv
<1>9. ASSUME NEW p \in Procs, WriteFails(p) PROVE TypeInv'
  BY <1>9, SetReturnsType, ContentType DEF WriteFails, TypeInv, TypeOK
<1>10. ASSUME NEW p \in Procs, Rename(p) PROVE TypeInv'
  <2>1. stored' \subseteq Tables
    BY <1>10 DEF Rename, TypeInv, TypeOK, ControlInv
  <2>2. path' \in Inodes \cup {None} /\ tmp' \in Inodes \cup {None}
    BY <1>10 DEF Rename, TypeInv, TypeOK
  <2> QED
    BY <1>10, <2>1, <2>2, SetReturnsType DEF Rename, TypeInv, TypeOK
<1>11. CASE UNCHANGED vars
  BY <1>11 DEF vars, TypeInv, TypeOK, ControlInv
<1> QED
  BY <1>1, <1>2, <1>3, <1>4, <1>5, <1>6, <1>7, <1>8, <1>9, <1>10, <1>11 DEF Next, Proceed

LEMMA TypeInit == Init => TypeInv
  BY ConstantsOK, ContentType DEF Init, TypeInv, TypeOK, ControlInv

THEOREM Typing == Spec => []TypeInv
  BY TypeInit, TypeStep, PTL DEF Spec

\* Every variable holds what the code can put in it, and between Lock and
\* Unlock of a process's Cache is the holder of the lock alone.
THEOREM TypeCorrect == Spec => []TypeOK
<1>1. TypeInv => TypeOK
  BY DEF TypeInv
<1> QED
  BY <1>1, Typing, PTL

-----------------------------------------------------------------------------
(* Any number of processes whose saves do not overlap.                     *)

Saving(p) == pc[p] \in {"write", "rename"}

\* No goroutine opens cache.json.tmp while another one, of its process or of
\* another, is between opening and renaming it.
SavesApart == \A p, q \in Procs : Saving(p) /\ Saving(q) => p = q

\* The goroutine that saves writes to the temporary file, which is not the
\* cache file, and renames it only with all of Cache.data in it.
SaveInv ==
  /\ path # None => path # tmp
  /\ \A p \in Procs : Saving(p) => fd[p] = tmp
  /\ \A p \in Procs : pc[p] = "write" => data[tmp] = Empty
  /\ \A p \in Procs : pc[p] = "rename" => data[tmp] = File(mem[ClientOf[p]])
  /\ \A p \in Procs : pc[p] \in {"open", "write", "rename"} => table[p] \in mem[ClientOf[p]]

FileInv == SaveInv /\ CacheFileLoads

\* The cache file changes by a rename, and then to all that a process knows.
Whole ==
  /\ path' = path /\ path # None => data'[path] = data[path]
  /\ path' # path => data'[path'].names \in {mem[c] : c \in Clients}

LEMMA FileParts ==
  /\ \A names : File(names).torn = FALSE /\ File(names).names = names
  /\ Empty.torn = FALSE /\ Empty.names = {}
  /\ \A names : Overwritten(Empty, names) = {File(names)}
  BY DEF File, Empty, Overwritten

\* Every step keeps the invariant: what a save writes to, and what a failed or
\* killed one leaves, is not the cache file until the rename.
LEMMA FileStep ==
  ASSUME TypeInv, FileInv, SavesApart, SavesApart', [Next]_vars
  PROVE  FileInv' /\ Whole
<1> USE ConstantsOK
\* A step that leaves the directory and the files alone.
<1>0. ASSUME UNCHANGED <<path, tmp, data>>,
             \A p \in Procs : pc'[p] \in {"open", "write", "rename"} =>
               /\ table'[p] \in mem'[ClientOf[p]]
               /\ Saving(p)' => pc'[p] = pc[p] /\ fd'[p] = fd[p] /\ mem'[ClientOf[p]] = mem[ClientOf[p]]
      PROVE  FileInv' /\ Whole
  <2>1. \A p \in Procs : Saving(p)' => Saving(p)
    BY <1>0 DEF Saving
  <2>2. SaveInv'
    BY <1>0, <2>1 DEF FileInv, SaveInv, Saving
  <2> QED
    BY <1>0, <2>2 DEF FileInv, CacheFileLoads, Whole
<1>s. \A p \in Procs : pc[p] \in {"open", "write", "rename"} =>
        mu[ClientOf[p]] = p /\ up[ClientOf[p]] /\ table[p] \in mem[ClientOf[p]]
  BY DEF TypeInv, TypeOK, ControlInv, FileInv, SaveInv
<1>1. ASSUME NEW c \in Clients, Load(c) PROVE FileInv' /\ Whole
  <2>1. \A p \in Procs : pc[p] \in {"open", "write", "rename"} => mem'[ClientOf[p]] = mem[ClientOf[p]]
    BY <1>s, <1>1 DEF Load, TypeInv, TypeOK
  <2> QED
    BY <1>0, <1>s, <1>1, <2>1 DEF Load
<1>2. ASSUME NEW c \in Clients, Kill(c) PROVE FileInv' /\ Whole
  <2>1. \A p \in Procs : pc'[p] # "idle" =>
          UNCHANGED <<pc[p], table[p], fd[p], mem[ClientOf[p]]>>
    BY <1>2 DEF Kill, TypeInv, TypeOK
  <2> QED
    BY <1>0, <1>s, <1>2, <2>1 DEF Kill
<1>3. ASSUME NEW p \in Procs, (\E t \in Tables : Miss(p, t)) \/ Fetch(p) PROVE FileInv' /\ Whole
  <2>1. /\ UNCHANGED <<path, tmp, data, mem, fd>>
        /\ \A q \in Procs : pc'[q] \in {"open", "write", "rename"} => pc'[q] = pc[q] /\ table'[q] = table[q]
    BY <1>3 DEF Miss, Fetch, TypeInv, TypeOK
  <2> QED
    BY <1>0, <1>s, <2>1
<1>4. ASSUME NEW p \in Procs, Set(p) PROVE FileInv' /\ Whole
  <2>1. UNCHANGED <<path, tmp, data, fd, table>> /\ pc' = [pc EXCEPT ![p] = "open"]
        /\ mu[ClientOf[p]] = None
    BY <1>4 DEF Set
  <2>2. table[p] \in mem'[ClientOf[p]]
    BY <1>4 DEF Set, TypeInv, TypeOK
  <2>3. \A q \in Procs : pc[q] \in {"open", "write", "rename"} => mem'[ClientOf[q]] = mem[ClientOf[q]]
    BY <1>s, <1>4, <2>1 DEF Set, TypeInv, TypeOK
  <2> QED
    BY <1>0, <1>s, <2>1, <2>2, <2>3 DEF TypeInv, TypeOK, Saving
<1>5. ASSUME NEW p \in Procs, OpenFails(p) PROVE FileInv' /\ Whole
  <2>1. \A q \in Procs : pc'[q] \in {"open", "write", "rename"} =>
          UNCHANGED <<pc[q], table[q], fd[q]>>
    BY <1>5 DEF OpenFails, SetReturns, TypeInv, TypeOK
  <2> QED
    BY <1>0, <1>s, <1>5, <2>1 DEF OpenFails
<1>6. ASSUME NEW p \in Procs, NEW i \in Inodes, Open(p, i) PROVE FileInv' /\ Whole
  <2>1. i # path
    BY <1>6 DEF Open, InUse, FileInv, SaveInv
  <2>2. path # None => data'[path] = data[path]
    BY <1>6, <2>1 DEF Open, TypeInv, TypeOK
  <2>3. \A q \in Procs : Saving(q)' => q = p
    BY <1>6 DEF Open, Saving, SavesApart, TypeInv, TypeOK
  <2>4. fd'[p] = tmp' /\ data'[tmp'] = Empty /\ tmp' # path /\ pc'[p] = "write"
    BY <1>6, <2>1 DEF Open, TypeInv, TypeOK
  <2>5. \A q \in Procs : pc'[q] \in {"open", "write", "rename"} => table'[q] \in mem'[ClientOf[q]]
    BY <1>s, <1>6 DEF Open, TypeInv, TypeOK
  <2>6. SaveInv'
    BY <1>6, <2>3, <2>4, <2>5 DEF Open, FileInv, SaveInv, Saving
  <2> QED
    BY <1>6, <2>2, <2>6 DEF Open, FileInv, CacheFileLoads, Whole
\* A save returns; no other one is under way.
<1>7. ASSUME NEW p \in Procs, Saving(p), SetReturns(p), UNCHANGED mem,
             path' # None => path' # tmp', CacheFileLoads'
      PROVE  FileInv'
  <2>1. \A q \in Procs : ~Saving(q)' /\ (pc'[q] = "open" => pc[q] = "open" /\ table'[q] = table[q])
    BY <1>7 DEF SetReturns, SavesApart, Saving, TypeInv, TypeOK
  <2>2. \A q \in Procs : pc'[q] \in {"open", "write", "rename"} => table'[q] \in mem'[ClientOf[q]]
    BY <1>s, <1>7, <2>1 DEF Saving
  <2> QED
    BY <1>7, <2>1, <2>2 DEF FileInv, SaveInv, Saving
<1>8. ASSUME NEW p \in Procs, Write(p) PROVE FileInv' /\ Whole
  <2>1. fd[p] = tmp /\ data[tmp] = Empty /\ tmp \in Inodes
    BY <1>8 DEF Write, FileInv, SaveInv, Saving, TypeInv, ControlInv
  <2>2. data' = [data EXCEPT ![tmp] = File(mem[ClientOf[p]])]
    <3>1. Overwritten(data[fd[p]], mem[ClientOf[p]]) = {File(mem[ClientOf[p]])}
      BY <2>1, FileParts
    <3>2. \E f \in {File(mem[ClientOf[p]])} : data' = [data EXCEPT ![fd[p]] = f]
      BY <1>8, <3>1 DEF Write
    <3> QED
      BY <2>1, <3>2
  <2>3. path # None => data'[path] = data[path]
    BY <2>2 DEF FileInv, SaveInv, TypeInv, TypeOK
  <2>4. \A q \in Procs : Saving(q)' => q = p /\ pc'[q] = "rename"
    BY <1>8 DEF Write, Saving, SavesApart, TypeInv, TypeOK
  <2>5. data'[tmp] = File(mem[ClientOf[p]])
    BY <2>1, <2>2 DEF TypeInv, TypeOK
  <2>6. \A q \in Procs : pc'[q] \in {"open", "write", "rename"} => table'[q] \in mem'[ClientOf[q]]
    BY <1>s, <1>8 DEF Write, TypeInv, TypeOK
  <2>7. SaveInv'
    BY <1>8, <2>1, <2>4, <2>5, <2>6 DEF Write, FileInv, SaveInv, Saving
  <2> QED
    BY <1>8, <2>3, <2>7 DEF Write, FileInv, CacheFileLoads, Whole
<1>9. ASSUME NEW p \in Procs, WriteFails(p) PROVE FileInv' /\ Whole
  <2>1. fd[p] = tmp /\ Saving(p)
    BY <1>9 DEF WriteFails, FileInv, SaveInv, Saving
  <2>2. path # None => data'[path] = data[path]
    BY <1>9, <2>1 DEF WriteFails, FileInv, SaveInv, TypeInv, TypeOK
  <2>3. FileInv'
    BY <1>7, <1>9, <2>1, <2>2 DEF WriteFails, FileInv, SaveInv, CacheFileLoads
  <2> QED
    BY <1>9, <2>2, <2>3 DEF WriteFails, Whole
<1>10. ASSUME NEW p \in Procs, Rename(p) PROVE FileInv' /\ Whole
  <2>1. fd[p] = tmp /\ tmp \in Inodes /\ data[tmp] = File(mem[ClientOf[p]]) /\ Saving(p)
    BY <1>10 DEF Rename, FileInv, SaveInv, Saving, TypeInv, ControlInv
  <2>2. path' = tmp /\ tmp' = None /\ UNCHANGED <<mem, data>>
    BY <1>10, <2>1 DEF Rename
  <2>3. CacheFileLoads' /\ path' # tmp' /\ Whole
    BY <2>1, <2>2, FileParts DEF CacheFileLoads, Whole, FileInv, SaveInv
  <2> QED
    BY <1>7, <1>10, <2>1, <2>2, <2>3 DEF Rename
<1>11. CASE UNCHANGED vars
  BY <1>0, <1>s, <1>11 DEF vars
<1> QED
  BY <1>1, <1>2, <1>3, <1>4, <1>5, <1>6, <1>8, <1>9, <1>10, <1>11 DEF Next, Proceed

LEMMA FileInit == Init => FileInv
  BY DEF Init, FileInv, SaveInv, Saving, CacheFileLoads

\* Whatever is killed and whichever writes fail, of however many processes: only
\* two saves that have cache.json.tmp open at once can leave a cache.json that
\* NewCache cannot parse, and the file only changes as a whole without them.
THEOREM OnlyOverlapsBreakTheFile ==
  Spec /\ []SavesApart => []CacheFileLoads /\ FileChangesWhole
<1>1. TypeInv /\ FileInv /\ SavesApart /\ SavesApart' /\ [Next]_vars => FileInv' /\ [Whole]_vars
  BY FileStep
<1>2. FileInv => CacheFileLoads
  BY DEF FileInv
<1> QED
  BY <1>1, <1>2, FileInit, Typing, PTL DEF Spec, Whole, FileChangesWhole

-----------------------------------------------------------------------------
(* One process.                                                            *)

OneProcess == \A c, d \in Clients : c = d

\* The goroutines of one process take turns.
LEMMA OneProcessApart == OneProcess /\ TypeInv => SavesApart
  BY ConstantsOK DEF OneProcess, TypeInv, TypeOK, SavesApart, Saving

\* The loaded cache knows whatever was stored.
MemoryInv == \A c \in Clients : up[c] => stored \subseteq mem[c]

LEMMA MemoryStep ==
  ASSUME OneProcess, TypeInv, FileInv, MemoryInv, StoredIsKept, [Next]_vars
  PROVE  MemoryInv' /\ StoredIsKept'
<1> USE ConstantsOK
<1>1. SavesApart /\ SavesApart' /\ TypeInv' /\ FileInv' /\ Whole
  <2>1. TypeInv' /\ SavesApart
    BY TypeStep, OneProcessApart
  <2>2. SavesApart'
    BY <2>1 DEF OneProcess, TypeInv, TypeOK, SavesApart, Saving
  <2> QED
    BY <2>1, <2>2, FileStep
<1>2. ASSUME UNCHANGED <<path, stored>> PROVE StoredIsKept'
  BY <1>1, <1>2 DEF Whole, StoredIsKept
<1>3. ASSUME UNCHANGED <<up, mem, path, stored>> PROVE MemoryInv' /\ StoredIsKept'
  BY <1>2, <1>3 DEF MemoryInv
<1>4. ASSUME NEW c \in Clients, Load(c) PROVE MemoryInv' /\ StoredIsKept'
  <2>1. MemoryInv'
    BY <1>4 DEF Load, MemoryInv, StoredIsKept, OneProcess, TypeInv, TypeOK
  <2> QED
    BY <1>2, <1>4, <2>1 DEF Load
<1>5. ASSUME NEW c \in Clients, Kill(c) PROVE MemoryInv' /\ StoredIsKept'
  <2>1. MemoryInv'
    BY <1>5 DEF Kill, MemoryInv, OneProcess, TypeInv, TypeOK
  <2> QED
    BY <1>2, <1>5, <2>1 DEF Kill
<1>6. ASSUME NEW p \in Procs, Set(p) PROVE MemoryInv' /\ StoredIsKept'
  <2>1. \A c \in Clients : mem[c] \subseteq mem'[c]
    BY <1>6 DEF Set, TypeInv, TypeOK
  <2>2. MemoryInv'
    BY <1>6, <2>1 DEF Set, MemoryInv
  <2> QED
    BY <1>2, <1>6, <2>2 DEF Set
<1>7. ASSUME NEW p \in Procs, Rename(p) PROVE MemoryInv' /\ StoredIsKept'
  <2>1. tmp \in Inodes /\ data[tmp] = File(mem[ClientOf[p]]) /\ table[p] \in mem[ClientOf[p]]
        /\ up[ClientOf[p]]
    BY <1>7 DEF Rename, FileInv, SaveInv, Saving, TypeInv, ControlInv
  <2>2. path' = tmp /\ stored' = stored \cup {table[p]} /\ UNCHANGED <<up, mem, data>>
    BY <1>7, <2>1 DEF Rename
  <2>3. stored' \subseteq mem[ClientOf[p]]
    BY <2>1, <2>2 DEF MemoryInv
  <2>4. MemoryInv'
    BY <2>2, <2>3 DEF MemoryInv, OneProcess
  <2>5. StoredIsKept'
    BY <2>1, <2>2, <2>3, FileParts DEF StoredIsKept
  <2> QED
    BY <2>4, <2>5
<1> QED
  BY <1>3, <1>4, <1>5, <1>6, <1>7
  DEF Next, Proceed, Miss, Fetch, OpenFails, Open, Write, WriteFails, vars

\* With one process on the directory, NewCache can parse cache.json whenever
\* that process was killed and whatever save failed.
THEOREM FileLoads ==
  ASSUME OneProcess
  PROVE  Spec => []CacheFileLoads
<1>1. TypeInv => SavesApart
  BY OneProcessApart
<1> QED
  BY <1>1, OnlyOverlapsBreakTheFile, Typing, PTL

\* With one process on the directory, cache.json changes by a rename only, and
\* then holds all that the process knows.
THEOREM FileIsReplacedWhole ==
  ASSUME OneProcess
  PROVE  Spec => FileChangesWhole
<1>1. TypeInv => SavesApart
  BY OneProcessApart
<1> QED
  BY <1>1, OnlyOverlapsBreakTheFile, Typing, PTL

\* With one process on the directory, a stored entry is never lost.
THEOREM EntriesAreKept ==
  ASSUME OneProcess
  PROVE  Spec => []StoredIsKept
<1>1. Init => MemoryInv /\ StoredIsKept
  BY DEF Init, MemoryInv, StoredIsKept
<1>2. TypeInv => SavesApart
  BY OneProcessApart
<1>3. TypeInv /\ FileInv /\ SavesApart /\ SavesApart' /\ [Next]_vars => FileInv'
  BY FileStep
<1>4. /\ TypeInv /\ FileInv /\ MemoryInv /\ StoredIsKept /\ [Next]_vars
      => MemoryInv' /\ StoredIsKept'
  BY MemoryStep
<1> QED
  BY <1>1, <1>2, <1>3, <1>4, FileInit, Typing, PTL DEF Spec

=============================================================================
