-------------------------- MODULE StateStoreProofs --------------------------
(***************************************************************************)
(* Theorems about StateStore, for any records, inodes, failing calls,      *)
(* deaths and power failures.                                              *)
(***************************************************************************)
EXTENDS StateStore, TLAPS

\* write_atomic's vocabulary: contents are contents.
LEMMA ContentsType ==
    /\ Partial \in Contents /\ Partial.kind = "partial"
    /\ \A r \in SUBSET Records : /\ Whole(r) \in Contents
                                 /\ Whole(r).kind = "whole" /\ Whole(r).records = r
    /\ \A c \in Contents : c.records \in SUBSET Records
BY DEF Contents, Whole, Partial, Foreign

\* A host that starts is one whose file system has settled.
LEMMA InitHolds == Init => StoreInv
<1> SUFFICES ASSUME Init PROVE StoreInv
  OBVIOUS
<1>1. PICK i \in Inodes, kind \in {"none", "whole"} \cup Foreign :
         /\ cache = [j \in Inodes |-> IF j = i /\ kind # "none"
                                     THEN [kind |-> kind, records |-> {}] ELSE Partial]
         /\ dir = [n \in Names |-> IF n = "ledger" /\ kind # "none" THEN i ELSE None]
  BY DEF Init
<1>2. /\ disk = cache /\ ddir = dir /\ daemon = Down
      /\ acked = {} /\ killed = {} /\ faults = 0 /\ deaths = 0
  BY DEF Init
<1>3. dir \in [Names -> Inodes \cup {None}] /\ dir["temp"] = None
  BY <1>1 DEF Names
<1>4. cache \in [Inodes -> Contents]
  BY <1>1, ContentsType DEF Contents, Foreign
<1>5. daemon.at = "down" /\ daemon.fd = None /\ daemon.readOnly = FALSE
  BY <1>2 DEF Down
<1>6. TypeOK
  BY <1>2, <1>3, <1>4, StoreAssumption DEF TypeOK, Down
<1>7. Found = Durable /\ Found.kind # "partial"
  BY <1>1, <1>2, <1>3, StoreAssumption, ContentsType DEF Found, Durable, Names, Foreign, Whole
<1>8. TempApart /\ NamedFlushed /\ WriterHolds
  BY <1>2, <1>3, <1>5 DEF TempApart, NamedFlushed, WriterHolds, Saving
<1> QED
  BY <1>2, <1>6, <1>7, <1>8 DEF StoreInv, ForeignStays, LedgerIsWhole, AckedOutlivesPower

\* StateStore::load, of a file it can read or of one it cannot.
LEMMA StartHolds == StoreInv /\ (Start \/ StartUnreadable) => StoreInv'
<1> SUFFICES ASSUME StoreInv, Start \/ StartUnreadable PROVE StoreInv'
  OBVIOUS
<1>1. TypeOK /\ TempApart /\ NamedFlushed /\ WriterHolds /\ ForeignStays
  BY DEF StoreInv
<1>2. UNCHANGED <<cache, disk, dir, ddir, acked, killed, deaths>> /\ faults' \in 0 .. MaxFaults
  BY <1>1, StoreAssumption DEF Start, StartUnreadable, fsVars, budget, TypeOK
<1>3. Found' = Found /\ Durable' = Durable
  BY <1>2 DEF Found, Durable
<1>4. Found.records \in SUBSET Records
  BY <1>1, ContentsType DEF Found, TypeOK, Names
<1>5. /\ daemon' \in [at : {"idle"}, readOnly : BOOLEAN, holds : SUBSET Records,
                      next : SUBSET Records, fd : {None}]
      /\ ~ daemon'.readOnly => Found.kind = "whole" /\ daemon'.holds = Found.records
  BY <1>4 DEF Start, StartUnreadable, Down
<1>6. TypeOK'
  BY <1>1, <1>2, <1>5 DEF TypeOK
<1>7. TempApart' /\ NamedFlushed' /\ WriterHolds'
  BY <1>1, <1>2, <1>3, <1>5 DEF TempApart, NamedFlushed, WriterHolds, Saving
<1> QED
  BY <1>1, <1>2, <1>3, <1>6, <1>7 DEF StoreInv, ForeignStays, LedgerIsWhole, AckedOutlivesPower

\* StateStore::save begins: what is left out was asked to be killed.
LEMMA SaveHolds ==
    ASSUME NEW records \in SUBSET Records, StoreInv, Save(records)
    PROVE  StoreInv'
<1>1. TypeOK /\ TempApart /\ NamedFlushed /\ WriterHolds /\ ForeignStays
  BY DEF StoreInv
<1>2. UNCHANGED <<cache, disk, dir, ddir, acked, faults, deaths>>
      /\ killed' = killed \cup (daemon.holds \ records) /\ killed' \subseteq Records
  BY <1>1 DEF Save, fsVars, budget, TypeOK
<1>3. Found' = Found /\ Durable' = Durable
  BY <1>2 DEF Found, Durable
<1>4. daemon.at = "idle" /\ daemon.fd = None
  BY <1>1 DEF Save, TypeOK
<1>5. \/ daemon.readOnly /\ daemon' = [daemon EXCEPT !.holds = records]
      \/ ~ daemon.readOnly /\ daemon' = [daemon EXCEPT !.at = "creating", !.next = records]
  BY DEF Save
<1>6. TypeOK'
  BY <1>1, <1>2, <1>4, <1>5 DEF TypeOK
<1>7. /\ daemon'.at \in {"idle", "creating"} /\ daemon'.readOnly = daemon.readOnly
      /\ daemon'.at = "creating" => ~ daemon.readOnly /\ daemon'.next = records
      /\ ~ daemon.readOnly => daemon'.holds = daemon.holds /\ daemon'.at = "creating"
  BY <1>1, <1>4, <1>5 DEF TypeOK
<1>8. TempApart' /\ NamedFlushed'
  BY <1>1, <1>2, <1>7 DEF TempApart, NamedFlushed
<1>9. WriterHolds'
  BY <1>1, <1>2, <1>3, <1>4, <1>7 DEF WriterHolds, Saving
<1> QED
  BY <1>1, <1>2, <1>3, <1>6, <1>8, <1>9 DEF StoreInv, ForeignStays, LedgerIsWhole, AckedOutlivesPower

\* File::create takes no ledger's inode.
LEMMA CreateHolds == StoreInv /\ Create => StoreInv'
<1> SUFFICES ASSUME StoreInv, Create PROVE StoreInv'
  OBVIOUS
<1>1. TypeOK /\ TempApart /\ NamedFlushed /\ WriterHolds /\ ForeignStays
  BY DEF StoreInv
<1>2. PICK i \in Inodes :
         /\ IF dir["temp"] # None THEN i = dir["temp"]
            ELSE \A n \in Names : dir[n] # i /\ ddir[n] # i
         /\ disk' = IF dir["temp"] # None THEN disk ELSE [disk EXCEPT ![i] = Partial]
         /\ cache' = [cache EXCEPT ![i] = Partial]
         /\ dir' = [dir EXCEPT !["temp"] = i]
         /\ daemon' = [daemon EXCEPT !.at = "writing", !.fd = i]
  BY DEF Create
<1>3. daemon.at = "creating" /\ UNCHANGED <<ddir, acked, killed, faults, deaths>>
  BY DEF Create, budget
<1>4. i # None /\ i # dir["ledger"] /\ i # ddir["ledger"]
  BY <1>1, <1>2, StoreAssumption DEF TempApart, Names
<1>5. /\ dir'["temp"] = i /\ dir'["ledger"] = dir["ledger"]
      /\ dir' \in [Names -> Inodes \cup {None}]
  BY <1>1, <1>2 DEF TypeOK, Names
<1>6. /\ cache' \in [Inodes -> Contents] /\ disk' \in [Inodes -> Contents]
      /\ \A j \in Inodes \ {i} : cache'[j] = cache[j] /\ disk'[j] = disk[j]
  BY <1>1, <1>2, ContentsType DEF TypeOK
<1>7. /\ daemon' \in [at : {"writing"}, readOnly : BOOLEAN, holds : SUBSET Records,
                      next : SUBSET Records, fd : Inodes]
      /\ daemon'.at = "writing" /\ daemon'.fd = i /\ daemon'.readOnly = daemon.readOnly
      /\ daemon'.holds = daemon.holds /\ daemon'.next = daemon.next
  BY <1>1, <1>2 DEF TypeOK
<1>8. Found' = Found /\ Durable' = Durable
  BY <1>1, <1>3, <1>4, <1>5, <1>6 DEF Found, Durable, TypeOK, Names
<1>9. TypeOK'
  BY <1>1, <1>3, <1>4, <1>5, <1>6, <1>7, StoreAssumption DEF TypeOK
<1>10. TempApart'
  BY <1>1, <1>3, <1>4, <1>5, <1>7 DEF TempApart
<1>11. NamedFlushed'
  BY <1>1, <1>3, <1>4, <1>5, <1>6, <1>7 DEF NamedFlushed, TypeOK, Names
<1>12. WriterHolds'
  BY <1>1, <1>3, <1>7, <1>8 DEF WriterHolds, Saving
<1> QED
  BY <1>1, <1>3, <1>8, <1>9, <1>10, <1>11, <1>12
  DEF StoreInv, ForeignStays, LedgerIsWhole, AckedOutlivesPower

\* write_all writes into the temporary file.
LEMMA WriteHolds == StoreInv /\ Write => StoreInv'
<1> SUFFICES ASSUME StoreInv, Write PROVE StoreInv'
  OBVIOUS
<1>1. TypeOK /\ TempApart /\ NamedFlushed /\ WriterHolds /\ ForeignStays
  BY DEF StoreInv
<1> DEFINE i == daemon.fd
<1>2. /\ daemon.at = "writing" /\ cache' = [cache EXCEPT ![i] = Whole(daemon.next)]
      /\ UNCHANGED <<disk, dir, ddir, acked, killed, faults, deaths>>
  BY DEF Write, budget
<1>3. i \in Inodes /\ i = dir["temp"] /\ i # dir["ledger"] /\ i # ddir["ledger"] /\ i # None
  BY <1>1, <1>2, StoreAssumption DEF TypeOK, TempApart
<1>4. /\ cache' \in [Inodes -> Contents] /\ cache'[i] = Whole(daemon.next)
      /\ \A j \in Inodes \ {i} : cache'[j] = cache[j]
  BY <1>1, <1>2, <1>3, ContentsType DEF TypeOK
<1>5. /\ daemon' \in [at : {"flushing"}, readOnly : BOOLEAN, holds : SUBSET Records,
                      next : SUBSET Records, fd : Inodes]
      /\ daemon'.at = "flushing" /\ daemon'.fd = i /\ daemon'.readOnly = daemon.readOnly
      /\ daemon'.holds = daemon.holds /\ daemon'.next = daemon.next
  BY <1>1, <1>3 DEF TypeOK, Write, To
<1>6. Found' = Found /\ Durable' = Durable
  BY <1>1, <1>2, <1>3, <1>4 DEF Found, Durable, TypeOK, Names
<1>7. TypeOK'
  BY <1>1, <1>2, <1>3, <1>4, <1>5, StoreAssumption DEF TypeOK
<1>8. TempApart'
  BY <1>1, <1>2, <1>3, <1>5 DEF TempApart
<1>9. NamedFlushed'
  BY <1>1, <1>2, <1>3, <1>4, <1>5 DEF NamedFlushed, TypeOK, Names
<1>10. WriterHolds'
  BY <1>1, <1>2, <1>5, <1>6 DEF WriterHolds, Saving
<1> QED
  BY <1>1, <1>2, <1>6, <1>7, <1>8, <1>9, <1>10
  DEF StoreInv, ForeignStays, LedgerIsWhole, AckedOutlivesPower

\* sync_all puts on the disk what the cache has, before the file has a name.
LEMMA FlushHolds == StoreInv /\ Flush => StoreInv'
<1> SUFFICES ASSUME StoreInv, Flush PROVE StoreInv'
  OBVIOUS
<1>1. TypeOK /\ TempApart /\ NamedFlushed /\ WriterHolds /\ ForeignStays
  BY DEF StoreInv
<1> DEFINE i == daemon.fd
<1>2. /\ daemon.at = "flushing" /\ disk' = [disk EXCEPT ![i] = cache[i]]
      /\ UNCHANGED <<cache, dir, ddir, acked, killed, faults, deaths>>
  BY DEF Flush, budget
<1>3. i \in Inodes /\ i = dir["temp"] /\ i # dir["ledger"] /\ i # ddir["ledger"] /\ i # None
  BY <1>1, <1>2, StoreAssumption DEF TypeOK, TempApart
<1>4. /\ disk' \in [Inodes -> Contents] /\ disk'[i] = cache[i]
      /\ \A j \in Inodes \ {i} : disk'[j] = disk[j]
  BY <1>1, <1>2, <1>3 DEF TypeOK
<1>5. /\ daemon' \in [at : {"renaming"}, readOnly : BOOLEAN, holds : SUBSET Records,
                      next : SUBSET Records, fd : {None}]
      /\ daemon'.at = "renaming" /\ daemon'.readOnly = daemon.readOnly
      /\ daemon'.holds = daemon.holds /\ daemon'.next = daemon.next
  BY <1>1 DEF TypeOK, Flush
<1>6. Found' = Found /\ Durable' = Durable
  BY <1>1, <1>2, <1>3, <1>4 DEF Found, Durable, TypeOK, Names
<1>7. TypeOK'
  BY <1>1, <1>2, <1>4, <1>5 DEF TypeOK
<1>8. TempApart'
  BY <1>1, <1>2, <1>3, <1>5 DEF TempApart
<1>9. NamedFlushed'
  <2>1. cache[i] = Whole(daemon.next)
    BY <1>1, <1>2 DEF NamedFlushed
  <2> QED
    BY <2>1, <1>1, <1>2, <1>3, <1>4, <1>5 DEF NamedFlushed, TypeOK, Names
<1>10. WriterHolds'
  BY <1>1, <1>2, <1>5, <1>6 DEF WriterHolds, Saving
<1> QED
  BY <1>1, <1>2, <1>6, <1>7, <1>8, <1>9, <1>10
  DEF StoreInv, ForeignStays, LedgerIsWhole, AckedOutlivesPower

\* fs::rename gives the ledger's name to a file that is whole on the disk.
LEMMA RenameHolds == StoreInv /\ Rename => StoreInv'
<1> SUFFICES ASSUME StoreInv, Rename PROVE StoreInv'
  OBVIOUS
<1>1. TypeOK /\ TempApart /\ NamedFlushed /\ WriterHolds /\ ForeignStays
      /\ LedgerIsWhole /\ AckedOutlivesPower
  BY DEF StoreInv
<1> DEFINE i == dir["temp"]
<1>2. /\ daemon.at = "renaming" /\ daemon' = [daemon EXCEPT !.at = "syncing"]
      /\ UNCHANGED <<cache, disk, ddir, acked, killed, faults, deaths>>
  BY DEF Rename, budget, To
<1>3. i \in Inodes /\ i # None
  BY <1>1, <1>2 DEF TypeOK, TempApart, Names
<1>4. dir'["ledger"] = i /\ dir'["temp"] = None
  BY DEF Rename
<1>5. dir' \in [Names -> Inodes \cup {None}]
  BY <1>3 DEF Rename, Names
<1>6. /\ daemon' \in [at : {"syncing"}, readOnly : BOOLEAN, holds : SUBSET Records,
                      next : SUBSET Records, fd : {None}]
      /\ daemon'.at = "syncing" /\ daemon'.readOnly = daemon.readOnly
      /\ daemon'.holds = daemon.holds /\ daemon'.next = daemon.next
  BY <1>1, <1>2 DEF TypeOK
<1>7. cache[i] = Whole(daemon.next) /\ disk[i] = cache[i] /\ daemon.next \in SUBSET Records
  BY <1>1, <1>2 DEF NamedFlushed, TypeOK
<1>8. Found' = Whole(daemon.next) /\ Durable' = Durable
  BY <1>2, <1>3, <1>4, <1>7 DEF Found, Durable
<1>9. Found'.kind = "whole" /\ Found'.records = daemon.next
  BY <1>7, <1>8, ContentsType
<1>10. ~ daemon.readOnly /\ Found.kind = "whole" /\ Found.records \ killed \subseteq daemon.next
  BY <1>1, <1>2 DEF WriterHolds, Saving
<1>11. TypeOK'
  BY <1>1, <1>2, <1>5, <1>6 DEF TypeOK
<1>12. TempApart' /\ NamedFlushed'
  BY <1>1, <1>2, <1>4, <1>6, <1>7 DEF TempApart, NamedFlushed
<1>13. WriterHolds'
  BY <1>6, <1>8, <1>9, <1>10 DEF WriterHolds, Saving
<1>14. ForeignStays' /\ LedgerIsWhole'
  BY <1>1, <1>8, <1>9, <1>10 DEF ForeignStays, LedgerIsWhole, Foreign
<1>15. AckedOutlivesPower'
  BY <1>1, <1>2, <1>8, <1>9, <1>10 DEF AckedOutlivesPower
<1> QED
  BY <1>11, <1>12, <1>13, <1>14, <1>15 DEF StoreInv

\* A directory that is flushed names on the disk what it names in the cache, and
\* what it names was flushed before.
LEMMA DirFlushed ==
    ASSUME TypeOK, NamedFlushed, UNCHANGED <<cache, disk, dir>>, ddir' = dir
    PROVE  Found' = Found /\ Durable' = Found
<1>1. Found' = Found
  BY DEF Found
<1>2. dir["ledger"] # None => disk[dir["ledger"]] = cache[dir["ledger"]]
  BY DEF NamedFlushed
<1>3. Durable' = Found
  BY <1>2 DEF Found, Durable
<1> QED
  BY <1>1, <1>3

\* The directory's fsync, and the answer.
LEMMA SyncDirHolds ==
    ASSUME NEW synced \in BOOLEAN, StoreInv, SyncDir(synced)
    PROVE  StoreInv'
<1>1. TypeOK /\ TempApart /\ NamedFlushed /\ WriterHolds /\ ForeignStays
      /\ LedgerIsWhole /\ AckedOutlivesPower
  BY DEF StoreInv
<1>2. /\ daemon.at = "syncing" /\ UNCHANGED <<cache, disk, dir, killed, deaths>>
      /\ faults' \in 0 .. MaxFaults
  BY <1>1, StoreAssumption DEF SyncDir, TypeOK
<1>3. /\ daemon' \in [at : {"idle"}, readOnly : BOOLEAN, holds : SUBSET Records,
                      next : SUBSET Records, fd : {None}]
      /\ daemon'.at = "idle" /\ daemon'.readOnly = daemon.readOnly
      /\ daemon'.holds = daemon.next
  BY <1>1, <1>2 DEF TypeOK, SyncDir
<1>4. daemon.next \in SUBSET Records /\ Found = Whole(daemon.next)
  BY <1>1, <1>2 DEF WriterHolds, TypeOK
<1>5. Found.kind = "whole" /\ Found.records = daemon.next
  BY <1>4, ContentsType
<1>6. \/ ddir' = dir /\ acked' = acked \cup daemon.next
      \/ ddir' = ddir /\ acked' = acked
  BY DEF SyncDir
<1>7. Found' = Found /\ (Durable' = Found \/ (Durable' = Durable /\ acked' = acked))
  BY <1>1, <1>2, <1>6, DirFlushed DEF Found, Durable
<1>8. TypeOK'
  BY <1>1, <1>2, <1>3, <1>4, <1>6 DEF TypeOK
<1>9. TempApart' /\ NamedFlushed'
  BY <1>1, <1>2, <1>3, <1>6 DEF TempApart, NamedFlushed
<1>10. WriterHolds'
  BY <1>2, <1>3, <1>5, <1>7 DEF WriterHolds, Saving
<1>11. ForeignStays' /\ LedgerIsWhole'
  BY <1>1, <1>7 DEF ForeignStays, LedgerIsWhole
<1>12. AckedOutlivesPower'
  BY <1>1, <1>2, <1>5, <1>6, <1>7 DEF AckedOutlivesPower
<1> QED
  BY <1>8, <1>9, <1>10, <1>11, <1>12 DEF StoreInv

\* A save that fails leaves the ledger as it was.
LEMMA FailHolds == StoreInv /\ Fail => StoreInv'
<1> SUFFICES ASSUME StoreInv, Fail PROVE StoreInv'
  OBVIOUS
<1>1. TypeOK /\ TempApart /\ NamedFlushed /\ WriterHolds /\ ForeignStays
  BY DEF StoreInv
<1>2. /\ daemon.at \in Saving /\ UNCHANGED <<cache, disk, ddir, acked, killed, deaths>>
      /\ faults' \in 0 .. MaxFaults
  BY <1>1, StoreAssumption DEF Fail, TypeOK, Saving
<1>3. /\ dir'["ledger"] = dir["ledger"] /\ dir'["temp"] = None
      /\ dir' \in [Names -> Inodes \cup {None}]
  BY <1>1 DEF Fail, TypeOK, Names
<1>4. /\ daemon' \in [at : {"idle"}, readOnly : BOOLEAN, holds : SUBSET Records,
                      next : SUBSET Records, fd : {None}]
      /\ daemon'.at = "idle" /\ daemon'.readOnly = daemon.readOnly
      /\ daemon'.holds = daemon.holds \cap daemon.next
  BY <1>1 DEF TypeOK, Fail
<1>5. Found' = Found /\ Durable' = Durable
  BY <1>2, <1>3 DEF Found, Durable
<1>6. TypeOK'
  BY <1>1, <1>2, <1>3, <1>4 DEF TypeOK
<1>7. TempApart' /\ NamedFlushed'
  BY <1>1, <1>2, <1>3, <1>4 DEF TempApart, NamedFlushed
<1>8. WriterHolds'
  BY <1>1, <1>2, <1>4, <1>5 DEF WriterHolds, Saving
<1> QED
  BY <1>1, <1>2, <1>5, <1>6, <1>7, <1>8
  DEF StoreInv, ForeignStays, LedgerIsWhole, AckedOutlivesPower

\* A file's data reaches the disk in its own time.
LEMMA WriteBackHolds ==
    ASSUME NEW i \in Inodes, StoreInv, WriteBack(i)
    PROVE  StoreInv'
<1>1. TypeOK /\ TempApart /\ NamedFlushed /\ WriterHolds /\ ForeignStays
  BY DEF StoreInv
<1>2. /\ disk' = [disk EXCEPT ![i] = cache[i]] /\ disk[i] # cache[i]
      /\ UNCHANGED <<cache, dir, ddir, daemon, acked, killed, faults, deaths>>
  BY DEF WriteBack, budget
<1>3. /\ disk' \in [Inodes -> Contents] /\ disk'[i] = cache[i]
      /\ \A j \in Inodes \ {i} : disk'[j] = disk[j]
  BY <1>1, <1>2 DEF TypeOK
<1>4. i # dir["ledger"] /\ i # ddir["ledger"]
  BY <1>1, <1>2, StoreAssumption DEF NamedFlushed
<1>5. Found' = Found /\ Durable' = Durable
  BY <1>1, <1>2, <1>3, <1>4 DEF Found, Durable, TypeOK, Names
<1>6. TypeOK' /\ TempApart'
  BY <1>1, <1>2, <1>3 DEF TypeOK, TempApart
<1>7. NamedFlushed'
  BY <1>1, <1>2, <1>3 DEF NamedFlushed, TypeOK, Names, TempApart
<1>8. WriterHolds'
  BY <1>1, <1>2, <1>5 DEF WriterHolds
<1> QED
  BY <1>1, <1>2, <1>5, <1>6, <1>7, <1>8
  DEF StoreInv, ForeignStays, LedgerIsWhole, AckedOutlivesPower

\* The directory reaches the disk in its own time.
LEMMA WriteBackDirHolds == StoreInv /\ WriteBackDir => StoreInv'
<1> SUFFICES ASSUME StoreInv, WriteBackDir PROVE StoreInv'
  OBVIOUS
<1>1. TypeOK /\ TempApart /\ NamedFlushed /\ WriterHolds /\ LedgerIsWhole /\ AckedOutlivesPower
  BY DEF StoreInv
<1>2. ddir' = dir /\ UNCHANGED <<cache, disk, dir, daemon, acked, killed, faults, deaths>>
  BY DEF WriteBackDir, budget
<1>3. Found' = Found /\ Durable' = Found
  BY <1>1, <1>2, DirFlushed
<1>4. TypeOK' /\ TempApart' /\ NamedFlushed'
  BY <1>1, <1>2 DEF TypeOK, TempApart, NamedFlushed
<1>5. WriterHolds'
  BY <1>1, <1>2, <1>3 DEF WriterHolds
<1> QED
  BY <1>1, <1>2, <1>3, <1>4, <1>5 DEF StoreInv, ForeignStays, LedgerIsWhole, AckedOutlivesPower

\* The daemon dies, and the file system stays as programs see it.
LEMMA DieHolds == StoreInv /\ Die => StoreInv'
<1> SUFFICES ASSUME StoreInv, Die PROVE StoreInv'
  OBVIOUS
<1>1. TypeOK /\ TempApart /\ NamedFlushed /\ ForeignStays
  BY DEF StoreInv
<1>2. /\ UNCHANGED <<cache, disk, dir, ddir, acked, killed, faults>> /\ daemon' = Down
      /\ deaths' \in 0 .. MaxDeaths
  BY <1>1, StoreAssumption DEF Die, fsVars, TypeOK
<1>3. Found' = Found /\ Durable' = Durable
  BY <1>2 DEF Found, Durable
<1>4. TypeOK'
  BY <1>1, <1>2 DEF TypeOK, Down
<1>5. TempApart' /\ NamedFlushed' /\ WriterHolds'
  BY <1>1, <1>2 DEF TempApart, NamedFlushed, WriterHolds, Down, Saving
<1> QED
  BY <1>1, <1>2, <1>3, <1>4, <1>5 DEF StoreInv, ForeignStays, LedgerIsWhole, AckedOutlivesPower

\* The power fails, and the file system is what was on the disk.
LEMMA PowerFailureHolds == StoreInv /\ PowerFailure => StoreInv'
<1> SUFFICES ASSUME StoreInv, PowerFailure PROVE StoreInv'
  OBVIOUS
<1>1. TypeOK /\ TempApart /\ LedgerIsWhole /\ AckedOutlivesPower
  BY DEF StoreInv
<1>2. /\ UNCHANGED <<disk, ddir, acked, killed, faults>> /\ daemon' = Down
      /\ cache' = disk /\ dir' = ddir /\ deaths' \in 0 .. MaxDeaths
  BY <1>1, StoreAssumption DEF PowerFailure, TypeOK
<1>3. Found' = Durable /\ Durable' = Durable
  BY <1>2 DEF Found, Durable
<1>4. TypeOK'
  BY <1>1, <1>2 DEF TypeOK, Down
<1>5. TempApart' /\ NamedFlushed' /\ WriterHolds'
  BY <1>1, <1>2 DEF TempApart, NamedFlushed, WriterHolds, Down, Saving
<1> QED
  BY <1>1, <1>2, <1>3, <1>4, <1>5 DEF StoreInv, ForeignStays, LedgerIsWhole, AckedOutlivesPower

-----------------------------------------------------------------------------
\* write_atomic and load keep the inductive invariant at every step.
LEMMA NextHolds == StoreInv /\ [Next]_vars => StoreInv'
<1> SUFFICES ASSUME StoreInv, [Next]_vars PROVE StoreInv'
  OBVIOUS
<1>1. CASE UNCHANGED vars
  <2>1. Found' = Found /\ Durable' = Durable
    BY <1>1 DEF vars, Found, Durable
  <2> QED
    BY <1>1, <2>1 DEF vars, StoreInv, TypeOK, TempApart, NamedFlushed, WriterHolds, ForeignStays,
                      LedgerIsWhole, AckedOutlivesPower
<1>2. ASSUME NEW records \in Mutations, Save(records) PROVE StoreInv'
  <2>1. records \in SUBSET Records
    BY DEF Mutations, StoreInv, TypeOK
  <2> QED
    BY <1>2, <2>1, SaveHolds
<1>3. ASSUME NEW synced \in BOOLEAN, SyncDir(synced) PROVE StoreInv'
  BY <1>3, SyncDirHolds
<1>4. ASSUME NEW i \in Inodes, WriteBack(i) PROVE StoreInv'
  BY <1>4, WriteBackHolds
<1> QED
  BY <1>1, <1>2, <1>3, <1>4, StartHolds, CreateHolds, WriteHolds, FlushHolds, RenameHolds, FailHolds,
     DieHolds, PowerFailureHolds, WriteBackDirHolds DEF Next

\* The inductive invariant holds of every behaviour: among the rest, what has a
\* ledger's name was flushed before it got it, and a daemon that may write has
\* read a whole ledger and writes all of it that was not killed.
THEOREM StoreInvariant == Spec => []StoreInv
BY InitHolds, NextHolds, PTL DEF Spec

\* write_atomic: after any failing call, the daemon's death at any point or the
\* host's, the ledger's name leads to a file that was written to its end.
THEOREM LedgerWhole == Spec => []LedgerIsWhole
<1>1. StoreInv => LedgerIsWhole
  BY DEF StoreInv
<1> QED
  BY <1>1, StoreInvariant, PTL

\* persist: what a client was told is recorded, and nobody killed, is in the
\* ledger that the next daemon reads and in the one that outlives the power.
THEOREM AckedSurvives == Spec => []AckedOutlivesPower
<1>1. StoreInv => AckedOutlivesPower
  BY DEF StoreInv
<1> QED
  BY <1>1, StoreInvariant, PTL

\* StateStore::read_only: no step writes over a file that is not this daemon's,
\* and none drops a record from the ledger that nobody has killed.
THEOREM LedgerKept == Spec => LedgerIsKept
<1> DEFINE Kept == /\ Found.kind \in Foreign => Found' = Found
                   /\ (Found.kind = "whole" /\ deaths' = deaths) =>
                          (Found.records \ killed' \subseteq Found'.records)
<1>1. StoreInv /\ [Next]_vars => [Kept]_vars
  <2> SUFFICES ASSUME StoreInv, Next PROVE Kept
    OBVIOUS
  <2>1. TypeOK /\ TempApart /\ NamedFlushed /\ WriterHolds /\ ForeignStays
    BY DEF StoreInv
  <2>2. CASE Found' = Found
    BY <2>2
  <2>3. CASE Rename
    <3>1. daemon.at = "renaming" /\ dir["temp"] # None /\ UNCHANGED <<cache, killed>>
      BY <2>1, <2>3 DEF Rename, TempApart
    <3>2. daemon.next \in SUBSET Records /\ cache[dir["temp"]] = Whole(daemon.next)
      BY <2>1, <3>1 DEF NamedFlushed, TypeOK
    <3>3. dir'["ledger"] = dir["temp"]
      BY <2>3 DEF Rename
    <3>4. Found' = Whole(daemon.next)
      BY <3>1, <3>2, <3>3 DEF Found
    <3>5. Found'.records = daemon.next
      BY <3>2, <3>4, ContentsType
    <3>6. Found.kind = "whole" /\ Found.records \ killed \subseteq daemon.next
      BY <2>1, <3>1 DEF WriterHolds, Saving
    <3> QED
      BY <3>1, <3>5, <3>6 DEF Foreign
  <2>4. CASE PowerFailure
    <3>1. Found' = Durable
      BY <2>4 DEF PowerFailure, Found, Durable
    <3>2. deaths' # deaths
      BY <2>1, <2>4, StoreAssumption DEF PowerFailure, TypeOK
    <3> QED
      BY <2>1, <3>1, <3>2 DEF ForeignStays
  <2>5. CASE Create
    <3>1. PICK i \in Inodes :
             /\ IF dir["temp"] # None THEN i = dir["temp"]
                ELSE \A n \in Names : dir[n] # i /\ ddir[n] # i
             /\ cache' = [cache EXCEPT ![i] = Partial]
             /\ dir' = [dir EXCEPT !["temp"] = i]
      BY <2>5 DEF Create
    <3>2. i # dir["ledger"] /\ dir'["ledger"] = dir["ledger"]
      BY <2>1, <3>1 DEF TempApart, Names, TypeOK
    <3>3. Found' = Found
      BY <2>1, <3>1, <3>2 DEF Found, TypeOK, Names
    <3> QED
      BY <3>3
  <2>6. CASE Write
    <3>1. /\ dir' = dir /\ cache' = [cache EXCEPT ![daemon.fd] = Whole(daemon.next)]
          /\ daemon.fd # dir["ledger"]
      BY <2>1, <2>6 DEF Write, TempApart, TypeOK
    <3>2. Found' = Found
      BY <2>1, <3>1 DEF Found, TypeOK, Names
    <3> QED
      BY <3>2
  <2>7. CASE Fail
    <3>1. dir'["ledger"] = dir["ledger"] /\ cache' = cache
      BY <2>1, <2>7 DEF Fail, TypeOK, Names
    <3>2. Found' = Found
      BY <3>1 DEF Found
    <3> QED
      BY <3>2
  <2>8. CASE UNCHANGED <<cache, dir>>
    <3>1. Found' = Found
      BY <2>8 DEF Found
    <3> QED
      BY <3>1
  <2> QED
    BY <2>3, <2>4, <2>5, <2>6, <2>7, <2>8
    DEF Next, Start, StartUnreadable, Save, Flush, SyncDir, Die, WriteBack, WriteBackDir, fsVars
<1> QED
  BY <1>1, StoreInvariant, PTL DEF Spec, LedgerIsKept
=============================================================================
