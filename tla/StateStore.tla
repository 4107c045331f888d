----------------------------- MODULE StateStore -----------------------------
(***************************************************************************)
(* The ledger's file: crates/ade_session_daemon, state.rs (StateStore::    *)
(* load and save, write_atomic), and what SessionTable asks of it.         *)
(*                                                                         *)
(* The file system has what running programs see and what a power failure  *)
(* leaves: data and names reach the disk each in their own time.  A write  *)
(* is the system calls write_atomic makes, any of which may fail, and the  *)
(* daemon may die between two of them.  A record is one entry the ledger   *)
(* must keep until it is killed (a workspace; lost sessions it may drop).  *)
(***************************************************************************)
EXTENDS Naturals, FiniteSets

CONSTANTS
    Records,
    Inodes,
    None,
    MaxFaults,     \* system calls that fail
    MaxDeaths      \* daemon deaths and power failures

\* A file that parses, one a newer daemon wrote (which may not even parse), one
\* that is no ledger, and a file that is being written.
Foreign == {"newer", "newer unparseable", "malformed"}
Contents == [kind : {"whole", "partial"} \cup Foreign, records : SUBSET Records]
Whole(records) == [kind |-> "whole", records |-> records]
Partial == [kind |-> "partial", records |-> {}]
Names == {"ledger", "temp"}

ASSUME StoreAssumption ==
    /\ None \notin Inodes /\ IsFiniteSet(Inodes)
    /\ MaxFaults \in Nat /\ MaxDeaths \in Nat

VARIABLES
    cache, disk,   \* every inode's contents: as programs see them, on the disk
    dir, ddir,     \* the state directory: likewise
    daemon,        \* the daemon: where it stands, whether it may write,
                   \* the records it holds, the ones it is writing, and its file
    acked,         \* records a client was told are recorded, by a write that
                   \* reached the directory on the disk
    killed,        \* records a client asked to kill
    faults, deaths

vars == <<cache, disk, dir, ddir, daemon, acked, killed, faults, deaths>>
fsVars == <<cache, disk, dir, ddir>>
budget == <<faults, deaths>>

Down == [at |-> "down", readOnly |-> FALSE, holds |-> {}, next |-> {}, fd |-> None]

\* What the variables range over.
TypeOK ==
    /\ cache \in [Inodes -> Contents] /\ disk \in [Inodes -> Contents]
    /\ dir \in [Names -> Inodes \cup {None}] /\ ddir \in [Names -> Inodes \cup {None}]
    /\ daemon \in
         [at : {"down", "idle", "creating", "writing", "flushing", "renaming", "syncing"},
          readOnly : BOOLEAN, holds : SUBSET Records, next : SUBSET Records, fd : Inodes \cup {None}]
    /\ daemon.fd # None <=> daemon.at \in {"writing", "flushing"}
    /\ acked \subseteq Records /\ killed \subseteq Records
    /\ faults \in 0 .. MaxFaults /\ deaths \in 0 .. MaxDeaths

\* A directory without a ledger, or with one an earlier daemon left.
Init ==
    /\ \E i \in Inodes, kind \in {"none", "whole"} \cup Foreign :
         /\ cache = [j \in Inodes |-> IF j = i /\ kind # "none"
                                     THEN [kind |-> kind, records |-> {}] ELSE Partial]
         /\ dir = [n \in Names |-> IF n = "ledger" /\ kind # "none" THEN i ELSE None]
    /\ disk = cache /\ ddir = dir
    /\ daemon = Down
    /\ acked = {} /\ killed = {}
    /\ faults = 0 /\ deaths = 0

-----------------------------------------------------------------------------
\* What reading the ledger's name finds; no file is an empty ledger.
Found == IF dir["ledger"] = None THEN Whole({}) ELSE cache[dir["ledger"]]
Durable == IF ddir["ledger"] = None THEN Whole({}) ELSE disk[ddir["ledger"]]

\* StateStore::load.  A newer file is read as far as it parses, which is to say
\* that this daemon may show something of it; either way it may not write.
Start ==
    /\ daemon.at = "down"
    /\ daemon' = [Down EXCEPT
                    !.at = "idle",
                    !.holds = Found.records,
                    !.readOnly = Found.kind # "whole"]
    /\ UNCHANGED <<acked, killed>> /\ UNCHANGED fsVars /\ UNCHANGED budget

\* Mutant: a file that cannot be read is taken for an empty ledger.
StartEmpty ==
    /\ daemon.at = "down" /\ dir["ledger"] # None
    /\ faults < MaxFaults /\ faults' = faults + 1
    /\ daemon' = [Down EXCEPT !.at = "idle"]
    /\ UNCHANGED <<acked, killed, deaths>> /\ UNCHANGED fsVars

\* fs::read fails for a reason of its own: the file may be a good one.
StartUnreadable ==
    /\ daemon.at = "down" /\ dir["ledger"] # None
    /\ faults < MaxFaults /\ faults' = faults + 1
    /\ daemon' = [Down EXCEPT !.at = "idle", !.readOnly = TRUE]
    /\ UNCHANGED <<acked, killed, deaths>> /\ UNCHANGED fsVars

\* A mutation of the table, on its way into StateStore::save: a record created
\* or killed.  A read-only store takes it without a word, and acks it as not
\* recorded.
Save(records) ==
    /\ daemon.at = "idle" /\ records # daemon.holds
    /\ killed' = killed \cup (daemon.holds \ records)
    /\ daemon' = IF daemon.readOnly THEN [daemon EXCEPT !.holds = records]
                 ELSE [daemon EXCEPT !.at = "creating", !.next = records]
    /\ UNCHANGED acked /\ UNCHANGED fsVars /\ UNCHANGED budget

\* Records are named once: what was killed or acked is not created again.
Mutations ==
    {daemon.holds \cup {r} : r \in Records \ (killed \cup acked)}
        \cup {daemon.holds \ {r} : r \in daemon.holds}

-----------------------------------------------------------------------------
(* write_atomic, one system call at a time.                                 *)

To(at) == [daemon EXCEPT !.at = at]

\* File::create: truncates the temporary file that is there, or makes one.
Create ==
    /\ daemon.at = "creating"
    /\ \E i \in Inodes :
         /\ IF dir["temp"] # None THEN i = dir["temp"]
            ELSE \A n \in Names : dir[n] # i /\ ddir[n] # i
         /\ disk' = IF dir["temp"] # None THEN disk ELSE [disk EXCEPT ![i] = Partial]
         /\ cache' = [cache EXCEPT ![i] = Partial]
         /\ dir' = [dir EXCEPT !["temp"] = i]
         /\ daemon' = [daemon EXCEPT !.at = "writing", !.fd = i]
    /\ UNCHANGED <<ddir, acked, killed>> /\ UNCHANGED budget

\* write_all.
Write ==
    /\ daemon.at = "writing"
    /\ cache' = [cache EXCEPT ![daemon.fd] = Whole(daemon.next)]
    /\ daemon' = To("flushing")
    /\ UNCHANGED <<disk, dir, ddir, acked, killed>> /\ UNCHANGED budget

\* Mutant: the data is left to reach the disk when it may.
FlushLater ==
    /\ daemon.at = "flushing"
    /\ daemon' = [daemon EXCEPT !.at = "renaming", !.fd = None]
    /\ UNCHANGED <<acked, killed>> /\ UNCHANGED fsVars /\ UNCHANGED budget

\* sync_all, and the file is closed.
Flush ==
    /\ daemon.at = "flushing"
    /\ disk' = [disk EXCEPT ![daemon.fd] = cache[daemon.fd]]
    /\ daemon' = [daemon EXCEPT !.at = "renaming", !.fd = None]
    /\ UNCHANGED <<cache, dir, ddir, acked, killed>> /\ UNCHANGED budget

\* fs::rename.
Rename ==
    /\ daemon.at = "renaming"
    /\ dir' = [ledger |-> dir["temp"], temp |-> None]
    /\ daemon' = To("syncing")
    /\ UNCHANGED <<cache, disk, ddir, acked, killed>> /\ UNCHANGED budget

\* Mutant: the directory is never flushed.
SyncDirLater(synced) ==
    /\ daemon.at = "syncing" /\ synced
    /\ daemon' = [daemon EXCEPT !.at = "idle", !.holds = daemon.next]
    /\ acked' = acked \cup daemon.next
    /\ UNCHANGED killed /\ UNCHANGED fsVars /\ UNCHANGED budget

\* The directory's fsync, best effort: a save is answered as recorded even where
\* the file system refuses it, and only the rename's durability is at stake.
SyncDir(synced) ==
    /\ daemon.at = "syncing"
    /\ synced \/ faults < MaxFaults
    /\ faults' = IF synced THEN faults ELSE faults + 1
    /\ ddir' = IF synced THEN dir ELSE ddir
    /\ daemon' = [daemon EXCEPT !.at = "idle", !.holds = daemon.next]
    /\ acked' = IF synced THEN acked \cup daemon.next ELSE acked
    /\ UNCHANGED <<cache, disk, dir, killed, deaths>>

\* A call fails: the temporary file is removed and the save with it.  What was
\* killed stays killed; what was created is taken back.
Fail ==
    /\ daemon.at \in {"creating", "writing", "flushing", "renaming"}
    /\ faults < MaxFaults /\ faults' = faults + 1
    /\ dir' = [dir EXCEPT !["temp"] = None]
    /\ daemon' = [daemon EXCEPT !.at = "idle", !.fd = None,
                                !.holds = @ \cap daemon.next]
    /\ UNCHANGED <<cache, disk, ddir, acked, killed, deaths>>

-----------------------------------------------------------------------------
(* The file system and the host, in their own time.                         *)

WriteBack(i) ==
    /\ disk[i] # cache[i]
    /\ disk' = [disk EXCEPT ![i] = cache[i]]
    /\ UNCHANGED <<cache, dir, ddir, daemon, acked, killed>> /\ UNCHANGED budget

WriteBackDir ==
    /\ ddir # dir
    /\ ddir' = dir
    /\ UNCHANGED <<cache, disk, dir, daemon, acked, killed>> /\ UNCHANGED budget

Die ==
    /\ daemon.at # "down" /\ deaths < MaxDeaths
    /\ deaths' = deaths + 1
    /\ daemon' = Down
    /\ UNCHANGED <<acked, killed, faults>> /\ UNCHANGED fsVars

PowerFailure ==
    /\ deaths < MaxDeaths
    /\ deaths' = deaths + 1
    /\ cache' = disk /\ dir' = ddir
    /\ daemon' = Down
    /\ UNCHANGED <<disk, ddir, acked, killed, faults>>

Next ==
    \/ Start \/ StartUnreadable
    \/ \E records \in Mutations : Save(records)
    \/ Create \/ Write \/ Flush \/ Rename \/ Fail
    \/ \E synced \in BOOLEAN : SyncDir(synced)
    \/ Die \/ PowerFailure
    \/ \E i \in Inodes : WriteBack(i)
    \/ WriteBackDir

Spec == Init /\ [][Next]_vars

-----------------------------------------------------------------------------
(* Properties.                                                              *)

\* write_atomic: "a crash at any point leaves either the whole old file or the
\* whole new one".  The ledger a restart would find is never half written, after
\* the daemon's death or the host's.
LedgerIsWhole == Found.kind # "partial" /\ Durable.kind # "partial"

\* Persist-before-ack, down to the platter: what a client was told is recorded,
\* and nobody killed, is in the ledger that outlives a power failure, and in the
\* one the next daemon reads, where the file system can flush a directory.
AckedOutlivesPower == acked \ killed \subseteq Found.records \cap Durable.records

\* StateStore::read_only: "treated as empty" never becomes "made empty".  A file
\* this daemon could not parse or that a newer one owns is never written over,
\* and a record leaves the ledger only when somebody has killed it, read errors
\* included (a power failure may also undo a write that nobody was told of).
LedgerIsKept ==
    [][/\ Found.kind \in Foreign => Found' = Found
       /\ (Found.kind = "whole" /\ deaths' = deaths) =>
              (Found.records \ killed' \subseteq Found'.records)]_vars

-----------------------------------------------------------------------------
(* The inductive invariant behind these properties.                         *)

Saving == {"creating", "writing", "flushing", "renaming"}

\* The temporary file is no ledger's, neither in the cache nor on the disk, and
\* the open file is the temporary one.
TempApart ==
    /\ dir["temp"] # None => dir["temp"] \notin {dir["ledger"], ddir["ledger"]}
    /\ ddir["temp"] # None => ddir["temp"] # ddir["ledger"]
    /\ daemon.at \in {"writing", "flushing"} => daemon.fd = dir["temp"]
    /\ daemon.at = "renaming" => dir["temp"] # None

\* What a ledger's name leads to was flushed before it got the name.
NamedFlushed ==
    /\ \A i \in {dir["ledger"], ddir["ledger"]} \ {None} : cache[i] = disk[i]
    /\ daemon.at = "flushing" => cache[daemon.fd] = Whole(daemon.next)
    /\ daemon.at = "renaming" => LET i == dir["temp"] IN
                                 cache[i] = Whole(daemon.next) /\ disk[i] = cache[i]

\* A daemon that may write has read a whole ledger, and holds and saves what is
\* in it but for what was killed.
WriterHolds ==
    /\ daemon.at \in Saving \cup {"syncing"} => ~ daemon.readOnly
    /\ daemon.at # "down" /\ ~ daemon.readOnly =>
          Found.kind = "whole" /\ (Found.records \ killed \subseteq daemon.holds \/ daemon.at = "syncing")
    /\ daemon.at \in Saving => Found.records \ killed \subseteq daemon.next
    /\ daemon.at = "syncing" => Found = Whole(daemon.next)

\* Nothing else ever has the name of a ledger that is not this daemon's.
ForeignStays == Found.kind \in Foreign \/ Durable.kind \in Foreign => Found = Durable

StoreInv ==
    /\ TypeOK /\ TempApart /\ NamedFlushed /\ WriterHolds /\ ForeignStays
    /\ LedgerIsWhole /\ AckedOutlivesPower
=============================================================================
