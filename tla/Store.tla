-------------------------------- MODULE Store --------------------------------
(***************************************************************************)
(* The database file of memgov and the processes that share it: opening,   *)
(* writing by request key, backups, the upgrade to a new schema and the    *)
(* restore of a backup (internal/core/db.go, lock.go, backup.go,           *)
(* schema_migrations.go, service_upgrade.go).                              *)
(*                                                                         *)
(* A process holds the maintenance lock while it has the database open,    *)
(* shared to work with it, exclusively to upgrade or to replace it.  A     *)
(* process that still had the replaced file open would write into a file   *)
(* nobody reads any more: generation tells the two apart.                  *)
(***************************************************************************)
EXTENDS Integers, FiniteSets

CONSTANTS
  OldBinaries, NewBinaries, \* processes, by the schema they know
  Keys,                     \* request keys of writes
  RestoreKeys,              \* request keys of restores
  Removed,                  \* fingerprints of sources that may have been removed
  MaxBackups, MaxFailures

\* What the proofs and the runs take for granted of the constants.
StoreAssumption ==
  /\ OldBinaries \cap NewBinaries = {}
  /\ MaxBackups \in Nat /\ MaxFailures \in Nat

VARIABLES
  db,         \* schema, writes, results by key, restores, tombstones of the file
  generation, \* how often the file was replaced
  process,    \* what each process does, which file it has open
  backups,    \* published copies, see Copy
  answered,   \* writes somebody was told of and no restore gave up
  upgraded,   \* what had been answered before the upgrade
  replaced,   \* requests by which the file was replaced
  failures

vars == <<db, generation, process, backups, answered, upgraded, replaced, failures>>

Processes == OldBinaries \cup NewBinaries
Knows(p) == IF p \in OldBinaries THEN 1 ELSE 2

Closed == [step |-> "closed"]
Databases == [schema : {1, 2}, writes : SUBSET Keys, results : SUBSET Keys,
              restores : SUBSET RestoreKeys, tombstones : SUBSET Removed]

TypeOK ==
  /\ db \in Databases /\ backups \subseteq Databases
  /\ generation \in Nat /\ failures \in 0..MaxFailures
  /\ \A p \in Processes : process[p].step \in
       {"closed", "open", "outdated", "archive", "migrate", "restore", "swap"}
  /\ answered \subseteq Keys /\ upgraded \subseteq Keys /\ replaced \subseteq RestoreKeys
  /\ db.results \subseteq db.writes

Empty == [schema |-> 1, writes |-> {}, results |-> {}, restores |-> {}, tombstones |-> {}]

\* Tombstones were left by earlier versions; a copy from before knows none.
Init ==
  /\ \E removed \in SUBSET Removed : db = [Empty EXCEPT !.tombstones = removed]
  /\ generation = 0
  /\ process = [p \in Processes |-> Closed]
  /\ backups \in SUBSET {[Empty EXCEPT !.schema = 2]}
  /\ answered = {} /\ upgraded = {} /\ replaced = {}
  /\ failures = 0

Becomes(p, state) == process' = [process EXCEPT ![p] = state]

----------------------------------------------------------------------------
(* The maintenance lock (lock.go).                                         *)

Shared(p) == process[p].step = "open"
Exclusive(p) == process[p].step \in {"archive", "migrate", "restore", "swap"}

\* Mutant: maintenance only keeps other maintenance out.
MayMaintainAlone(p) == \A q \in Processes \ {p} : ~Exclusive(q)

MayShare == \A q \in Processes : ~Exclusive(q)
MayMaintain(p) == \A q \in Processes \ {p} : ~Shared(q) /\ ~Exclusive(q)

----------------------------------------------------------------------------
(* Working with the database.                                              *)

Open(p) ==
  /\ process[p] = Closed /\ MayShare /\ db.schema = Knows(p)
  /\ Becomes(p, [step |-> "open", file |-> generation])
  /\ UNCHANGED <<db, generation, backups, answered, upgraded, replaced, failures>>

Close(p) ==
  /\ process[p].step = "open" /\ Becomes(p, Closed)
  /\ UNCHANGED <<db, generation, backups, answered, upgraded, replaced, failures>>

Current(p) == process[p].file = generation

\* A write and its result are committed together; the answer may be lost.
Mutate(p, key) ==
  /\ process[p].step = "open"
  /\ db' = IF Current(p) /\ key \notin db.results
           THEN [db EXCEPT !.writes = @ \cup {key}, !.results = @ \cup {key}] ELSE db
  /\ \/ answered' = answered \cup {key} /\ UNCHANGED <<process, failures>>
     \/ /\ failures < MaxFailures /\ failures' = failures + 1
        /\ Becomes(p, Closed) /\ UNCHANGED answered
  /\ UNCHANGED <<generation, backups, upgraded, replaced>>

\* A copy is consistent, verified, and never replaces another.
CreateBackup(p) ==
  /\ process[p].step = "open" /\ Current(p)
  /\ Cardinality(backups) < MaxBackups
  /\ backups' = backups \cup {db}
  /\ UNCHANGED <<db, generation, process, answered, upgraded, replaced, failures>>

----------------------------------------------------------------------------
(* The upgrade of a managed service.                                       *)

PrepareServiceDatabase(p) ==
  /\ process[p] = Closed /\ MayShare /\ db.schema < Knows(p)
  /\ Becomes(p, [step |-> "outdated"])
  /\ UNCHANGED <<db, generation, backups, answered, upgraded, replaced, failures>>

\* Another process may have upgraded it meanwhile.
OpenMaintenance(p) ==
  /\ process[p].step = "outdated" /\ MayMaintain(p)
  /\ Becomes(p, IF db.schema < Knows(p) THEN [step |-> "archive"] ELSE Closed)
  /\ UNCHANGED <<db, generation, backups, answered, upgraded, replaced, failures>>

ArchiveSchema(p) ==
  /\ process[p].step = "archive"
  /\ backups' = backups \cup {db}
  /\ Becomes(p, [step |-> "migrate"])
  /\ UNCHANGED <<db, generation, answered, upgraded, replaced, failures>>

\* All migrations are one transaction.
UpgradeSchema(p) ==
  /\ process[p].step = "migrate"
  /\ db' = [db EXCEPT !.schema = Knows(p)]
  /\ upgraded' = answered
  /\ Becomes(p, Closed)
  /\ UNCHANGED <<generation, backups, answered, replaced, failures>>

----------------------------------------------------------------------------
(* The restore of a backup.                                                *)

\* The copy is verified first; a request the database knows is not repeated.
RestoreBackup(p, copy, key) ==
  /\ process[p] = Closed /\ copy.schema = Knows(p) /\ db.schema = Knows(p)
  /\ MayMaintain(p)
  /\ Becomes(p, IF key \in db.restores THEN Closed
                ELSE [step |-> "restore", copy |-> copy, key |-> key])
  /\ UNCHANGED <<db, generation, backups, answered, upgraded, replaced, failures>>

EnforceTombstones(copy) == copy.tombstones \cup db.tombstones

\* Results by key are not carried over, but for the restore itself.
StageRestore(p) ==
  /\ process[p].step = "restore"
  /\ LET staged == [process[p].copy EXCEPT
           !.results = {}, !.restores = {process[p].key},
           !.tombstones = EnforceTombstones(process[p].copy)]
     IN Becomes(p, [step |-> "swap", staged |-> staged, key |-> process[p].key])
  /\ UNCHANGED <<db, generation, backups, answered, upgraded, replaced, failures>>

SwapDatabase(p) ==
  /\ process[p].step = "swap"
  /\ db' = process[p].staged /\ generation' = generation + 1
  /\ answered' = answered \cap process[p].staged.writes
  /\ replaced' = replaced \cup {process[p].key}
  /\ Becomes(p, Closed)
  /\ UNCHANGED <<backups, upgraded, failures>>

\* The process ends; temporary files are nobody's.
Crash(p) ==
  /\ process[p] # Closed /\ failures < MaxFailures
  /\ failures' = failures + 1 /\ Becomes(p, Closed)
  /\ UNCHANGED <<db, generation, backups, answered, upgraded, replaced>>

Next == \E p \in Processes :
  \/ Open(p) \/ Close(p) \/ CreateBackup(p)
  \/ \E key \in Keys : Mutate(p, key)
  \/ PrepareServiceDatabase(p) \/ OpenMaintenance(p) \/ ArchiveSchema(p) \/ UpgradeSchema(p)
  \/ \E copy \in backups, key \in RestoreKeys : RestoreBackup(p, copy, key)
  \/ StageRestore(p) \/ SwapDatabase(p) \/ Crash(p)

Spec == Init /\ [][Next]_vars

----------------------------------------------------------------------------
(* Properties.                                                             *)

\* Whoever was told that a write was made finds it in the database, unless a
\* restore to before it was asked for: upgrades and restores lose nothing else
\* (lock.go:10).  And the copy an upgrade leaves holds everything that was
\* answered before it (service_upgrade.go:11).
AnsweredIsKept ==
  /\ answered \subseteq db.writes
  /\ (\E p \in NewBinaries : db.schema = Knows(p)) =>
       \E copy \in backups : copy.schema = 1 /\ upgraded \subseteq copy.writes

\* A restore that is sent again does not undo what was written after it
\* (cli-contract.md:116, "a replay cannot overwrite later work").
RestoredOnce == [][\A p \in Processes :
  process[p].step = "swap" /\ generation' # generation => process[p].key \notin replaced]_vars
=============================================================================
