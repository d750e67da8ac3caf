---------------------------- MODULE SeshatOpening ---------------------------
(***************************************************************************)
(* Opening a database: the passphrase of events.db, the migrations of      *)
(* older versions, the key file and the index; changing the passphrase;    *)
(* and the RecoveryDatabase, which opens the same files and rebuilds the   *)
(* index.  A step ends where something is on disk; the process can die or  *)
(* a call fail after every one of them.                                    *)
(***************************************************************************)
EXTENDS Integers

CONSTANTS
    Passphrases,  \* passphrases that the client may use
    Plain,        \* no passphrase; also the empty one, which nothing accepts
    Unset,        \* the passphrase of an events.db that has no page yet
    Keys,         \* random store keys
    MaxTrouble,   \* bound of the model: times the process dies or a call fails
    MaxChanges    \* bound of the model: calls of change_passphrase

ASSUME PlainAssumption == Plain \notin Passphrases
ASSUME UnsetAssumption == Unset \notin Passphrases \cup {Plain}
ASSUME KeysAssumption == Plain \notin Keys
ASSUME TroubleAssumption == MaxTrouble \in Nat
ASSUME ChangesAssumption == MaxChanges \in Nat

VARIABLES
    \* events.db
    sqlPass,       \* the passphrase that unlocks it
    version,       \* the row of the table version, 0 when there is none
    reindexNeeded, \* the row of the table reindex_needed
    profiles,      \* the name of the profile table, or "none"
    hasEvents,     \* whether the table events has rows
    \* the directory of the index
    keyFile,       \* seshat-index.key
    index,         \* meta.json and the files it names
    \* the process
    pc,            \* the next step
    mode,          \* what is opened: "database" or "recovery"
    pass,          \* the passphrase of its Config
    needed,        \* get_version's local reindex_needed
    storeKey,      \* the store key in memory
    newPass,       \* the argument of change_passphrase
    answer,        \* how the last call ended
    troubles,
    changes,
    \* history, read by properties and by the client's fairness only
    known,         \* the passphrases that a careful client remembers
    damaged,       \* the key file or the index was left half way
    unasked        \* an unfinished reindex that reindex_needed did not ask for

tables == <<version, reindexNeeded, profiles, hasEvents>>
disk == <<sqlPass, tables, keyFile, index>>
config == <<mode, pass, newPass>>
bounds == <<troubles, changes>>
history == <<known, damaged, unasked>>
vars == <<disk, pc, config, needed, storeKey, answer, bounds, history>>

-----------------------------------------------------------------------------
\* DATABASE_VERSION
DatabaseVersion == 4

Config == Passphrases \cup {Plain}

(* The key file.  What File::create has truncated and encrypt_store_key not  *)
(* finished cannot be read: it is too short, or its MAC does not match.      *)
NoKeyFile == [state |-> "absent"]
TornKeyFile == [state |-> "torn"]
KeyFile(p, k) == [state |-> "whole", pass |-> p, key |-> k]
KeyFiles == {NoKeyFile, TornKeyFile} \cup {KeyFile(p, k) : p \in Passphrases, k \in Keys}

(* An index: the store key its files are encrypted with (Plain for none),    *)
(* whether the schema is the one of this version, and whether it has what    *)
(* the events table and uncommitted_events say it has.                       *)
NoIndex == [state |-> "absent"]
IndexFiles(k, schema, complete) ==
    [state |-> "whole", key |-> k, current |-> schema, full |-> complete]
Indexes == {NoIndex}
    \cup {IndexFiles(k, s, c) : k \in Keys \cup {Plain}, s \in BOOLEAN, c \in BOOLEAN}

Steps == {"closed", "version", "migrate", "renamed", "keyFile", "writeKey", "index", "open",
          "truncate", "rewriteKey", "rekey", "recovering", "deleting", "reindexing",
          "clearFlag"}

\* A call ends, and with it the database it was opening or consumed.
EndWith(how) ==
    /\ pc' = "closed"
    /\ answer' = how

-----------------------------------------------------------------------------
(* Opening: Database::new_with_config and RecoveryDatabase::new_with_config. *)

\* unlock, and the pragmas that are the first to touch the file: an empty one
\* takes the passphrase it is opened with.
Unlock(what, p) ==
    /\ pc = "closed"
    /\ mode' = what
    /\ pass' = p
    /\ IF sqlPass \in {p, Unset}
       THEN /\ sqlPass' = p
            /\ pc' = "version"
            /\ answer' = "none"
       ELSE /\ EndWith("locked")
            /\ UNCHANGED sqlPass
    /\ UNCHANGED <<tables, keyFile, index, needed, storeKey, newPass, bounds, history>>

OpenDatabase(p) == Unlock("database", p)
OpenRecovery(p) == Unlock("recovery", p)

\* Mutant: only the migrations of this call ask for a reindex.
FlagNotRead == FALSE

\* SELECT reindex_needed
StoredFlag == reindexNeeded

\* get_version up to the migrations: statements that commit one by one, but
\* each does nothing when it finds its table or row.
ReadVersion ==
    /\ pc = "version"
    /\ version' = IF version = 0 THEN DatabaseVersion ELSE version
    /\ needed' = StoredFlag
    /\ pc' = "migrate"
    /\ UNCHANGED <<sqlPass, reindexNeeded, profiles, hasEvents, keyFile, index, config,
                   storeKey, answer, bounds, history>>

\* ALTER TABLE profiles RENAME TO profile
RenameProfiles ==
    /\ pc = "migrate"
    /\ version = 1
    /\ profiles = "profiles"
    /\ profiles' = "profile"
    /\ pc' = "renamed"
    /\ UNCHANGED <<sqlPass, version, reindexNeeded, hasEvents, keyFile, index, config, needed,
                   storeKey, answer, bounds, history>>

\* There is no table profiles (any more): DatabaseOpenError.
RenameFails ==
    /\ pc = "migrate"
    /\ version = 1
    /\ profiles # "profiles"
    /\ EndWith("open failed")
    /\ UNCHANGED <<disk, config, needed, storeKey, bounds, history>>

\* UPDATE version SET version = '2', a statement of its own
SetVersion2 ==
    /\ pc = "renamed"
    /\ version' = 2
    /\ pc' = "migrate"
    /\ UNCHANGED <<sqlPass, reindexNeeded, profiles, hasEvents, keyFile, index, config, needed,
                   storeKey, answer, bounds, history>>

\* Mutant: what is not too old is migrated as well.
AllVersions == 2 .. DatabaseVersion + 1

\* The versions whose migration asks for a new index.
OldIndexVersions == {2, 3}

\* Their migrations: the flag and the version in one transaction each.
MarkForReindex ==
    /\ pc = "migrate"
    /\ version \in OldIndexVersions
    /\ reindexNeeded' = TRUE
    /\ version' = version + 1
    /\ needed' = TRUE
    /\ UNCHANGED <<sqlPass, profiles, hasEvents, keyFile, index, pc, config, storeKey, answer,
                   bounds, history>>

\* create_tables, then the checks of the version and the flag.
CreateTables ==
    /\ pc = "migrate"
    /\ version >= DatabaseVersion
    /\ profiles' = "profile"
    /\ \/ /\ version # DatabaseVersion
          /\ EndWith("version")
       \/ /\ version = DatabaseVersion
          /\ mode = "database"
          /\ needed
          /\ EndWith("reindex")
       \/ /\ version = DatabaseVersion
          /\ mode = "database"
          /\ ~needed
          /\ pc' = "keyFile"
          /\ UNCHANGED answer
       \/ /\ version = DatabaseVersion
          /\ mode = "recovery"
          /\ pc' = "recovering"
          /\ UNCHANGED answer
    /\ UNCHANGED <<sqlPass, version, reindexNeeded, hasEvents, keyFile, index, config, needed,
                   storeKey, bounds, history>>

-----------------------------------------------------------------------------
(* Index::new, for both of them: open_index, EncryptedMmapDirectory and      *)
(* tantivy's open_or_create.                                                 *)

\* Mutant: the MAC is not verified.
ReadableByAll(p) == keyFile.state = "whole"

\* What load_store_key accepts: the version, the length and the MAC are right.
Readable(p) ==
    /\ keyFile.state = "whole"
    /\ keyFile.pass = p

\* No passphrase: the index is not encrypted, the key file is not looked at.
OpenPlainDirectory ==
    /\ pc = "keyFile"
    /\ pass = Plain
    /\ storeKey' = Plain
    /\ pc' = "index"
    /\ UNCHANGED <<disk, config, needed, answer, bounds, history>>

LoadStoreKey ==
    /\ pc = "keyFile"
    /\ pass # Plain
    /\ keyFile.state # "absent"
    /\ IF Readable(pass)
       THEN /\ storeKey' = keyFile.key
            /\ pc' = "index"
            /\ UNCHANGED answer
       ELSE /\ EndWith("index")
            /\ UNCHANGED storeKey
    /\ UNCHANGED <<disk, config, needed, bounds, history>>

\* create_new_store: a random key, and File::create.
CreateNewStore ==
    /\ pc = "keyFile"
    /\ pass # Plain
    /\ keyFile.state = "absent"
    /\ \E k \in Keys :
          /\ index.state = "whole" => k # index.key
          /\ storeKey' = k
    /\ keyFile' = TornKeyFile
    /\ pc' = "writeKey"
    /\ UNCHANGED <<sqlPass, tables, index, config, needed, answer, bounds, history>>

\* The writes of encrypt_store_key; the MAC and the key come last.
WriteStoreKey ==
    /\ pc = "writeKey"
    /\ keyFile' = KeyFile(pass, storeKey)
    /\ pc' = "index"
    /\ UNCHANGED <<sqlPass, tables, index, config, needed, storeKey, answer, bounds, history>>

\* Index::open_or_create of tantivy: a new index when there is no meta.json,
\* an error when it was written with another key.
OpenIndex ==
    /\ pc = "index"
    /\ \/ /\ index.state = "absent"
          /\ index' = IndexFiles(storeKey, TRUE, ~hasEvents)
       \/ /\ index.state = "whole"
          /\ index.key = storeKey
          /\ UNCHANGED index
    /\ pc' = IF mode = "database" THEN "open" ELSE "reindexing"
    /\ answer' = "ok"
    /\ known' = {pass}
    /\ UNCHANGED <<sqlPass, tables, keyFile, config, needed, storeKey, bounds, damaged, unasked>>

IndexUnreadable ==
    /\ pc = "index"
    /\ index.state = "whole"
    /\ index.key # storeKey
    /\ EndWith("index")
    /\ UNCHANGED <<disk, config, needed, storeKey, bounds, history>>

-----------------------------------------------------------------------------
(* The open database.                                                        *)

\* The first events are stored.
StoreEvents ==
    /\ pc = "open"
    /\ ~hasEvents
    /\ hasEvents' = TRUE
    /\ UNCHANGED <<sqlPass, version, reindexNeeded, profiles, keyFile, index, pc, config,
                   needed, storeKey, answer, bounds, history>>

CloseDatabase ==
    /\ pc = "open"
    /\ EndWith("none")
    /\ UNCHANGED <<disk, config, needed, storeKey, bounds, history>>

\* Database::change_passphrase up to the key file: it panics without a
\* passphrase, the index refuses an empty one, and the store key is loaded with
\* the old one.
ChangePassphrase(q) ==
    /\ pc = "open"
    /\ changes < MaxChanges
    /\ changes' = changes + 1
    /\ newPass' = q
    /\ IF pass = Plain
       THEN EndWith("panic") /\ UNCHANGED <<storeKey, known>>
       ELSE IF q = Plain \/ ~Readable(pass)
       THEN EndWith("index") /\ UNCHANGED <<storeKey, known>>
       ELSE /\ storeKey' = keyFile.key
            /\ pc' = "truncate"
            /\ known' = known \cup {q}
            /\ UNCHANGED answer
    /\ UNCHANGED <<disk, mode, pass, needed, troubles, damaged, unasked>>

\* encrypt_store_key: File::create ...
TruncateKeyFile ==
    /\ pc = "truncate"
    /\ keyFile' = TornKeyFile
    /\ pc' = "rewriteKey"
    /\ UNCHANGED <<sqlPass, tables, index, config, needed, storeKey, answer, bounds, history>>

\* Mutant: the old passphrase again.
SameKeyFile == KeyFile(pass, storeKey)

NewKeyFile == KeyFile(newPass, storeKey)

\* ... and the writes.
RewriteKey ==
    /\ pc = "rewriteKey"
    /\ keyFile' = NewKeyFile
    /\ pc' = "rekey"
    /\ UNCHANGED <<sqlPass, tables, index, config, needed, storeKey, answer, bounds, history>>

\* Mutant: events.db keeps its passphrase.
NotRekeyed == sqlPass

\* PRAGMA rekey, one transaction of SQLite.
Rekeyed == newPass

\* The rest of change_passphrase: rekey and shutdown.
Rekey ==
    /\ pc = "rekey"
    /\ sqlPass' = Rekeyed
    /\ EndWith("changed")
    /\ known' = {newPass}
    /\ UNCHANGED <<tables, keyFile, index, config, needed, storeKey, bounds, damaged, unasked>>

-----------------------------------------------------------------------------
(* The open RecoveryDatabase, as n_reindex of the bindings drives it.        *)

CloseRecovery ==
    /\ pc = "recovering"
    /\ EndWith("none")
    /\ UNCHANGED <<disk, config, needed, storeKey, bounds, history>>

\* Mutant: the key file is taken for a file of the database.
OnlyIndexFiles == {"index"}

\* The files that delete_the_index removes: all but events.db*.
DeletedFiles == {"keyFile", "index"}

Present(f) == IF f = "keyFile" THEN keyFile.state # "absent" ELSE index.state # "absent"

\* delete_the_index removes one file after the other, in the order of read_dir.
DeleteFile(f) ==
    /\ pc \in {"recovering", "deleting"}
    /\ f \in DeletedFiles
    /\ Present(f)
    /\ keyFile' = IF f = "keyFile" THEN NoKeyFile ELSE keyFile
    /\ index' = IF f = "index" THEN NoIndex ELSE index
    /\ unasked' = (unasked \/ ~reindexNeeded)
    /\ pc' = "deleting"
    /\ UNCHANGED <<sqlPass, tables, config, needed, storeKey, answer, bounds, known, damaged>>

\* Nothing is left: on to open_index.
IndexDeleted ==
    /\ pc \in {"recovering", "deleting"}
    /\ \A f \in DeletedFiles : ~Present(f)
    /\ unasked' = (unasked \/ ~reindexNeeded)
    /\ pc' = "keyFile"
    /\ UNCHANGED <<disk, config, needed, storeKey, answer, bounds, known, damaged>>

\* The reindex loop and the forced commit of commit_and_close (SeshatRecovery
\* has them event by event).
CommitReindex ==
    /\ pc = "reindexing"
    /\ index' = [index EXCEPT !.full = TRUE]
    /\ pc' = "clearFlag"
    /\ UNCHANGED <<sqlPass, tables, keyFile, config, needed, storeKey, answer, bounds, history>>

\* UPDATE reindex_needed, the end of commit_and_close
ClearFlag ==
    /\ pc = "clearFlag"
    /\ reindexNeeded' = FALSE
    /\ EndWith("reindexed")
    /\ unasked' = FALSE
    /\ damaged' = FALSE
    /\ UNCHANGED <<sqlPass, version, profiles, hasEvents, keyFile, index, config, needed,
                   storeKey, bounds, known>>

-----------------------------------------------------------------------------
(* The process dies, or a call fails and its error ends what was open.       *)

\* The steps after which the key file or the index is left half way, or under
\* another passphrase than events.db.
HalfWay == {"writeKey", "rewriteKey", "rekey", "deleting"}

Trouble ==
    /\ pc # "closed"
    /\ troubles < MaxTrouble
    /\ troubles' = troubles + 1
    /\ EndWith("none")
    /\ damaged' = (damaged \/ pc \in HalfWay)
    /\ UNCHANGED <<disk, config, needed, storeKey, changes, known, unasked>>

-----------------------------------------------------------------------------
(* A new directory, or the closed database of any version.                   *)

Init ==
    /\ pc = "closed"
    /\ mode = "database"
    /\ pass = Plain
    /\ newPass = Plain
    /\ needed = FALSE
    /\ storeKey = Plain
    /\ answer = "none"
    /\ troubles = 0
    /\ changes = 0
    /\ damaged = FALSE
    /\ unasked = FALSE
    /\ \/ /\ sqlPass = Unset
          /\ version = 0
          /\ reindexNeeded = FALSE
          /\ profiles = "none"
          /\ hasEvents = FALSE
          /\ keyFile = NoKeyFile
          /\ index = NoIndex
          /\ known = Config
       \/ /\ version \in 1 .. DatabaseVersion + 1
          /\ reindexNeeded \in (IF version < 3 THEN {FALSE} ELSE BOOLEAN)
          /\ profiles = (IF version = 1 THEN "profiles" ELSE "profile")
          /\ hasEvents \in BOOLEAN
          /\ \/ /\ sqlPass = Plain
                /\ keyFile = NoKeyFile
                /\ index = IndexFiles(Plain, version >= DatabaseVersion /\ ~reindexNeeded, TRUE)
             \/ \E p \in Passphrases, k \in Keys :
                   /\ sqlPass = p
                   /\ keyFile = KeyFile(p, k)
                   /\ index = IndexFiles(k, version >= DatabaseVersion /\ ~reindexNeeded, TRUE)
          /\ known = {sqlPass}

Opening ==
    \/ ReadVersion \/ RenameProfiles \/ RenameFails \/ SetVersion2 \/ MarkForReindex
    \/ CreateTables \/ OpenPlainDirectory \/ LoadStoreKey \/ CreateNewStore \/ WriteStoreKey
    \/ OpenIndex \/ IndexUnreadable

Changing == TruncateKeyFile \/ RewriteKey \/ Rekey

Deleting == (\E f \in DeletedFiles : DeleteFile(f)) \/ IndexDeleted

Reindexing == CommitReindex \/ ClearFlag

Next ==
    \/ \E p \in Config : OpenDatabase(p) \/ OpenRecovery(p) \/ ChangePassphrase(p)
    \/ Opening
    \/ StoreEvents
    \/ CloseDatabase
    \/ Changing
    \/ CloseRecovery
    \/ Deleting
    \/ Reindexing
    \/ Trouble

Spec == Init /\ [][Next]_vars

(* Calls run to their end, and the client keeps trying: every passphrase it  *)
(* remembers, and a reindex whenever an error asks for one (ReindexError) or *)
(* says that the index cannot be read.                                       *)
LiveSpec ==
    /\ Spec
    /\ WF_vars(Opening \/ Changing \/ Reindexing)
    /\ SF_vars(Deleting)
    /\ \A p \in Config :
          /\ SF_vars(p \in known /\ OpenDatabase(p))
          /\ SF_vars(answer \in {"reindex", "index"} /\ OpenRecovery(p))

-----------------------------------------------------------------------------
(* Properties.                                                               *)

TypeOK ==
    /\ sqlPass \in Config \cup {Unset}
    /\ version \in 0 .. DatabaseVersion + 1
    /\ reindexNeeded \in BOOLEAN
    /\ profiles \in {"none", "profiles", "profile"}
    /\ hasEvents \in BOOLEAN
    /\ keyFile \in KeyFiles
    /\ index \in Indexes
    /\ pc \in Steps
    /\ mode \in {"database", "recovery"}
    /\ pass \in Config
    /\ needed \in BOOLEAN
    /\ storeKey \in Keys \cup {Plain}
    /\ newPass \in Config
    /\ troubles \in 0 .. MaxTrouble
    /\ changes \in 0 .. MaxChanges
    /\ known \subseteq Config
    /\ damaged \in BOOLEAN
    /\ unasked \in BOOLEAN

\* An open database reads its index with the key of the index's own files, and
\* would be opened again with the same passphrase, key file and events.db alike.
OpenIndexReadable ==
    pc = "open" =>
        /\ index.state = "whole"
        /\ index.key = storeKey
        /\ sqlPass = pass
        /\ pass # Plain => keyFile = KeyFile(pass, storeKey)

\* A database of an older version opens only with an index that was built by
\* this version since, and completely, wherever the process died in between:
\* but for an unfinished reindex that reindex_needed had not asked for.
MigratedIndexComplete ==
    pc = "open" =>
        /\ index.current
        /\ index.full \/ unasked

\* Unless something was cut short while it wrote the key file, changed the
\* passphrase or deleted the index, one passphrase opens events.db and the key
\* file, and the key in it reads the index.
OnePassphrase ==
    pc = "closed" /\ ~damaged /\ sqlPass # Plain =>
        /\ keyFile.state # "torn"
        /\ keyFile.state = "whole" => keyFile.pass = sqlPass
        /\ keyFile.state = "whole" /\ index.state = "whole" => index.key = keyFile.key

\* A client that remembers the passphrase of its last successful call, and both
\* while a change of it has not succeeded, can always unlock events.db.
EventsUnlockable == sqlPass \in known \cup {Unset}

\* The migration of version 1 was cut short between its two statements: the
\* next one renames a table that is gone.
Stuck ==
    /\ version = 1
    /\ profiles # "profiles"

\* A client that keeps trying gets its database opened, whatever was cut short
\* before: torn key files, two passphrases, half deleted indexes, migrations;
\* but for the migration of version 1 and for a version this code is too old for.
OpensAgain ==
    (pc = "closed") ~> (pc = "open" \/ Stuck \/ version > DatabaseVersion)

-----------------------------------------------------------------------------
(* The inductive invariant behind them.                                    *)

\* Whatever is open was unlocked, and an empty directory has nothing else.
Unlocked ==
    /\ pc # "closed" => sqlPass = pass
    /\ sqlPass = Unset => known = Config /\ keyFile = NoKeyFile /\ index = NoIndex

\* The steps of a change of the passphrase have two of them and a store key.
ChangeSound ==
    pc \in {"truncate", "rewriteKey", "rekey"} =>
        /\ pass # Plain /\ newPass # Plain
        /\ {pass, newPass} \subseteq known

\* The store key in memory is the one of the key file and of the index's files.
KeyInHand ==
    /\ pc = "writeKey" => pass # Plain
    /\ pc \in {"writeKey", "rewriteKey"} => keyFile.state = "torn"
    /\ pc \in {"writeKey", "index", "open", "truncate", "rewriteKey", "rekey", "reindexing",
               "clearFlag"}
       => (pass = Plain <=> storeKey = Plain)
    /\ pc \in {"index", "open", "reindexing", "clearFlag"} /\ pass # Plain
       => keyFile = KeyFile(pass, storeKey)
    /\ pc \in {"open", "truncate", "rewriteKey", "rekey", "reindexing", "clearFlag"}
       => index.state = "whole" /\ index.key = storeKey

\* What is read of reindex_needed, and when the index is opened.
FlagSound ==
    /\ pc \in {"migrate", "renamed"} => needed = reindexNeeded
    /\ version = 0 => pc \in {"closed", "version"} /\ index = NoIndex /\ ~hasEvents
    /\ pc \in {"keyFile", "writeKey", "index"} /\ mode = "recovery" => index = NoIndex
    /\ pc \in {"keyFile", "writeKey", "index"} /\ mode = "database"
       => version = DatabaseVersion /\ ~reindexNeeded
    /\ pc = "open" => version = DatabaseVersion /\ ~reindexNeeded
    /\ pc \in {"recovering", "deleting", "reindexing", "clearFlag"} => mode = "recovery"

\* An index that is old or not complete will be built again, or an unfinished
\* reindex that nothing had asked for left it.
OldIndexesFlagged ==
    /\ index.state = "whole" /\ ~index.current => reindexNeeded \/ version # DatabaseVersion
    /\ index.state = "whole" /\ ~index.full => reindexNeeded \/ unasked
    /\ index.state = "absent" /\ hasEvents => reindexNeeded \/ unasked
    /\ pc \in {"reindexing", "clearFlag"} => index.state = "whole" /\ index.current
    /\ pc = "clearFlag" => index.full

\* OnePassphrase with the steps in between.
Aligned ==
    ~damaged /\ sqlPass # Plain =>
        /\ keyFile.state = "torn" => pc \in {"writeKey", "rewriteKey"}
        /\ keyFile.state = "whole" => keyFile.pass = IF pc = "rekey" THEN newPass ELSE sqlPass
        /\ index.state = "whole" => \/ keyFile.state = "whole" /\ keyFile.key = index.key
                                    \/ pc \in {"rewriteKey", "deleting"}

OpeningInv ==
    /\ TypeOK
    /\ Unlocked
    /\ ChangeSound
    /\ KeyInHand
    /\ FlagSound
    /\ OldIndexesFlagged
    /\ Aligned
    /\ EventsUnlockable
=============================================================================
