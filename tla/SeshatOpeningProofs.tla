------------------------- MODULE SeshatOpeningProofs -------------------------
(***************************************************************************)
(* What holds of SeshatOpening for every value of its constants: whatever  *)
(* is cut short, an open database has the right key and a whole index.     *)
(***************************************************************************)
EXTENDS SeshatOpening, TLAPS

USE PlainAssumption, UnsetAssumption, KeysAssumption, TroubleAssumption, ChangesAssumption

-----------------------------------------------------------------------------
(* Key files and indexes.                                                  *)

\* The state of a key file tells what it holds.
LEMMA KeyFileKinds ==
  ASSUME NEW f \in KeyFiles
  PROVE  /\ f.state = "absent" => f = NoKeyFile
         /\ f.state \in {"absent", "torn", "whole"}
         /\ f.state = "whole" => /\ f = KeyFile(f.pass, f.key)
                                 /\ f.pass \in Passphrases
                                 /\ f.key \in Keys
  BY DEF KeyFiles, NoKeyFile, TornKeyFile, KeyFile

LEMMA KeyFileFields ==
  ASSUME NEW p \in Passphrases, NEW k \in Keys
  PROVE  /\ KeyFile(p, k) \in KeyFiles
         /\ KeyFile(p, k).state = "whole"
         /\ KeyFile(p, k).pass = p
         /\ KeyFile(p, k).key = k
  BY DEF KeyFiles, KeyFile

LEMMA NoKeyFiles ==
  /\ NoKeyFile \in KeyFiles /\ NoKeyFile.state = "absent"
  /\ TornKeyFile \in KeyFiles /\ TornKeyFile.state = "torn"
  BY DEF KeyFiles, NoKeyFile, TornKeyFile

\* So does the state of an index.
LEMMA IndexKinds ==
  ASSUME NEW x \in Indexes
  PROVE  /\ x.state = "absent" => x = NoIndex
         /\ x.state \in {"absent", "whole"}
         /\ x.state = "whole" => /\ x = IndexFiles(x.key, x.current, x.full)
                                 /\ x.key \in Keys \cup {Plain}
                                 /\ x.current \in BOOLEAN
                                 /\ x.full \in BOOLEAN
  BY DEF Indexes, NoIndex, IndexFiles

LEMMA IndexFields ==
  ASSUME NEW k \in Keys \cup {Plain}, NEW s \in BOOLEAN, NEW c \in BOOLEAN
  PROVE  /\ IndexFiles(k, s, c) \in Indexes
         /\ IndexFiles(k, s, c).state = "whole"
         /\ IndexFiles(k, s, c).key = k
         /\ IndexFiles(k, s, c).current = s
         /\ IndexFiles(k, s, c).full = c
         /\ [IndexFiles(k, s, c) EXCEPT !.full = TRUE] = IndexFiles(k, s, TRUE)
  <1>1. IndexFiles(k, s, c) \in Indexes
    BY DEF Indexes
  <1>2. [IndexFiles(k, s, c) EXCEPT !.full = TRUE] = IndexFiles(k, s, TRUE)
    <2>1. \A d : [IndexFiles(k, s, c) EXCEPT !.full = d] = IndexFiles(k, s, d)
      BY DEF IndexFiles
    <2> QED
      BY <2>1
  <1> QED
    BY <1>1, <1>2 DEF IndexFiles

LEMMA IndexTyped ==
  ASSUME NEW k \in Keys \cup {Plain}, NEW s \in BOOLEAN, NEW c \in BOOLEAN,
         NEW x, x = IndexFiles(k, s, c)
  PROVE  x \in Indexes /\ x.state = "whole" /\ x.key = k
  BY DEF IndexFiles, Indexes

LEMMA NoIndexes == NoIndex \in Indexes /\ NoIndex.state = "absent"
  BY DEF Indexes, NoIndex

-----------------------------------------------------------------------------
(* The invariant.                                                          *)

\* What an older database is found with.
LEMMA OldDatabase ==
  ASSUME NEW p \in Config, NEW k \in Keys \cup {Plain}, NEW s \in BOOLEAN,
         p = Plain <=> k = Plain,
         keyFile = IF p = Plain THEN NoKeyFile ELSE KeyFile(p, k),
         index = IndexFiles(k, s, TRUE)
  PROVE  /\ keyFile \in KeyFiles /\ index \in Indexes
         /\ index.state = "whole" /\ (index.current <=> s) /\ index.full
         /\ keyFile.state # "torn"
         /\ keyFile.state = "whole" => keyFile.pass = p
         /\ p # Plain => keyFile.state = "whole" /\ keyFile.key = index.key
  <1>1. index \in Indexes /\ index.state = "whole" /\ (index.current <=> s) /\ index.full
        /\ index.key = k
    BY IndexFields
  <1>2. CASE p = Plain
    BY <1>1, <1>2, NoKeyFiles
  <1>3. CASE p # Plain
    BY <1>1, <1>3, KeyFileFields DEF Config
  <1> QED
    BY <1>2, <1>3

LEMMA OpeningInvInit == Init => OpeningInv
  <1> SUFFICES ASSUME Init PROVE OpeningInv
    OBVIOUS
  <1>1. /\ pc = "closed" /\ mode = "database" /\ pass = Plain /\ newPass = Plain
        /\ needed = FALSE /\ storeKey = Plain /\ troubles = 0 /\ changes = 0
        /\ damaged = FALSE /\ unasked = FALSE
    BY DEF Init
  <1>2. CASE /\ sqlPass = Unset /\ version = 0 /\ reindexNeeded = FALSE
             /\ profiles = "none" /\ hasEvents = FALSE /\ keyFile = NoKeyFile
             /\ index = NoIndex /\ known = Config
    <2>1. TypeOK
      <3>1. version \in 0 .. DatabaseVersion + 1 /\ troubles \in 0 .. MaxTrouble
            /\ changes \in 0 .. MaxChanges
        BY <1>1, <1>2, TroubleAssumption, ChangesAssumption DEF DatabaseVersion
      <3> QED
        BY <1>1, <1>2, <3>1, NoKeyFiles, NoIndexes DEF TypeOK, Steps, Config
    <2>2. Unlocked /\ ChangeSound /\ KeyInHand /\ FlagSound /\ EventsUnlockable
      BY <1>1, <1>2 DEF Unlocked, ChangeSound, KeyInHand, FlagSound, EventsUnlockable
    <2>3. OldIndexesFlagged /\ Aligned
      BY <1>1, <1>2, NoKeyFiles, NoIndexes DEF OldIndexesFlagged, Aligned
    <2> QED
      BY <2>1, <2>2, <2>3 DEF OpeningInv
  <1>3. ASSUME NEW p \in Config, NEW k \in Keys \cup {Plain}, NEW s \in BOOLEAN,
               p = Plain <=> k = Plain,
               keyFile = IF p = Plain THEN NoKeyFile ELSE KeyFile(p, k),
               index = IndexFiles(k, s, TRUE),
               s <=> (version >= DatabaseVersion /\ ~reindexNeeded),
               sqlPass = p, known = {sqlPass},
               version \in 1 .. DatabaseVersion + 1, reindexNeeded \in BOOLEAN,
               profiles \in {"profiles", "profile"}, hasEvents \in BOOLEAN
        PROVE  OpeningInv
    <2>1. /\ keyFile \in KeyFiles /\ index \in Indexes
          /\ index.state = "whole" /\ (index.current <=> s) /\ index.full
          /\ keyFile.state # "torn"
          /\ keyFile.state = "whole" => keyFile.pass = p
          /\ p # Plain => keyFile.state = "whole" /\ keyFile.key = index.key
      BY <1>3, OldDatabase
    <2>2. TypeOK
      <3>1. version \in 0 .. DatabaseVersion + 1 /\ troubles \in 0 .. MaxTrouble
            /\ changes \in 0 .. MaxChanges
        BY <1>1, <1>3, TroubleAssumption, ChangesAssumption DEF DatabaseVersion
      <3>2. sqlPass \in Config /\ known \subseteq Config /\ storeKey \in Keys \cup {Plain}
            /\ pass \in Config /\ newPass \in Config
        BY <1>1, <1>3 DEF Config
      <3> QED
        BY <1>1, <1>3, <2>1, <3>1, <3>2 DEF TypeOK, Steps
    <2>3. Unlocked /\ ChangeSound /\ KeyInHand /\ FlagSound /\ EventsUnlockable
      <3>1. sqlPass # Unset /\ version # 0
        BY <1>3, UnsetAssumption DEF Config
      <3> QED
        BY <1>1, <1>3, <3>1
        DEF Unlocked, ChangeSound, KeyInHand, FlagSound, EventsUnlockable
    <2>4. OldIndexesFlagged
      <3>1. index.current <=> version >= DatabaseVersion /\ ~reindexNeeded
        BY <1>3, <2>1
      <3>2. version = DatabaseVersion => version >= DatabaseVersion
        BY DEF DatabaseVersion
      <3> QED
        BY <1>1, <2>1, <3>1, <3>2 DEF OldIndexesFlagged
    <2>5. Aligned
      BY <1>1, <1>3, <2>1 DEF Aligned
    <2> QED
      BY <2>2, <2>3, <2>4, <2>5 DEF OpeningInv
  <1>4. CASE ~(sqlPass = Unset /\ version = 0)
    <2> DEFINE s == version >= DatabaseVersion /\ ~reindexNeeded
    <2>1. /\ version \in 1 .. DatabaseVersion + 1 /\ reindexNeeded \in BOOLEAN
          /\ profiles \in {"profiles", "profile"} /\ hasEvents \in BOOLEAN
          /\ known = {sqlPass}
      BY <1>4 DEF Init
    <2>2. CASE sqlPass = Plain /\ keyFile = NoKeyFile /\ index = IndexFiles(Plain, s, TRUE)
      BY <1>3, <2>1, <2>2 DEF Config
    <2>3. ASSUME NEW p \in Passphrases, NEW k \in Keys,
                 sqlPass = p /\ keyFile = KeyFile(p, k) /\ index = IndexFiles(k, s, TRUE)
          PROVE  OpeningInv
      <3>1. p \in Config /\ p # Plain /\ k # Plain
        BY PlainAssumption, KeysAssumption DEF Config
      <3>2. s \in BOOLEAN /\ (s <=> (version >= DatabaseVersion /\ ~reindexNeeded))
        OBVIOUS
      <3> HIDE DEF s
      <3> QED
        BY <1>3, <2>1, <2>3, <3>1, <3>2
    <2> QED
      BY <1>4, <2>2, <2>3 DEF Init
  <1> QED
    BY <1>2, <1>4 DEF Init

-----------------------------------------------------------------------------
(* The steps.                                                              *)

\* What the invariant says of the files and of the passphrase in use.
LEMMA StateFacts ==
  ASSUME OpeningInv
  PROVE  /\ pc # "closed" => sqlPass = pass /\ sqlPass # Unset
         /\ newPass \in Config /\ newPass # Unset
         /\ keyFile.state \in {"absent", "torn", "whole"}
         /\ keyFile.state = "absent" => keyFile = NoKeyFile
         /\ keyFile.state = "whole" => /\ keyFile = KeyFile(keyFile.pass, keyFile.key)
                                       /\ keyFile.pass \in Passphrases
                                       /\ keyFile.key \in Keys
         /\ index.state \in {"absent", "whole"}
         /\ index.state = "absent" => index = NoIndex
         /\ mode \in {"database", "recovery"}
  <1>1. keyFile \in KeyFiles /\ index \in Indexes /\ {pass, newPass} \subseteq Config
    BY DEF OpeningInv, TypeOK
  <1>2. mode \in {"database", "recovery"}
    BY DEF OpeningInv, TypeOK
  <1>3. Unset \notin Config
    BY UnsetAssumption DEF Config
  <1>4. pc # "closed" => sqlPass = pass
    BY DEF OpeningInv, Unlocked
  <1> QED
    BY <1>1, <1>2, <1>3, <1>4, KeyFileKinds, IndexKinds

\* A key file is written with a passphrase and a store key that are none of Plain.
LEMMA KeyWritten ==
  ASSUME OpeningInv
  PROVE  /\ WriteStoreKey => /\ pass \in Passphrases /\ storeKey \in Keys
                             /\ keyFile' = KeyFile(pass, storeKey)
                             /\ keyFile' \in KeyFiles /\ keyFile'.state = "whole"
                             /\ keyFile'.pass = pass /\ keyFile'.key = storeKey
         /\ RewriteKey => /\ keyFile' = KeyFile(newPass, storeKey)
                          /\ keyFile' \in KeyFiles /\ keyFile'.state = "whole"
                          /\ keyFile'.pass = newPass /\ keyFile'.key = storeKey
  <1>1. {pass, newPass} \subseteq Config /\ storeKey \in Keys \cup {Plain}
    BY DEF OpeningInv, TypeOK
  <1>2. CASE WriteStoreKey
    <2>1. keyFile' = KeyFile(pass, storeKey)
      BY <1>2 DEF WriteStoreKey
    <2>2. pass \in Passphrases /\ storeKey \in Keys
      BY <1>1, <1>2 DEF WriteStoreKey, OpeningInv, KeyInHand, Config
    <2>3. ~RewriteKey
      BY <1>2 DEF WriteStoreKey, RewriteKey
    <2> QED
      BY <2>1, <2>2, <2>3, KeyFileFields
  <1>3. CASE RewriteKey
    <2>1. keyFile' = KeyFile(newPass, storeKey)
      BY <1>3 DEF RewriteKey, NewKeyFile
    <2>2. newPass \in Passphrases /\ storeKey \in Keys
      BY <1>1, <1>3 DEF RewriteKey, OpeningInv, KeyInHand, ChangeSound, Config
    <2>3. ~WriteStoreKey
      BY <1>3 DEF WriteStoreKey, RewriteKey
    <2> QED
      BY <2>1, <2>2, <2>3, KeyFileFields
  <1> QED
    BY <1>2, <1>3

\* A store key that is loaded is the one of the key file.
LEMMA KeyLoaded ==
  ASSUME OpeningInv, keyFile.state = "whole", keyFile.pass = pass
  PROVE  keyFile = KeyFile(pass, keyFile.key) /\ keyFile.key \in Keys
  BY StateFacts

\* An index is opened with the key of the key file.
LEMMA KeyOfFile ==
  ASSUME OpeningInv, pc \in {"index", "open", "reindexing", "clearFlag"}, pass # Plain
  PROVE  keyFile.state = "whole" /\ keyFile.pass = pass /\ keyFile.key = storeKey
  <1>1. pass \in Passphrases /\ storeKey \in Keys
    BY DEF OpeningInv, TypeOK, Config, KeyInHand
  <1> QED
    BY <1>1, KeyFileFields DEF OpeningInv, KeyInHand

\* The index that tantivy opens is the one that is there, or a new one.
LEMMA IndexOpened ==
  ASSUME OpeningInv, OpenIndex
  PROVE  /\ index' \in Indexes /\ index'.state = "whole" /\ index'.key = storeKey
         /\ index.state = "whole" => index' = index
         /\ index.state = "absent" => index'.current /\ (index'.full <=> ~hasEvents)
         /\ pc = "index" /\ pc' = IF mode = "database" THEN "open" ELSE "reindexing"
         /\ known' = {pass}
         /\ UNCHANGED <<sqlPass, tables, keyFile, config, needed, storeKey, bounds, damaged,
                        unasked>>
  <1>1. index \in Indexes /\ storeKey \in Keys \cup {Plain} /\ hasEvents \in BOOLEAN
    BY DEF OpeningInv, TypeOK
  <1>2. /\ pc = "index" /\ pc' = IF mode = "database" THEN "open" ELSE "reindexing"
        /\ known' = {pass}
        /\ UNCHANGED <<sqlPass, tables, keyFile, config, needed, storeKey, bounds, damaged,
                       unasked>>
    BY DEF OpenIndex
  <1>3. index.state \in {"absent", "whole"}
    BY StateFacts
  <1>4. CASE index.state = "absent"
    <2>1. index' = IndexFiles(storeKey, TRUE, ~hasEvents)
      BY <1>4 DEF OpenIndex
    <2>2. TRUE \in BOOLEAN /\ (~hasEvents) \in BOOLEAN
      OBVIOUS
    <2>3. index' \in Indexes /\ index'.state = "whole" /\ index'.key = storeKey
      BY <1>1, <2>1, <2>2, IndexTyped
    <2>4. index'.current = TRUE /\ index'.full = ~hasEvents
      BY <2>1 DEF IndexFiles
    <2>5. index'.current /\ (index'.full <=> ~hasEvents)
      BY <2>4
    <2> QED
      BY <1>4, <1>2, <2>3, <2>5
  <1>5. CASE index.state = "whole"
    BY <1>1, <1>5, <1>2 DEF OpenIndex
  <1> QED
    BY <1>4, <1>5, <1>2, <1>3

\* The commit of a reindex completes the index and changes nothing else of it.
LEMMA IndexCompleted ==
  ASSUME OpeningInv, CommitReindex
  PROVE  /\ index' \in Indexes /\ index'.state = "whole" /\ index'.key = storeKey
         /\ index'.current /\ index'.full
  <1>1. index \in Indexes
    BY DEF OpeningInv, TypeOK
  <1>2. index.state = "whole" /\ index.key = storeKey /\ index.current
    BY DEF CommitReindex, OpeningInv, KeyInHand, OldIndexesFlagged
  <1>3. PICK k \in Keys \cup {Plain}, s \in BOOLEAN, c \in BOOLEAN : index = IndexFiles(k,
              s, c)
    BY <1>1, <1>2, NoIndexes DEF Indexes, NoIndex
  <1>4. index' = IndexFiles(k, s, TRUE)
    BY <1>3, IndexFields DEF CommitReindex
  <1>5. k = storeKey /\ s
    BY <1>2, <1>3, IndexFields
  <1> QED
    BY <1>4, <1>5, IndexFields

\* While something is open its passphrase unlocks events.db.
LEMMA UnlockedNext == ASSUME OpeningInv, [Next]_vars PROVE Unlocked'
  <1> USE NoKeyFiles, NoIndexes, PlainAssumption, UnsetAssumption, KeysAssumption
      DEF OpeningInv, Unlocked, Config, disk, tables, config, bounds, history
  <1>1. CASE \E p \in Config : OpenDatabase(p) \/ OpenRecovery(p)
    BY <1>1 DEF OpenDatabase, OpenRecovery, Unlock, EndWith
  <1>2. CASE ReadVersion \/ RenameProfiles \/ RenameFails \/ SetVersion2 \/ MarkForReindex
    BY <1>2 DEF ReadVersion, StoredFlag, RenameProfiles, RenameFails, EndWith, SetVersion2,
       MarkForReindex, OldIndexVersions
  <1>3. CASE CreateTables \/ OpenPlainDirectory \/ LoadStoreKey \/ IndexUnreadable
    BY <1>3, KeyLoaded DEF CreateTables, EndWith, OpenPlainDirectory, LoadStoreKey,
       Readable, IndexUnreadable
  <1>4. CASE CreateNewStore \/ WriteStoreKey
    BY <1>4, StateFacts, KeyWritten DEF CreateNewStore, WriteStoreKey
  <1>5. CASE OpenIndex
    BY <1>5, StateFacts, KeyOfFile, IndexOpened
  <1>6. CASE CloseDatabase \/ CloseRecovery \/ StoreEvents \/ Trouble \/ UNCHANGED vars
    BY <1>6 DEF CloseDatabase, CloseRecovery, EndWith, StoreEvents, Trouble, HalfWay, vars
  <1>7. CASE \E q \in Config : ChangePassphrase(q)
    BY <1>7, StateFacts, KeyLoaded, KeyOfFile DEF ChangePassphrase, Readable, EndWith
  <1>8. CASE TruncateKeyFile \/ RewriteKey \/ Rekey
    BY <1>8, StateFacts, KeyWritten DEF TruncateKeyFile, RewriteKey, Rekey, Rekeyed, EndWith
  <1>9. CASE DeleteFile("keyFile") \/ DeleteFile("index") \/ IndexDeleted
    BY <1>9, StateFacts DEF Present, DeleteFile, DeletedFiles, IndexDeleted
  <1>10. CASE CommitReindex
    BY <1>10, StateFacts, IndexCompleted DEF CommitReindex
  <1>11. CASE ClearFlag
    BY <1>11, StateFacts, KeyOfFile DEF ClearFlag, EndWith
  <1> HIDE DEF OpeningInv, Unlocked, Config, disk, tables, config, bounds, history
  <1> QED
    BY <1>1, <1>2, <1>3, <1>4, <1>5, <1>6, <1>7, <1>8, <1>9, <1>10, <1>11
    DEF Next, Opening, Changing, Deleting, DeletedFiles, Reindexing

\* A change of the passphrase works on two of them.
LEMMA ChangeSoundNext == ASSUME OpeningInv, [Next]_vars PROVE ChangeSound'
  <1> USE NoKeyFiles, NoIndexes, PlainAssumption, UnsetAssumption, KeysAssumption
      DEF OpeningInv, ChangeSound, KeyInHand, EventsUnlockable, Unlocked, TypeOK, Config,
          disk, tables, config, bounds, history
  <1>1. CASE \E p \in Config : OpenDatabase(p) \/ OpenRecovery(p)
    BY <1>1 DEF OpenDatabase, OpenRecovery, Unlock, EndWith
  <1>2. CASE ReadVersion \/ RenameProfiles \/ RenameFails \/ SetVersion2 \/ MarkForReindex
    BY <1>2 DEF ReadVersion, StoredFlag, RenameProfiles, RenameFails, EndWith, SetVersion2,
       MarkForReindex, OldIndexVersions
  <1>3. CASE CreateTables \/ OpenPlainDirectory \/ LoadStoreKey \/ IndexUnreadable
    BY <1>3, KeyLoaded DEF CreateTables, EndWith, OpenPlainDirectory, LoadStoreKey,
       Readable, IndexUnreadable
  <1>4. CASE CreateNewStore \/ WriteStoreKey
    BY <1>4, StateFacts, KeyWritten DEF CreateNewStore, WriteStoreKey
  <1>5. CASE OpenIndex
    BY <1>5, StateFacts, KeyOfFile, IndexOpened
  <1>6. CASE CloseDatabase \/ CloseRecovery \/ StoreEvents \/ Trouble \/ UNCHANGED vars
    BY <1>6 DEF CloseDatabase, CloseRecovery, EndWith, StoreEvents, Trouble, HalfWay, vars
  <1>7. CASE \E q \in Config : ChangePassphrase(q)
    BY <1>7, StateFacts, KeyLoaded, KeyOfFile DEF ChangePassphrase, Readable, EndWith
  <1>8. CASE TruncateKeyFile \/ RewriteKey \/ Rekey
    BY <1>8, StateFacts, KeyWritten DEF TruncateKeyFile, RewriteKey, Rekey, Rekeyed, EndWith
  <1>9. CASE DeleteFile("keyFile") \/ DeleteFile("index") \/ IndexDeleted
    BY <1>9, StateFacts DEF Present, DeleteFile, DeletedFiles, IndexDeleted
  <1>10. CASE CommitReindex
    BY <1>10, StateFacts, IndexCompleted DEF CommitReindex
  <1>11. CASE ClearFlag
    BY <1>11, StateFacts, KeyOfFile DEF ClearFlag, EndWith
  <1> HIDE DEF OpeningInv, ChangeSound, KeyInHand, EventsUnlockable, Unlocked, TypeOK,
               Config, disk, tables, config, bounds, history
  <1> QED
    BY <1>1, <1>2, <1>3, <1>4, <1>5, <1>6, <1>7, <1>8, <1>9, <1>10, <1>11
    DEF Next, Opening, Changing, Deleting, DeletedFiles, Reindexing

\* The key in memory stays the key of the files.
LEMMA KeyInHandNext == ASSUME OpeningInv, [Next]_vars PROVE KeyInHand'
  <1> USE NoKeyFiles, NoIndexes, PlainAssumption, UnsetAssumption, KeysAssumption
      DEF OpeningInv, KeyInHand, ChangeSound, TypeOK, disk, tables, config, bounds, history
  <1>1. CASE \E p \in Config : OpenDatabase(p) \/ OpenRecovery(p)
    BY <1>1 DEF OpenDatabase, OpenRecovery, Unlock, EndWith
  <1>2. CASE ReadVersion \/ RenameProfiles \/ RenameFails \/ SetVersion2 \/ MarkForReindex
    BY <1>2 DEF ReadVersion, StoredFlag, RenameProfiles, RenameFails, EndWith, SetVersion2,
       MarkForReindex, OldIndexVersions
  <1>3. CASE CreateTables \/ OpenPlainDirectory \/ LoadStoreKey \/ IndexUnreadable
    BY <1>3, KeyLoaded DEF CreateTables, EndWith, OpenPlainDirectory, LoadStoreKey,
       Readable, IndexUnreadable
  <1>4. CASE CreateNewStore \/ WriteStoreKey
    BY <1>4, StateFacts, KeyWritten DEF CreateNewStore, WriteStoreKey
  <1>5. CASE OpenIndex
    BY <1>5, StateFacts, KeyOfFile, IndexOpened
  <1>6. CASE CloseDatabase \/ CloseRecovery \/ StoreEvents \/ Trouble \/ UNCHANGED vars
    BY <1>6 DEF CloseDatabase, CloseRecovery, EndWith, StoreEvents, Trouble, HalfWay, vars
  <1>7. CASE \E q \in Config : ChangePassphrase(q)
    BY <1>7, StateFacts, KeyLoaded, KeyOfFile DEF ChangePassphrase, Readable, EndWith
  <1>8. CASE TruncateKeyFile \/ RewriteKey \/ Rekey
    BY <1>8, StateFacts, KeyWritten DEF TruncateKeyFile, RewriteKey, Rekey, Rekeyed, EndWith
  <1>9. CASE DeleteFile("keyFile") \/ DeleteFile("index") \/ IndexDeleted
    BY <1>9, StateFacts DEF Present, DeleteFile, DeletedFiles, IndexDeleted
  <1>10. CASE CommitReindex
    BY <1>10, StateFacts, IndexCompleted DEF CommitReindex
  <1>11. CASE ClearFlag
    BY <1>11, StateFacts, KeyOfFile DEF ClearFlag, EndWith
  <1> HIDE DEF OpeningInv, KeyInHand, ChangeSound, TypeOK, disk, tables, config, bounds,
               history
  <1> QED
    BY <1>1, <1>2, <1>3, <1>4, <1>5, <1>6, <1>7, <1>8, <1>9, <1>10, <1>11
    DEF Next, Opening, Changing, Deleting, DeletedFiles, Reindexing

\* reindex_needed is read before an index is opened.
LEMMA FlagSoundNext == ASSUME OpeningInv, [Next]_vars PROVE FlagSound'
  <1> USE NoKeyFiles, NoIndexes, PlainAssumption, UnsetAssumption, KeysAssumption
      DEF OpeningInv, FlagSound, DatabaseVersion, disk, tables, config, bounds, history
  <1>1. CASE \E p \in Config : OpenDatabase(p) \/ OpenRecovery(p)
    BY <1>1 DEF OpenDatabase, OpenRecovery, Unlock, EndWith
  <1>2. CASE ReadVersion
    BY <1>2 DEF ReadVersion, StoredFlag
  <1>3. CASE RenameProfiles
    BY <1>3 DEF RenameProfiles
  <1>4. CASE RenameFails
    BY <1>4 DEF RenameFails, EndWith
  <1>5. CASE SetVersion2
    BY <1>5 DEF SetVersion2
  <1>6. CASE MarkForReindex
    BY <1>6 DEF MarkForReindex, OldIndexVersions
  <1>7. CASE CreateTables \/ OpenPlainDirectory \/ LoadStoreKey \/ IndexUnreadable
    BY <1>7, KeyLoaded DEF CreateTables, EndWith, OpenPlainDirectory, LoadStoreKey,
       Readable, IndexUnreadable
  <1>8. CASE CreateNewStore \/ WriteStoreKey
    BY <1>8, StateFacts, KeyWritten DEF CreateNewStore, WriteStoreKey
  <1>9. CASE OpenIndex
    BY <1>9, StateFacts, KeyOfFile, IndexOpened
  <1>10. CASE CloseDatabase \/ CloseRecovery \/ StoreEvents \/ Trouble \/ UNCHANGED vars
    BY <1>10 DEF CloseDatabase, CloseRecovery, EndWith, StoreEvents, Trouble, HalfWay, vars
  <1>11. CASE \E q \in Config : ChangePassphrase(q)
    BY <1>11, StateFacts, KeyLoaded, KeyOfFile DEF ChangePassphrase, Readable, EndWith
  <1>12. CASE TruncateKeyFile \/ RewriteKey \/ Rekey
    BY <1>12, StateFacts, KeyWritten DEF TruncateKeyFile, RewriteKey, Rekey, Rekeyed,
       EndWith
  <1>13. CASE DeleteFile("keyFile") \/ DeleteFile("index") \/ IndexDeleted
    BY <1>13, StateFacts DEF Present, DeleteFile, DeletedFiles, IndexDeleted
  <1>14. CASE CommitReindex
    BY <1>14, StateFacts, IndexCompleted DEF CommitReindex
  <1>15. CASE ClearFlag
    BY <1>15, StateFacts, KeyOfFile DEF ClearFlag, EndWith
  <1> HIDE DEF OpeningInv, FlagSound, DatabaseVersion, disk, tables, config, bounds, history
  <1> QED
    BY <1>1, <1>2, <1>3, <1>4, <1>5, <1>6, <1>7, <1>8, <1>9, <1>10, <1>11, <1>12, <1>13,
       <1>14, <1>15
    DEF Next, Opening, Changing, Deleting, DeletedFiles, Reindexing

\* Nothing makes an index old or incomplete without a mark.
LEMMA OldIndexesFlaggedNext == ASSUME OpeningInv, [Next]_vars PROVE OldIndexesFlagged'
  <1> USE NoKeyFiles, NoIndexes, PlainAssumption, UnsetAssumption, KeysAssumption
      DEF OpeningInv, OldIndexesFlagged, FlagSound, KeyInHand, DatabaseVersion, disk,
          tables, config, bounds, history
  <1>1. CASE \E p \in Config : OpenDatabase(p) \/ OpenRecovery(p)
    BY <1>1 DEF OpenDatabase, OpenRecovery, Unlock, EndWith
  <1>2. CASE ReadVersion
    BY <1>2 DEF ReadVersion, StoredFlag
  <1>3. CASE RenameProfiles
    BY <1>3 DEF RenameProfiles
  <1>4. CASE RenameFails
    BY <1>4 DEF RenameFails, EndWith
  <1>5. CASE SetVersion2
    BY <1>5 DEF SetVersion2
  <1>6. CASE MarkForReindex
    BY <1>6 DEF MarkForReindex, OldIndexVersions
  <1>7. CASE CreateTables \/ OpenPlainDirectory \/ LoadStoreKey \/ IndexUnreadable
    BY <1>7, KeyLoaded DEF CreateTables, EndWith, OpenPlainDirectory, LoadStoreKey,
       Readable, IndexUnreadable
  <1>8. CASE CreateNewStore \/ WriteStoreKey
    BY <1>8, StateFacts, KeyWritten DEF CreateNewStore, WriteStoreKey
  <1>9. CASE OpenIndex
    BY <1>9, StateFacts, KeyOfFile, IndexOpened
  <1>10. CASE CloseDatabase \/ CloseRecovery \/ StoreEvents \/ Trouble \/ UNCHANGED vars
    BY <1>10 DEF CloseDatabase, CloseRecovery, EndWith, StoreEvents, Trouble, HalfWay, vars
  <1>11. CASE \E q \in Config : ChangePassphrase(q)
    BY <1>11, StateFacts, KeyLoaded, KeyOfFile DEF ChangePassphrase, Readable, EndWith
  <1>12. CASE TruncateKeyFile \/ RewriteKey \/ Rekey
    BY <1>12, StateFacts, KeyWritten DEF TruncateKeyFile, RewriteKey, Rekey, Rekeyed,
       EndWith
  <1>13. CASE DeleteFile("keyFile")
    BY <1>13, StateFacts DEF Present, DeleteFile
  <1>14. CASE DeleteFile("index")
    BY <1>14, StateFacts DEF Present, DeleteFile
  <1>15. CASE IndexDeleted
    BY <1>15, StateFacts DEF DeletedFiles, Present, IndexDeleted
  <1>16. CASE CommitReindex
    BY <1>16, StateFacts, IndexCompleted DEF CommitReindex
  <1>17. CASE ClearFlag
    BY <1>17, StateFacts, KeyOfFile DEF ClearFlag, EndWith
  <1> HIDE DEF OpeningInv, OldIndexesFlagged, FlagSound, KeyInHand, DatabaseVersion, disk,
               tables, config, bounds, history
  <1> QED
    BY <1>1, <1>2, <1>3, <1>4, <1>5, <1>6, <1>7, <1>8, <1>9, <1>10, <1>11, <1>12, <1>13,
       <1>14, <1>15, <1>16, <1>17
    DEF Next, Opening, Changing, Deleting, DeletedFiles, Reindexing

\* The key file follows the passphrase of events.db.
LEMMA AlignedNext == ASSUME OpeningInv, [Next]_vars PROVE Aligned'
  <1> USE NoKeyFiles, NoIndexes, PlainAssumption, UnsetAssumption, KeysAssumption
      DEF OpeningInv, Aligned, Unlocked, KeyInHand, ChangeSound, disk, tables, config,
          bounds, history
  <1>1. CASE \E p \in Config : OpenDatabase(p) \/ OpenRecovery(p)
    BY <1>1 DEF OpenDatabase, OpenRecovery, Unlock, EndWith
  <1>2. CASE ReadVersion \/ RenameProfiles \/ RenameFails \/ SetVersion2 \/ MarkForReindex
    BY <1>2 DEF ReadVersion, StoredFlag, RenameProfiles, RenameFails, EndWith, SetVersion2,
       MarkForReindex, OldIndexVersions
  <1>3. CASE CreateTables \/ OpenPlainDirectory \/ LoadStoreKey \/ IndexUnreadable
    BY <1>3, KeyLoaded DEF CreateTables, EndWith, OpenPlainDirectory, LoadStoreKey,
       Readable, IndexUnreadable
  <1>4. CASE CreateNewStore \/ WriteStoreKey
    BY <1>4, StateFacts, KeyWritten DEF CreateNewStore, WriteStoreKey
  <1>5. CASE OpenIndex
    BY <1>5, StateFacts, KeyOfFile, IndexOpened
  <1>6. CASE CloseDatabase \/ CloseRecovery \/ StoreEvents \/ Trouble \/ UNCHANGED vars
    BY <1>6 DEF CloseDatabase, CloseRecovery, EndWith, StoreEvents, Trouble, HalfWay, vars
  <1>7. CASE \E q \in Config : ChangePassphrase(q)
    BY <1>7, StateFacts, KeyLoaded, KeyOfFile DEF ChangePassphrase, Readable, EndWith
  <1>8. CASE TruncateKeyFile \/ RewriteKey \/ Rekey
    BY <1>8, StateFacts, KeyWritten DEF TruncateKeyFile, RewriteKey, Rekey, Rekeyed, EndWith
  <1>9. CASE DeleteFile("keyFile") \/ DeleteFile("index") \/ IndexDeleted
    BY <1>9, StateFacts DEF Present, DeleteFile, DeletedFiles, IndexDeleted
  <1>10. CASE CommitReindex
    BY <1>10, StateFacts, IndexCompleted DEF CommitReindex
  <1>11. CASE ClearFlag
    BY <1>11, StateFacts, KeyOfFile DEF ClearFlag, EndWith
  <1> HIDE DEF OpeningInv, Aligned, Unlocked, KeyInHand, ChangeSound, disk, tables, config,
               bounds, history
  <1> QED
    BY <1>1, <1>2, <1>3, <1>4, <1>5, <1>6, <1>7, <1>8, <1>9, <1>10, <1>11
    DEF Next, Opening, Changing, Deleting, DeletedFiles, Reindexing

\* The client learns of a passphrase before events.db has it.
LEMMA EventsUnlockableNext == ASSUME OpeningInv, [Next]_vars PROVE EventsUnlockable'
  <1> USE NoKeyFiles, NoIndexes, PlainAssumption, UnsetAssumption, KeysAssumption
      DEF OpeningInv, EventsUnlockable, Unlocked, ChangeSound, Config, disk, tables, config,
          bounds, history
  <1>1. CASE \E p \in Config : OpenDatabase(p) \/ OpenRecovery(p)
    BY <1>1 DEF OpenDatabase, OpenRecovery, Unlock, EndWith
  <1>2. CASE ReadVersion \/ RenameProfiles \/ RenameFails \/ SetVersion2 \/ MarkForReindex
    BY <1>2 DEF ReadVersion, StoredFlag, RenameProfiles, RenameFails, EndWith, SetVersion2,
       MarkForReindex, OldIndexVersions
  <1>3. CASE CreateTables \/ OpenPlainDirectory \/ LoadStoreKey \/ IndexUnreadable
    BY <1>3, KeyLoaded DEF CreateTables, EndWith, OpenPlainDirectory, LoadStoreKey,
       Readable, IndexUnreadable
  <1>4. CASE CreateNewStore \/ WriteStoreKey
    BY <1>4, StateFacts, KeyWritten DEF CreateNewStore, WriteStoreKey
  <1>5. CASE OpenIndex
    BY <1>5, StateFacts, KeyOfFile, IndexOpened
  <1>6. CASE CloseDatabase \/ CloseRecovery \/ StoreEvents \/ Trouble \/ UNCHANGED vars
    BY <1>6 DEF CloseDatabase, CloseRecovery, EndWith, StoreEvents, Trouble, HalfWay, vars
  <1>7. CASE \E q \in Config : ChangePassphrase(q)
    BY <1>7, StateFacts, KeyLoaded, KeyOfFile DEF ChangePassphrase, Readable, EndWith
  <1>8. CASE TruncateKeyFile \/ RewriteKey \/ Rekey
    BY <1>8, StateFacts, KeyWritten DEF TruncateKeyFile, RewriteKey, Rekey, Rekeyed, EndWith
  <1>9. CASE DeleteFile("keyFile") \/ DeleteFile("index") \/ IndexDeleted
    BY <1>9, StateFacts DEF Present, DeleteFile, DeletedFiles, IndexDeleted
  <1>10. CASE CommitReindex
    BY <1>10, StateFacts, IndexCompleted DEF CommitReindex
  <1>11. CASE ClearFlag
    BY <1>11, StateFacts, KeyOfFile DEF ClearFlag, EndWith
  <1> HIDE DEF OpeningInv, EventsUnlockable, Unlocked, ChangeSound, Config, disk, tables,
               config, bounds, history
  <1> QED
    BY <1>1, <1>2, <1>3, <1>4, <1>5, <1>6, <1>7, <1>8, <1>9, <1>10, <1>11
    DEF Next, Opening, Changing, Deleting, DeletedFiles, Reindexing

\* Types.
LEMMA TypeOKNext == ASSUME OpeningInv, [Next]_vars PROVE TypeOK'
  <1> USE NoKeyFiles, NoIndexes, PlainAssumption, UnsetAssumption, KeysAssumption
      DEF OpeningInv, TypeOK, Steps, Config, DatabaseVersion, disk, tables, config, bounds,
          history
  <1>1. CASE \E p \in Config : OpenDatabase(p) \/ OpenRecovery(p)
    BY <1>1 DEF OpenDatabase, OpenRecovery, Unlock, EndWith
  <1>2. CASE ReadVersion
    BY <1>2 DEF ReadVersion, StoredFlag
  <1>3. CASE RenameProfiles
    BY <1>3 DEF RenameProfiles
  <1>4. CASE RenameFails
    <2>1. UNCHANGED <<disk, config, needed, storeKey, bounds, history>> /\ pc' = "closed"
      BY <1>4 DEF RenameFails, EndWith
    <2> QED
      BY <2>1
  <1>5. CASE SetVersion2
    BY <1>5 DEF SetVersion2
  <1>6. CASE MarkForReindex
    BY <1>6 DEF MarkForReindex, OldIndexVersions
  <1>7. CASE CreateTables \/ OpenPlainDirectory \/ LoadStoreKey \/ IndexUnreadable
    BY <1>7, KeyLoaded DEF CreateTables, EndWith, OpenPlainDirectory, LoadStoreKey,
       Readable, IndexUnreadable
  <1>8. CASE CreateNewStore \/ WriteStoreKey
    BY <1>8, StateFacts, KeyWritten DEF CreateNewStore, WriteStoreKey
  <1>9. CASE OpenIndex
    BY <1>9, StateFacts, KeyOfFile, IndexOpened
  <1>10. CASE StoreEvents
    BY <1>10 DEF StoreEvents
  <1>11. CASE CloseDatabase \/ CloseRecovery
    BY <1>11 DEF CloseDatabase, CloseRecovery, EndWith
  <1>12. CASE \E q \in Config : ChangePassphrase(q)
    BY <1>12, StateFacts, KeyLoaded, KeyOfFile DEF ChangePassphrase, Readable, EndWith
  <1>13. CASE TruncateKeyFile \/ RewriteKey \/ Rekey
    BY <1>13, StateFacts, KeyWritten DEF TruncateKeyFile, RewriteKey, Rekey, Rekeyed,
       EndWith
  <1>14. CASE DeleteFile("keyFile")
    BY <1>14, StateFacts DEF Present, DeleteFile
  <1>15. CASE DeleteFile("index")
    BY <1>15, StateFacts DEF Present, DeleteFile
  <1>16. CASE IndexDeleted
    BY <1>16, StateFacts DEF DeletedFiles, Present, IndexDeleted
  <1>17. CASE CommitReindex
    BY <1>17, StateFacts, IndexCompleted DEF CommitReindex
  <1>18. CASE ClearFlag
    BY <1>18, StateFacts, KeyOfFile DEF ClearFlag, EndWith
  <1>19. CASE Trouble
    BY <1>19 DEF Trouble, HalfWay, EndWith
  <1>20. CASE UNCHANGED vars
    BY <1>20 DEF vars
  <1> HIDE DEF OpeningInv, TypeOK, Steps, Config, DatabaseVersion, disk, tables, config,
               bounds, history
  <1> QED
    BY <1>1, <1>2, <1>3, <1>4, <1>5, <1>6, <1>7, <1>8, <1>9, <1>10, <1>11, <1>12, <1>13,
       <1>14, <1>15, <1>16, <1>17, <1>18, <1>19, <1>20
    DEF Next, Opening, Changing, Deleting, DeletedFiles, Reindexing

LEMMA OpeningInvNext == OpeningInv /\ [Next]_vars => OpeningInv'
  <1> SUFFICES ASSUME OpeningInv, [Next]_vars PROVE OpeningInv'
    OBVIOUS
  <1> QED
    BY TypeOKNext, UnlockedNext, ChangeSoundNext, KeyInHandNext, FlagSoundNext,
       OldIndexesFlaggedNext, AlignedNext, EventsUnlockableNext
    DEF OpeningInv

\* Whatever crashes or fails, between any two steps of opening, migrating, rebuilding
\* and changing the passphrase: what is on disk and what the process holds of it agree
\* as OpeningInv says, part by part.
THEOREM OpeningInvariant == Spec => []OpeningInv
  BY OpeningInvInit, OpeningInvNext, PTL DEF Spec

-----------------------------------------------------------------------------
(* The theorems.                                                           *)

\* The disk and the process keep their types, with any passphrases and keys.
THEOREM TypeCorrect == Spec => []TypeOK
  <1>1. OpeningInv => TypeOK
    BY DEF OpeningInv
  <1> QED
    BY OpeningInvariant, <1>1, PTL

\* Whatever died in between, an open database has the store key of its index, and
\* its passphrase opens the key file and events.db again.
THEOREM OpenedIndexReadable == Spec => []OpenIndexReadable
  <1>1. OpeningInv => OpenIndexReadable
    BY DEF OpeningInv, OpenIndexReadable, KeyInHand, Unlocked
  <1> QED
    BY OpeningInvariant, <1>1, PTL

\* A database of any older version is opened only once its index was rebuilt with
\* the schema of this version, and has every event, unless an unfinished reindex
\* that reindex_needed had not asked for left it incomplete.
THEOREM OpenedIndexComplete == Spec => []MigratedIndexComplete
  <1>1. OpeningInv => MigratedIndexComplete
    BY DEF OpeningInv, MigratedIndexComplete, KeyInHand, FlagSound, OldIndexesFlagged
  <1> QED
    BY OpeningInvariant, <1>1, PTL

\* As long as nothing was cut short half way, one passphrase opens events.db and the
\* key file, whose key reads the index.
THEOREM ClosedDatabaseAligned == Spec => []OnePassphrase
  <1>1. OpeningInv => OnePassphrase
    BY DEF OpeningInv, OnePassphrase, Aligned
  <1> QED
    BY OpeningInvariant, <1>1, PTL

\* The passphrase of events.db is always one of those that the client remembers,
\* also when change_passphrase is cut short at any of its steps.
THEOREM EventsNeverLocked == Spec => []EventsUnlockable
  <1>1. OpeningInv => EventsUnlockable
    BY DEF OpeningInv
  <1> QED
    BY OpeningInvariant, <1>1, PTL

-----------------------------------------------------------------------------
(* Every call runs down.                                                   *)

\* How far the version is from the one of this code: two steps at most for each.
MigrationsLeft == 2 * (DatabaseVersion + 1 - version)

\* How many files delete_the_index still has to remove.
FilesLeft == (IF keyFile.state = "absent" THEN 0 ELSE 1)
             + (IF index.state = "absent" THEN 0 ELSE 1)

\* An upper bound of the steps that a running call still takes.
CallSteps ==
    CASE pc = "version"    -> 19
      [] pc = "migrate"    -> 10 + MigrationsLeft
      [] pc = "renamed"    -> 17
      [] pc \in {"recovering", "deleting"} -> 7 + FilesLeft
      [] pc = "keyFile"    -> 6
      [] pc = "writeKey"   -> 5
      [] pc = "index"      -> 4
      [] pc = "reindexing" -> 2
      [] pc = "clearFlag"  -> 1
      [] pc = "truncate"   -> 3
      [] pc = "rewriteKey" -> 2
      [] pc = "rekey"      -> 1
      [] pc \in {"closed", "open"} -> 0

\* Whatever a call of open, change_passphrase or reindex finds on the disk, each of
\* its steps brings its end nearer: a migration does not repeat, and a deleted index
\* is not deleted again.
CallNearsEnd ==
    [][pc \notin {"closed", "open"} => CallSteps' \in Nat /\ CallSteps' < CallSteps]_vars

LEMMA NextNearsEnd ==
  ASSUME OpeningInv, Next, pc \notin {"closed", "open"}
  PROVE  CallSteps' \in Nat /\ CallSteps' < CallSteps
  <1> USE DEF DatabaseVersion
  <1>1. /\ version \in 0 .. 5
        /\ version' \in 0 .. 5
    <2>1. OpeningInv'
      BY OpeningInvNext
    <2> QED
      BY <2>1 DEF OpeningInv, TypeOK
  <1>2. /\ MigrationsLeft \in 0 .. 10 /\ MigrationsLeft' \in 0 .. 10
        /\ FilesLeft \in 0 .. 2 /\ FilesLeft' \in 0 .. 2
    <2>1. \A v \in 0 .. 5 : 2 * (4 + 1 - v) \in 0 .. 10
      OBVIOUS
    <2>2. MigrationsLeft \in 0 .. 10
      BY <1>1, <2>1 DEF MigrationsLeft
    <2>3. MigrationsLeft' \in 0 .. 10
      BY <1>1, <2>1 DEF MigrationsLeft
    <2>4. FilesLeft \in 0 .. 2
      BY DEF FilesLeft
    <2>5. FilesLeft' \in 0 .. 2
      BY DEF FilesLeft
    <2> QED
      BY <2>2, <2>3, <2>4, <2>5
  <1>3. pc' \in {"closed", "open"} => CallSteps' = 0
    BY DEF CallSteps
  <1>4. pc \in Steps => CallSteps \in Nat \ {0}
    BY <1>2 DEF CallSteps, Steps
  <1>5. pc' \in {"closed", "open"} => CallSteps' \in Nat /\ CallSteps' < CallSteps
    BY <1>3, <1>4 DEF OpeningInv, TypeOK
  <1>6. CASE Opening
    <2>1. CASE ReadVersion
      <3>1. version' \in 1 .. 5
        BY <1>1, <2>1 DEF ReadVersion
      <3> QED
        BY <1>2, <2>1, <3>1 DEF ReadVersion, CallSteps, MigrationsLeft
    <2>2. CASE RenameProfiles
      BY <1>2, <2>2 DEF RenameProfiles, CallSteps, MigrationsLeft
    <2>3. CASE SetVersion2
      BY <1>1, <1>2, <2>3 DEF SetVersion2, CallSteps, MigrationsLeft
    <2>4. CASE MarkForReindex
      BY <1>1, <1>2, <2>4 DEF MarkForReindex, OldIndexVersions, CallSteps, MigrationsLeft
    <2>5. CASE CreateTables
      BY <1>1, <1>2, <1>5, <2>5 DEF CreateTables, EndWith, CallSteps, MigrationsLeft
    <2>6. CASE OpenPlainDirectory \/ LoadStoreKey \/ CreateNewStore \/ WriteStoreKey
      BY <1>5, <2>6
      DEF OpenPlainDirectory, LoadStoreKey, CreateNewStore, WriteStoreKey, EndWith, CallSteps
    <2>7. CASE OpenIndex
      BY <1>5, <2>7 DEF OpenIndex, CallSteps
    <2>8. CASE RenameFails \/ IndexUnreadable
      BY <1>5, <2>8 DEF RenameFails, IndexUnreadable, EndWith
    <2> QED
      BY <1>6, <2>1, <2>2, <2>3, <2>4, <2>5, <2>6, <2>7, <2>8 DEF Opening
  <1>7. CASE Changing
    BY <1>5, <1>7 DEF Changing, TruncateKeyFile, RewriteKey, Rekey, EndWith, CallSteps
  <1>8. CASE Deleting
    <2>1. ASSUME NEW f \in DeletedFiles, DeleteFile(f) PROVE FilesLeft' < FilesLeft
      BY <2>1, NoKeyFiles, NoIndexes DEF DeleteFile, DeletedFiles, Present, FilesLeft
    <2>2. CASE IndexDeleted
      BY <1>2, <2>2 DEF IndexDeleted, CallSteps
    <2>3. ASSUME NEW f \in DeletedFiles, DeleteFile(f)
          PROVE CallSteps' \in Nat /\ CallSteps' < CallSteps
      BY <1>2, <2>1, <2>3 DEF DeleteFile, CallSteps
    <2> QED
      BY <1>8, <2>2, <2>3 DEF Deleting
  <1>9. CASE Reindexing
    BY <1>5, <1>9 DEF Reindexing, CommitReindex, ClearFlag, EndWith, CallSteps
  <1>10. CASE CloseRecovery \/ Trouble
    BY <1>5, <1>10 DEF CloseRecovery, Trouble, EndWith
  <1>11. ASSUME NEW p \in Config, OpenDatabase(p) \/ OpenRecovery(p) \/ ChangePassphrase(p)
         PROVE FALSE
    BY <1>11 DEF OpenDatabase, OpenRecovery, Unlock, ChangePassphrase
  <1>12. CASE StoreEvents \/ CloseDatabase
    BY <1>12 DEF StoreEvents, CloseDatabase
  <1> QED
    BY <1>6, <1>7, <1>8, <1>9, <1>10, <1>11, <1>12 DEF Next

\* Whatever an earlier crash left on the disk, no call of open, change_passphrase or
\* reindex goes on for ever: the measure behind OpensAgain.
THEOREM CallsRunDown == Spec => CallNearsEnd
  <1>1. OpeningInv /\ [Next]_vars
        => [pc \notin {"closed", "open"} => CallSteps' \in Nat /\ CallSteps' < CallSteps]_vars
    BY NextNearsEnd
  <1> QED
    BY OpeningInvariant, <1>1, PTL DEF Spec, CallNearsEnd

=============================================================================
