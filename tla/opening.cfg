SPECIFICATION LiveSpec
CONSTANTS
    p1 = p1
    p2 = p2
    k1 = k1
    k2 = k2
    Passphrases <- MCPassphrases
    Plain = Plain
    Unset = Unset
    Keys <- MCKeys
    MaxTrouble = 2
    MaxChanges = 1
INVARIANTS
    OpeningInv
    OpenIndexReadable
    MigratedIndexComplete
    OnePassphrase
    EventsUnlockable
PROPERTIES
    OpensAgain
