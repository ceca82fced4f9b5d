------------------------------ MODULE KeyFiles -------------------------------
(***************************************************************************)
(* interactors/wallet.go: private keys derived from a mnemonic, saved to a *)
(* keystore (.json) and to a .pem file, and loaded again.  A program may   *)
(* end, or a write fail, while a file is being written.                    *)
(*                                                                         *)
(* A key is what derivePrivateKey makes of the mnemonic and a path; bytes  *)
(* are a sequence of 32 byte halves, the key and perhaps its address.  The *)
(* text of a .pem file is a sequence of lines: BEGIN and END name the      *)
(* address, the first two of the three lines between hold the key.  Those  *)
(* lines have the same length for every key.                               *)
(***************************************************************************)
EXTENDS Integers, Sequences

CONSTANTS
    Wallets,        \* pairs of an account and an address index
    Passwords,
    HardenedBit,    \* 0x80000000
    MaxSaves        \* bound on the calls that save

\* BIP32 numbers the keys of an account below the bit; a path sets it by itself
\* and takes an index with the bit for the one without
ASSUME IndexesBelowTheBit ==
    /\ HardenedBit \in Nat \ {0}
    /\ Wallets \subseteq (0..(HardenedBit - 1)) \X (0..(HardenedBit - 1))
    /\ <<0, 0>> \in Wallets

VARIABLES
    jsonFile,       \* Absent, Broken, or a keystore
    pemFile,        \* sequence of lines, <<>> for a file that is empty or missing
    saving,         \* the call that is writing: lines of pemFile or the keystore still to write
    loaded,         \* what the last Load returned
    askedFor,       \* history: the wallets each file was ever asked to hold,
    lastSaved,      \*   the one of the last save that went through,
    cut,            \*   and the number of saves cut short since
    saves

keyVars == <<jsonFile, pemFile, saving, loaded, askedFor, lastSaved, cut, saves>>

Absent == [kind |-> "absent"]
Broken == [kind |-> "broken"]
NoWallet == <<>>
NotLoaded == [file |-> "none", err |-> "none", key |-> NoWallet]
NotSaving == [file |-> "none", rest |-> <<>>, of |-> NoWallet]

-----------------------------------------------------------------------------
(* Keys                                                                    *)

\* an index | hardened, for an unsigned number of twice the range
Hardened(index) == IF index >= HardenedBit THEN index ELSE index + HardenedBit

\* hashing along the path: different paths give different keys
derivePrivateKey(path) == [path |-> path]

GetPrivateKeyFromMnemonic(wallet) ==
    derivePrivateKey(<<Hardened(44), Hardened(508), Hardened(wallet[1]), Hardened(0), Hardened(wallet[2])>>)

GetAddressFromPrivateKey(privateKey) == [address |-> privateKey[1]]

\* what a caller may pass for a wallet: its key, or the key and the address
PrivateKeys(wallet) ==
    LET key == <<GetPrivateKeyFromMnemonic(wallet)>>
    IN  {key, Append(key, GetAddressFromPrivateKey(key))}

-----------------------------------------------------------------------------
(* Saving.  The files are written in place; a keystore is truncated first. *)

\* mutant: the name of the block does not tell keys apart
pemBlockOfAnyKey(privateKey) ==
    LET address == GetAddressFromPrivateKey(privateKey)
        full == IF Len(privateKey) = 1 THEN Append(privateKey, address) ELSE privateKey
    IN  << <<"begin", 0>>, <<"body", full[1]>>, <<"body", full[1]>>, <<"body", full[2]>>, <<"end", 0>> >>

\* 32 bytes are completed to 64 with the address
pemBlock(privateKey) ==
    LET address == GetAddressFromPrivateKey(privateKey)
        full == IF Len(privateKey) = 1 THEN Append(privateKey, address) ELSE privateKey
    IN  << <<"begin", address>>, <<"body", full[1]>>, <<"body", full[1]>>, <<"body", full[2]>>,
           <<"end", address>> >>

keystoreJson(privateKey, password) ==
    [kind |-> "", address |-> GetAddressFromPrivateKey(privateKey), password |-> password,
     text |-> privateKey]

Start(file, wallet, rest) ==
    /\ saving = NotSaving
    /\ saves < MaxSaves
    /\ saves' = saves + 1
    /\ saving' = [file |-> file, rest |-> rest, of |-> wallet]
    /\ askedFor' = [askedFor EXCEPT ![file] = @ \cup {wallet}]
    /\ loaded' = NotLoaded
    /\ UNCHANGED <<lastSaved, cut>>

SavePrivateKeyToPemFile(wallet) ==
    /\ \E privateKey \in PrivateKeys(wallet) : Start("pem", wallet, pemBlock(privateKey))
    /\ UNCHANGED <<jsonFile, pemFile>>

\* os.WriteFile truncates the file when it opens it
SavePrivateKeyToJsonFile(wallet, password) ==
    /\ \E privateKey \in PrivateKeys(wallet) :
        Start("json", wallet, <<keystoreJson(privateKey, password)>>)
    /\ jsonFile' = Broken
    /\ UNCHANGED pemFile

Written == 5 - Len(saving.rest)     \* lines of the block that are in pemFile

\* the file was not truncated: lines behind the new ones stay
WriteLine ==
    /\ saving.file = "pem"
    /\ pemFile' = SubSeq(pemFile, 1, Written) \o <<Head(saving.rest)>>
                    \o SubSeq(pemFile, Written + 2, Len(pemFile))
    /\ UNCHANGED jsonFile

WriteKeystore ==
    /\ saving.file = "json"
    /\ jsonFile' = Head(saving.rest)
    /\ UNCHANGED pemFile

Write ==
    /\ saving # NotSaving
    /\ WriteLine \/ WriteKeystore
    /\ \/ /\ Len(saving.rest) = 1
          /\ saving' = NotSaving
          /\ lastSaved' = [lastSaved EXCEPT ![saving.file] = saving.of]
          /\ cut' = [cut EXCEPT ![saving.file] = 0]
       \/ /\ Len(saving.rest) > 1
          /\ saving' = [saving EXCEPT !.rest = Tail(@)]
          /\ UNCHANGED <<lastSaved, cut>>
    /\ UNCHANGED <<loaded, askedFor, saves>>

\* the program ends, or the write returns an error
Interrupted ==
    /\ saving # NotSaving
    /\ saving' = NotSaving
    /\ cut' = [cut EXCEPT ![saving.file] = @ + 1]
    /\ UNCHANGED <<jsonFile, pemFile, loaded, askedFor, lastSaved, saves>>

-----------------------------------------------------------------------------
(* Loading                                                                 *)

LoadFails(file, err) == [file |-> file, err |-> err, key |-> NoWallet]
Loads(file, key) == [file |-> file, err |-> "none", key |-> key]

\* External: pem.Decode takes the first block whose END line repeats the name
\* of its BEGIN line; lines come in blocks of five
PemBlocks == {i \in 1..(Len(pemFile) \div 5) : pemFile[5 * i - 4][2] = pemFile[5 * i][2]}

\* the first 64 hex digits, which are in the first two lines of the block
LoadPrivateKeyFromPemData ==
    IF PemBlocks = {} THEN LoadFails("pem", "ErrInvalidPemFile")
    ELSE LET i == CHOOSE b \in PemBlocks : \A c \in PemBlocks : b <= c
             first == pemFile[5 * i - 3][2]
             second == pemFile[5 * i - 2][2]
         IN  Loads("pem", IF first = second THEN first ELSE [mixture |-> <<first, second>>])

LoadPrivateKeyFromPemFile ==
    /\ saving = NotSaving
    /\ loaded' = LoadPrivateKeyFromPemData       \* a missing file gives an error as well
    /\ UNCHANGED <<jsonFile, pemFile, saving, askedFor, lastSaved, cut, saves>>

\* more than 32 bytes are cut off
secretKeyAfterChecks(keystore) ==
    LET secretKey == SubSeq(keystore.text, 1, 1)
    IN  IF GetAddressFromPrivateKey(secretKey) # keystore.address
        THEN LoadFails("json", "ErrDifferentAccountRecovered")
        ELSE Loads("json", secretKey[1])

secretKeyFromMnemonic == Loads("json", GetPrivateKeyFromMnemonic(<<0, 0>>))

LoadPrivateKeyFromJsonFile(password) ==
    /\ saving = NotSaving
    /\ loaded' = CASE jsonFile = Absent -> LoadFails("json", "os.ReadFile")
                   [] jsonFile = Broken -> LoadFails("json", "json.Unmarshal")
                   [] jsonFile \notin {Absent, Broken} ->
                        IF jsonFile.password # password THEN LoadFails("json", "ErrWrongPassword")
                        ELSE IF jsonFile.kind = "mnemonic" THEN secretKeyFromMnemonic
                        ELSE secretKeyAfterChecks(jsonFile)
    /\ UNCHANGED <<jsonFile, pemFile, saving, askedFor, lastSaved, cut, saves>>

-----------------------------------------------------------------------------

\* files of other programs may be there: a keystore with a mnemonic, a .pem
\* file with two keys
KeysInit ==
    /\ \/ /\ jsonFile = Absent
          /\ askedFor = [json |-> {}, pem |-> {}]
          /\ lastSaved = [json |-> NoWallet, pem |-> NoWallet]
          /\ pemFile = <<>>
       \/ \E p \in Passwords, w1, w2 \in Wallets :
          /\ jsonFile = [kind |-> "mnemonic", password |-> p]
          /\ askedFor = [json |-> {<<0, 0>>}, pem |-> {w1, w2}]
          /\ lastSaved = [json |-> <<0, 0>>, pem |-> w1]
          /\ pemFile = pemBlock(<<GetPrivateKeyFromMnemonic(w1)>>) \o pemBlock(<<GetPrivateKeyFromMnemonic(w2)>>)
    /\ saving = NotSaving
    /\ loaded = NotLoaded
    /\ cut = [json |-> 0, pem |-> 0]
    /\ saves = 0

KeysNext ==
    \/ \E w \in Wallets : SavePrivateKeyToPemFile(w)
    \/ \E w \in Wallets, p \in Passwords : SavePrivateKeyToJsonFile(w, p)
    \/ Write \/ Interrupted
    \/ LoadPrivateKeyFromPemFile
    \/ \E p \in Passwords : LoadPrivateKeyFromJsonFile(p)

KeysSpec == KeysInit /\ [][KeysNext]_keyVars

(* A key that is loaded is the key of a wallet the file was asked to hold, *)
(* and of no other wallet, although .pem files are overwritten in place    *)
(* and a save may be cut short: the name of the block gives away a file    *)
(* that is half new.  After two saves cut short in a row it does not.      *)
(* When the last save went through, its key is loaded unless the password  *)
(* is wrong.                                                               *)
KeysComeBack ==
    LET file == loaded.file
        owners == {w \in Wallets : GetPrivateKeyFromMnemonic(w) = loaded.key}
    IN  file # "none" =>
            /\ loaded.err = "none" /\ (file = "pem" => cut["pem"] <= 1) =>
                   \E w \in askedFor[file] : owners = {w}
            /\ cut[file] = 0 /\ lastSaved[file] # NoWallet /\ loaded.err # "ErrWrongPassword" =>
                   owners = {lastSaved[file]}
==============================================================================
