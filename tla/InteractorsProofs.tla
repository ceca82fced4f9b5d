-------------------------- MODULE InteractorsProofs --------------------------
(***************************************************************************)
(* Proofs about TransactionWorker, for any set of requests and nonces, and *)
(* about the files with private keys, for any wallets, any passwords and   *)
(* any number of saves that are cut short.  The two share no state; each   *)
(* has a specification of its own.                                         *)
(***************************************************************************)
EXTENDS TransactionWorker, KeyFiles, TLAPS

-----------------------------------------------------------------------------
(* The files with private keys: interactors/wallet.go                      *)

Key(w) == GetPrivateKeyFromMnemonic(w)
Addr(w) == [address |-> Key(w)]
Block(w) == pemBlock(<<Key(w)>>)

\* the provers calculate with a length better when they do not see that it is one
Size(s) == Len(s)

Lines == UNION {{Block(w)[i] : i \in 1..5} : w \in Wallets}

\* the first k of five lines are those of a wallet whose save was cut short,
\* the others those of the last save that went through, if there was one
Mixed(file, w, k, last) ==
    /\ k <= Size(file)
    /\ \A i \in 1..k : file[i] = Block(w)[i]
    /\ last = NoWallet => Size(file) = k
    /\ last # NoWallet => Size(file) >= 5 /\ \A i \in (k + 1)..5 : file[i] = Block(last)[i]

\* the lines still to write, and those already written, of the block of a wallet
Half(file, of, rest) ==
    /\ rest \in Seq(Lines) /\ Size(rest) \in 1..5
    /\ \A j \in 1..Size(rest) : rest[j] = Block(of)[5 - Size(rest) + j]
    /\ 5 - Size(rest) <= Size(file)
    /\ \A i \in 1..(5 - Size(rest)) : file[i] = Block(of)[i]

\* a file has part of one block, one block, or two of which the second stays
PemFile(file, asked) ==
    /\ file \in Seq(Lines)
    /\ Size(file) \in (0..5) \cup {10}
    /\ Size(file) = 10 => \E w \in asked : \A i \in 1..5 : file[5 + i] = Block(w)[i]

PemInv(file, asked, last, cuts, save) ==
    /\ PemFile(file, asked)
    /\ save.file = "pem" => Half(file, save.of, save.rest)
    /\ save.file = "pem" /\ cuts = 0 => Mixed(file, save.of, 5 - Size(save.rest), last)
    /\ save.file # "pem" /\ cuts = 0 => Mixed(file, <<0, 0>>, 0, last)
    /\ save.file # "pem" /\ cuts = 1 => \E w \in asked, k \in 0..4 : Mixed(file, w, k, last)

HoldsKey(file, w) ==
    \/ w = <<0, 0>> /\ \E p \in Passwords : file = [kind |-> "mnemonic", password |-> p]
    \/ \E privateKey \in PrivateKeys(w), p \in Passwords : file = keystoreJson(privateKey, p)

JsonInv(file, asked, last, cuts, save) ==
    /\ file \in {Absent, Broken} \/ \E w \in asked : HoldsKey(file, w)
    /\ save.file = "json" => \E privateKey \in PrivateKeys(save.of), p \in Passwords :
                                save.rest = <<keystoreJson(privateKey, p)>>
    /\ save.file # "json" /\ cuts = 0 /\ last # NoWallet => HoldsKey(file, last)

SaveShape(save, asked) ==
    /\ save = [file |-> save.file, rest |-> save.rest, of |-> save.of]
    /\ save.file \in {"none", "json", "pem"}
    /\ save.file = "none" => save = NotSaving
    /\ save.file # "none" => save.of \in asked[save.file]

HistoryShape(asked, last, cuts) ==
    /\ asked = [json |-> asked["json"], pem |-> asked["pem"]]
    /\ last = [json |-> last["json"], pem |-> last["pem"]]
    /\ cuts = [json |-> cuts["json"], pem |-> cuts["pem"]]
    /\ \A f \in {"json", "pem"} : /\ asked[f] \subseteq Wallets
                                  /\ last[f] \in asked[f] \cup {NoWallet}
                                  /\ cuts[f] \in Nat

KeysInv ==
    /\ HistoryShape(askedFor, lastSaved, cut)
    /\ SaveShape(saving, askedFor)
    /\ PemInv(pemFile, askedFor["pem"], lastSaved["pem"], cut["pem"], saving)
    /\ JsonInv(jsonFile, askedFor["json"], lastSaved["json"], cut["json"], saving)
    /\ saving # NotSaving => loaded = NotLoaded
    /\ KeysComeBack

\* derivePrivateKey sets the bit in every index: below it, different wallets have different keys
LEMMA KeysDiffer ==
    ASSUME NEW w \in Wallets, NEW v \in Wallets, Key(w) = Key(v)
    PROVE  w = v
  <1>1. ASSUME NEW u \in Wallets
        PROVE  /\ u = <<u[1], u[2]>> /\ u[1] \in Nat /\ u[2] \in Nat
               /\ Hardened(u[1]) = u[1] + HardenedBit /\ Hardened(u[2]) = u[2] + HardenedBit
    BY IndexesBelowTheBit DEF Hardened
  <1>2. ASSUME NEW u \in Wallets
        PROVE  Key(u).path[3] = Hardened(u[1]) /\ Key(u).path[5] = Hardened(u[2])
    BY Zenon DEF Key, GetPrivateKeyFromMnemonic, derivePrivateKey
  <1>3. w[1] + HardenedBit = v[1] + HardenedBit /\ w[2] + HardenedBit = v[2] + HardenedBit
    BY <1>1, <1>2
  <1>4. w[1] = v[1] /\ w[2] = v[2]
    BY <1>1, <1>3, IndexesBelowTheBit
  <1> QED BY <1>1, <1>4, Zenon

LEMMA OwnersOfAKey ==
    ASSUME NEW w \in Wallets
    PROVE  {v \in Wallets : GetPrivateKeyFromMnemonic(v) = Key(w)} = {w}
  <1>1. \A v \in Wallets : GetPrivateKeyFromMnemonic(v) = Key(v)
    BY Zenon DEF Key
  <1> QED BY <1>1, KeysDiffer, Zenon

LEMMA NoWalletIsNone == NoWallet \notin Wallets
  <1>1. \A w \in Wallets : w = <<w[1], w[2]>>
    BY IndexesBelowTheBit
  <1>2. Len(NoWallet) = 0
    BY Zenon DEF NoWallet
  <1>3. \A w \in Wallets : Len(w) = 2
    <2> TAKE w \in Wallets
    <2>1. Len(<<w[1], w[2]>>) = 2
      BY Zenon
    <2> QED BY <1>1, <2>1, Zenon
  <1> QED BY <1>2, <1>3

\* what is used of sequences
LEMMA SameSeq ==
    ASSUME NEW S, NEW s \in Seq(S), NEW t \in Seq(S), Len(s) = Len(t),
           \A i \in 1..Len(s) : s[i] = t[i]
    PROVE  s = t
  OBVIOUS

LEMMA Appended ==
    ASSUME NEW S, NEW s \in Seq(S), NEW e \in S
    PROVE  /\ Append(s, e) \in Seq(S) /\ Len(Append(s, e)) = Len(s) + 1
           /\ \A i \in 1..Len(s) : Append(s, e)[i] = s[i]
           /\ Append(s, e)[Len(s) + 1] = e
  OBVIOUS

LEMMA FirstOfASeq ==
    ASSUME NEW S, NEW s, s[1] \in S
    PROVE  /\ SubSeq(s, 1, 1) \in Seq(S) /\ Len(SubSeq(s, 1, 1)) = 1
           /\ SubSeq(s, 1, 1)[1] = s[1]
  OBVIOUS

\* a key, and a key completed with its address
LEMMA OneAndTwo ==
    ASSUME NEW a, NEW b
    PROVE  /\ Append(<<a>>, b) = <<a, b>>
           /\ Len(<<a>>) = 1 /\ Len(<<a, b>>) = 2
           /\ SubSeq(<<a>>, 1, 1) = <<a>> /\ SubSeq(<<a, b>>, 1, 1) = <<a>>
  <1> DEFINE S == {a, b}
  <1>1. <<a>> \in Seq(S) /\ <<a, b>> \in Seq(S) /\ Len(<<a>>) = 1 /\ Len(<<a, b>>) = 2
    OBVIOUS
  <1>2. Append(<<a>>, b) = <<a, b>>
    <2>1. /\ Append(<<a>>, b) \in Seq(S) /\ Len(Append(<<a>>, b)) = 2
          /\ Append(<<a>>, b)[1] = a /\ Append(<<a>>, b)[2] = b
      BY <1>1, Appended
    <2> DEFINE p == Append(<<a>>, b)
               q == <<a, b>>
    <2>2. \A i \in 1..2 : i = 1 \/ i = 2
      OBVIOUS
    <2>3. q[1] = a /\ q[2] = b
      BY Zenon
    <2>4. Len(p) = Len(q) /\ p \in Seq(S) /\ q \in Seq(S)
      BY <1>1, <2>1, Zenon
    <2> HIDE DEF p, q
    <2>5. \A i \in 1..Len(p) : p[i] = q[i]
      BY <1>1, <2>1, <2>2, <2>3, Zenon DEF p
    <2>6. p = q
      BY <2>4, <2>5, SameSeq, Zenon
    <2> QED BY <2>6, Zenon DEF p, q
  <1>3. ASSUME NEW s \in Seq(S), s[1] = a PROVE SubSeq(s, 1, 1) = <<a>>
    <2>1. \A i \in 1..1 : s[i] \in S
      BY <1>3
    <2>2. SubSeq(s, 1, 1) \in Seq(S) /\ Len(SubSeq(s, 1, 1)) = 1 /\ SubSeq(s, 1, 1)[1] = a
      BY <1>3, <2>1, FirstOfASeq
    <2> DEFINE p == SubSeq(s, 1, 1)
               q == <<a>>
    <2>3. q[1] = a /\ Len(p) = Len(q) /\ p \in Seq(S) /\ q \in Seq(S)
      BY <1>1, <2>2, Zenon
    <2>4. Len(p) = 1 /\ p[1] = a
      BY <2>2, Zenon
    <2> HIDE DEF p, q, S
    <2>5. \A i \in 1..Len(p) : p[i] = q[i]
      BY <2>3, <2>4
    <2>6. p = q
      BY <2>3, <2>5, SameSeq, Zenon
    <2> QED BY <2>6, Zenon DEF p, q
  <1> QED BY <1>1, <1>2, <1>3, Zenon

LEMMA BlockIs ==
    ASSUME NEW w
    PROVE  Block(w) = << <<"begin", Addr(w)>>, <<"body", Key(w)>>, <<"body", Key(w)>>,
                         <<"body", Addr(w)>>, <<"end", Addr(w)>> >>
  <1> DEFINE k == Key(w)
  <1>1. GetAddressFromPrivateKey(<<k>>) = Addr(w)
    BY Zenon DEF GetAddressFromPrivateKey, Addr
  <1>2. Len(<<k>>) = 1 /\ Append(<<k>>, Addr(w)) = <<k, Addr(w)>>
    BY OneAndTwo, Zenon
  <1> HIDE DEF k
  <1> QED BY <1>1, <1>2 DEF Block, pemBlock, k

LEMMA BlockLines ==
    ASSUME NEW w
    PROVE  /\ Len(Block(w)) = 5 /\ DOMAIN Block(w) = 1..5
           /\ Block(w)[1][2] = Addr(w) /\ Block(w)[5][2] = Addr(w)
           /\ Block(w)[2][2] = Key(w) /\ Block(w)[3][2] = Key(w)
  BY BlockIs

LEMMA BlockInLines ==
    ASSUME NEW w \in Wallets
    PROVE  Block(w) \in Seq(Lines) /\ \A i \in 1..5 : Block(w)[i] \in Lines
  <1>1. \A i \in 1..5 : Block(w)[i] \in Lines
    BY DEF Lines
  <1>2. Block(w) = [i \in 1..5 |-> Block(w)[i]]
    BY BlockIs
  <1> QED BY <1>1, <1>2

\* 32 bytes or 64: the block is the same
LEMMA KeysOfAWallet ==
    ASSUME NEW w, NEW privateKey \in PrivateKeys(w)
    PROVE  /\ pemBlock(privateKey) = Block(w)
           /\ SubSeq(privateKey, 1, 1) = <<Key(w)>>
           /\ GetAddressFromPrivateKey(privateKey) = Addr(w)
  <1> DEFINE k == Key(w)
  <1>1. GetAddressFromPrivateKey(<<k>>) = Addr(w) /\ GetAddressFromPrivateKey(<<k, Addr(w)>>) = Addr(w)
    BY Zenon DEF GetAddressFromPrivateKey, Addr
  <1>2. Append(<<k>>, Addr(w)) = <<k, Addr(w)>> /\ Len(<<k>>) = 1 /\ Len(<<k, Addr(w)>>) = 2
    BY OneAndTwo, Zenon
  <1>3. privateKey = <<k>> \/ privateKey = <<k, Addr(w)>>
    BY <1>1, <1>2, Zenon DEF PrivateKeys, Key
  <1>4. SubSeq(<<k>>, 1, 1) = <<k>> /\ SubSeq(<<k, Addr(w)>>, 1, 1) = <<k>>
    BY OneAndTwo, Zenon
  <1> HIDE DEF k
  <1>5. pemBlock(<<k, Addr(w)>>) = pemBlock(<<k>>)
    BY <1>1, <1>2 DEF pemBlock
  <1>6. CASE privateKey = <<k>>
    BY <1>1, <1>4, <1>6, Zenon DEF Block, k
  <1>7. CASE privateKey = <<k, Addr(w)>>
    BY <1>1, <1>4, <1>5, <1>7, Zenon DEF Block, k
  <1> QED BY <1>3, <1>6, <1>7, Zenon

Part(s, m, n) == SubSeq(s, m, n)
Over(s, n, line) == Part(s, 1, n) \o <<line>> \o Part(s, n + 2, Size(s))

LEMMA SizeOfASeq ==
    ASSUME NEW S, NEW s \in Seq(S)
    PROVE  Size(s) \in Nat /\ \A i \in 1..Size(s) : s[i] \in S
  BY DEF Size

LEMMA TwoSeqs ==
    ASSUME NEW S, NEW s \in Seq(S), NEW t \in Seq(S)
    PROVE  /\ s \o t \in Seq(S) /\ Size(s \o t) = Size(s) + Size(t)
           /\ \A i \in 1..(Size(s) + Size(t)) : (s \o t)[i] = IF i <= Size(s) THEN s[i] ELSE t[i - Size(s)]
  BY DEF Size

LEMMA PartOfASeq ==
    ASSUME NEW S, NEW s, NEW m \in Int, NEW n \in Int, \A i \in m..n : s[i] \in S
    PROVE  /\ Part(s, m, n) \in Seq(S)
           /\ Size(Part(s, m, n)) = IF m <= n THEN n - m + 1 ELSE 0
           /\ \A i \in 1..(n - m + 1) : Part(s, m, n)[i] = s[m + i - 1]
  BY DEF Size, Part

LEMMA RestOfASeq ==
    ASSUME NEW S, NEW s \in Seq(S), Size(s) # 0
    PROVE  /\ Head(s) = s[1] /\ Tail(s) \in Seq(S) /\ Size(Tail(s)) = Size(s) - 1
           /\ \A i \in 1..(Size(s) - 1) : Tail(s)[i] = s[i + 1]
  <1>1. s # <<>>
    BY DEF Size
  <1>2. /\ Tail(s) \in Seq(S) /\ Len(Tail(s)) = Len(s) - 1
        /\ \A i \in 1..Len(Tail(s)) : Tail(s)[i] = s[i + 1]
    BY <1>1
  <1>3. Head(s) = s[1]
    OBVIOUS
  <1> QED BY <1>2, <1>3, Zenon DEF Size

\* a line is written over the one in its place, or behind the last
LEMMA Overwritten ==
    ASSUME NEW s \in Seq(Lines), NEW n \in Nat, n <= Size(s), NEW line \in Lines,
           NEW r, r = Over(s, n, line)
    PROVE  /\ r \in Seq(Lines)
           /\ Size(r) = IF n < Size(s) THEN Size(s) ELSE n + 1
           /\ \A i \in 1..Size(r) : r[i] = IF i = n + 1 THEN line ELSE s[i]
  <1> DEFINE before == Part(s, 1, n)
             behind == Part(s, n + 2, Size(s))
             half == before \o <<line>>
  <1>1. Size(s) \in Nat /\ \A i \in 1..Size(s) : s[i] \in Lines
    BY SizeOfASeq, Zenon
  <1>2. before \in Seq(Lines) /\ Size(before) = n /\ \A i \in 1..n : before[i] = s[i]
    <2>1. \A i \in 1..n : s[i] \in Lines
      BY <1>1
    <2>2. n \in Int /\ 1 \in Int
      OBVIOUS
    <2>3. /\ before \in Seq(Lines)
          /\ Size(before) = IF 1 <= n THEN n - 1 + 1 ELSE 0
          /\ \A i \in 1..(n - 1 + 1) : before[i] = s[1 + i - 1]
      BY <2>1, <2>2, PartOfASeq
    <2> HIDE DEF before
    <2> QED BY <2>3
  <1>3. /\ behind \in Seq(Lines)
        /\ Size(behind) = IF n < Size(s) THEN Size(s) - (n + 1) ELSE 0
        /\ \A i \in 1..Size(behind) : behind[i] = s[n + 1 + i]
    <2>1. \A i \in (n + 2)..Size(s) : s[i] \in Lines
      BY <1>1
    <2>2. n + 2 \in Int /\ Size(s) \in Int
      BY <1>1
    <2>3. /\ behind \in Seq(Lines)
          /\ Size(behind) = IF n + 2 <= Size(s) THEN Size(s) - (n + 2) + 1 ELSE 0
          /\ \A i \in 1..(Size(s) - (n + 2) + 1) : behind[i] = s[n + 2 + i - 1]
      BY <2>1, <2>2, PartOfASeq
    <2> HIDE DEF behind
    <2> QED BY <1>1, <2>3
  <1> HIDE DEF before, behind
  <1>4. <<line>> \in Seq(Lines) /\ Size(<<line>>) = 1 /\ (<<line>>)[1] = line
    BY DEF Size
  <1>5. /\ half \in Seq(Lines) /\ Size(half) = n + 1
        /\ \A i \in 1..(n + 1) : half[i] = IF i <= n THEN s[i] ELSE line
    <2>1. /\ half \in Seq(Lines) /\ Size(half) = Size(before) + Size(<<line>>)
          /\ \A i \in 1..(Size(before) + Size(<<line>>)) :
                half[i] = IF i <= Size(before) THEN before[i] ELSE (<<line>>)[i - Size(before)]
      BY <1>2, <1>4, TwoSeqs, Zenon
    <2> HIDE DEF half
    <2>2. \A i \in 1..(n + 1) : i <= n \/ i - n = 1
      OBVIOUS
    <2> QED BY <1>2, <1>4, <2>1, <2>2
  <1>6. r = half \o behind
    BY Zenon DEF half, before, behind, Over
  <1> HIDE DEF half
  <1>7. /\ r \in Seq(Lines) /\ Size(r) = n + 1 + Size(behind)
        /\ \A i \in 1..(n + 1 + Size(behind)) : r[i] = IF i <= n + 1 THEN half[i] ELSE behind[i - (n + 1)]
    <2>1. behind \in Seq(Lines) /\ half \in Seq(Lines) /\ Size(half) = n + 1
      BY <1>3, <1>5, Zenon
    <2>2. /\ half \o behind \in Seq(Lines) /\ Size(half \o behind) = Size(half) + Size(behind)
          /\ \A i \in 1..(Size(half) + Size(behind)) :
                (half \o behind)[i] = IF i <= Size(half) THEN half[i] ELSE behind[i - Size(half)]
      BY <2>1, TwoSeqs, Zenon
    <2> QED BY <1>6, <2>1, <2>2, Zenon
  <1>8. Size(behind) \in Nat
    BY <1>1, <1>3
  <1>9. Size(r) = IF n < Size(s) THEN Size(s) ELSE n + 1
    BY <1>1, <1>3, <1>7
  <1>10. ASSUME NEW i \in 1..Size(r) PROVE r[i] = IF i = n + 1 THEN line ELSE s[i]
    <2>1. CASE i <= n + 1
      BY <1>5, <1>7, <1>8, <2>1
    <2>2. CASE ~(i <= n + 1)
      <3>1. Size(r) = n + 1 + Size(behind)
        BY <1>7, Zenon
      <3>2. /\ i \in 1..(n + 1 + Size(behind)) /\ i # n + 1
            /\ i - (n + 1) \in 1..Size(behind) /\ n + 1 + (i - (n + 1)) = i
        BY <1>8, <2>2, <3>1
      <3>3. r[i] = behind[i - (n + 1)]
        BY <1>7, <2>2, <3>2, Zenon
      <3>4. behind[i - (n + 1)] = s[n + 1 + (i - (n + 1))]
        BY <1>3, <3>2, Zenon
      <3> QED BY <3>2, <3>3, <3>4, Zenon
    <2> QED BY <2>1, <2>2, Zenon
  <1> QED BY <1>7, <1>9, <1>10, Zenon

\* a save begins
LEMMA PemStarts ==
    ASSUME NEW file, NEW asked, NEW last, NEW cuts, NEW save, NEW of \in Wallets, NEW start,
           PemInv(file, asked, last, cuts, save), save.file # "pem",
           start.file = "pem", start.of = of, start.rest = Block(of)
    PROVE  PemInv(file, asked \cup {of}, last, cuts, start)
  <1>1. PemFile(file, asked \cup {of})
    BY Zenon DEF PemInv, PemFile
  <1>2. Size(file) \in Nat
    BY SizeOfASeq, Zenon DEF PemInv, PemFile
  <1>3. Half(file, of, Block(of))
    <2>1. Size(Block(of)) = 5 /\ Block(of) \in Seq(Lines)
      BY BlockLines, BlockInLines, Zenon DEF Size
    <2> QED BY <1>2, <2>1 DEF Half
  <1>4. cuts = 0 => Mixed(file, of, 5 - Size(Block(of)), last)
    <2>1. 5 - Size(Block(of)) = 0
      BY BlockLines DEF Size
    <2> QED BY <2>1 DEF PemInv, Mixed
  <1> QED BY <1>1, <1>3, <1>4, Zenon DEF PemInv

\* the other file is saved, or nothing happens here
LEMMA PemStays ==
    ASSUME NEW file, NEW asked, NEW last, NEW cuts, NEW save, NEW save2,
           PemInv(file, asked, last, cuts, save), save.file # "pem", save2.file # "pem"
    PROVE  PemInv(file, asked, last, cuts, save2)
  BY Zenon DEF PemInv

\* a line is written, the others stay
LineWritten(file, file2, of, rest, asked) ==
    /\ PemFile(file2, asked)
    /\ Size(file2) = IF 5 - Size(rest) < Size(file) THEN Size(file) ELSE 6 - Size(rest)
    /\ \A i \in 1..(6 - Size(rest)) : file2[i] = Block(of)[i]
    /\ \A i \in (7 - Size(rest))..Size(file2) : file2[i] = file[i]

LEMMA PemLine ==
    ASSUME NEW file, NEW of \in Wallets, NEW rest, NEW asked,
           PemFile(file, asked), Half(file, of, rest),
           NEW line, line = rest[1], NEW file2, file2 = Over(file, 5 - Size(rest), line)
    PROVE  LineWritten(file, file2, of, rest, asked)
  <1> DEFINE n == 5 - Size(rest)
  <1>1. /\ Size(rest) \in 1..5 /\ n \in 0..4 /\ n <= Size(file)
        /\ file \in Seq(Lines) /\ Size(file) \in Nat /\ rest \in Seq(Lines)
    <2>1. Size(rest) \in 1..5 /\ rest \in Seq(Lines) /\ 5 - Size(rest) <= Size(file)
      BY Zenon DEF Half
    <2>2. file \in Seq(Lines)
      BY Zenon DEF PemFile
    <2>3. Size(file) \in Nat
      BY <2>2, SizeOfASeq, Zenon
    <2>4. n \in 0..4
      BY <2>1
    <2> QED BY <2>1, <2>2, <2>3, <2>4, Zenon
  <1>2. line = Block(of)[n + 1] /\ line \in Lines
    <2>1. rest \in Seq(Lines) /\ \A j \in 1..Size(rest) : rest[j] = Block(of)[n + j]
      BY Zenon DEF Half
    <2>2. Size(rest) # 0 /\ 1 \in 1..Size(rest)
      BY <1>1
    <2>3. \A i \in 1..Size(rest) : rest[i] \in Lines
      BY <2>1, SizeOfASeq, Zenon
    <2> QED BY <2>1, <2>2, <2>3, Zenon
  <1>3. n + 1 = 6 - Size(rest) /\ n + 2 = 7 - Size(rest)
    BY <1>1
  <1> HIDE DEF n
  <1>4. n \in Nat /\ file2 = Over(file, n, line)
    BY <1>1 DEF n
  <1>5. /\ file2 \in Seq(Lines)
        /\ Size(file2) = IF n < Size(file) THEN Size(file) ELSE n + 1
        /\ \A i \in 1..Size(file2) : file2[i] = IF i = n + 1 THEN line ELSE file[i]
    <2>1. file \in Seq(Lines) /\ n <= Size(file) /\ line \in Lines
      BY <1>1, <1>2, Zenon
    <2>2. /\ Over(file, n, line) \in Seq(Lines)
          /\ Size(Over(file, n, line)) = IF n < Size(file) THEN Size(file) ELSE n + 1
          /\ \A i \in 1..Size(Over(file, n, line)) :
                Over(file, n, line)[i] = IF i = n + 1 THEN line ELSE file[i]
      BY <1>4, <2>1, Overwritten
    <2> QED BY <1>4, <2>2, Zenon
  <1>6. \A i \in 1..n : file[i] = Block(of)[i]
    BY Zenon DEF Half, n
  <1>7. \A i \in 1..(n + 1) : i \in 1..Size(file2) /\ file2[i] = Block(of)[i]
    <2> TAKE i \in 1..(n + 1)
    <2>1. i \in 1..Size(file2)
      BY <1>1, <1>5
    <2>2. CASE i = n + 1
      BY <1>2, <1>5, <2>1, <2>2, Zenon
    <2>3. CASE i # n + 1
      <3>1. i \in 1..n
        BY <1>4, <2>3
      <3> QED BY <1>5, <1>6, <2>1, <2>3, <3>1, Zenon
    <2> QED BY <2>2, <2>3, Zenon
  <1>8. \A i \in (n + 2)..Size(file2) : file2[i] = file[i]
    <2> TAKE i \in (n + 2)..Size(file2)
    <2>1. i \in 1..Size(file2) /\ i # n + 1
      BY <1>1, <1>5
    <2> QED BY <1>5, <2>1, Zenon
  <1>9. Size(file2) \in (0..5) \cup {10} /\ (Size(file2) = 10 => Size(file) = 10)
    BY <1>1, <1>5 DEF PemFile
  <1>10. Size(file2) = 10 => \E w \in asked : \A i \in 1..5 : file2[5 + i] = Block(w)[i]
    <2> SUFFICES ASSUME Size(file2) = 10
                 PROVE  \E w \in asked : \A i \in 1..5 : file2[5 + i] = Block(w)[i]
      BY Zenon
    <2>1. PICK w \in asked : \A i \in 1..5 : file[5 + i] = Block(w)[i]
      BY <1>9, Zenon DEF PemFile
    <2>2. \A i \in 1..5 : 5 + i \in (n + 2)..Size(file2)
      BY <1>1
    <2>3. \A i \in 1..5 : file2[5 + i] = Block(w)[i]
      BY <1>8, <2>1, <2>2, Zenon
    <2> QED BY <2>3, Zenon
  <1>11. PemFile(file2, asked)
    BY <1>5, <1>9, <1>10, Zenon DEF PemFile
  <1>12. n = 5 - Size(rest)
    BY Zenon DEF n
  <1> QED BY <1>3, <1>5, <1>7, <1>8, <1>11, <1>12, Zenon DEF LineWritten

\* the last line: the save goes through
LEMMA PemEnds ==
    ASSUME NEW file, NEW asked, NEW last, NEW cuts, NEW save, NEW file2, NEW end,
           PemInv(file, asked, last, cuts, save), save.file = "pem", save.of \in Wallets,
           Size(save.rest) = 1, end.file # "pem",
           NEW line, line = save.rest[1], file2 = Over(file, 5 - Size(save.rest), line)
    PROVE  PemInv(file2, asked, save.of, 0, end)
  <1>1. PemFile(file, asked) /\ Half(file, save.of, save.rest)
    BY Zenon DEF PemInv
  <1>2. /\ PemFile(file2, asked)
        /\ Size(file2) = IF 5 - Size(save.rest) < Size(file) THEN Size(file) ELSE 6 - Size(save.rest)
        /\ \A i \in 1..(6 - Size(save.rest)) : file2[i] = Block(save.of)[i]
    <2>1. LineWritten(file, file2, save.of, save.rest, asked)
      BY <1>1, PemLine, Zenon
    <2> QED BY <2>1, Zenon DEF LineWritten
  <1>3. Size(file) \in Nat
    BY <1>1, SizeOfASeq, Zenon DEF PemFile
  <1>4. Size(file2) \in Nat /\ Size(file2) >= 5 /\ \A i \in 1..5 : file2[i] = Block(save.of)[i]
    BY <1>2, <1>3
  <1>5. Mixed(file2, <<0, 0>>, 0, save.of)
    BY <1>4, NoWalletIsNone DEF Mixed
  <1> QED BY <1>2, <1>5 DEF PemInv

\* one more line, not the last
LEMMA PemGoesOn ==
    ASSUME NEW file, NEW asked, NEW last, NEW cuts, NEW save, NEW file2, NEW next,
           PemInv(file, asked, last, cuts, save), save.file = "pem", save.of \in Wallets,
           Size(save.rest) > 1, next.file = "pem", next.of = save.of, next.rest = Tail(save.rest),
           NEW line, line = save.rest[1], file2 = Over(file, 5 - Size(save.rest), line)
    PROVE  PemInv(file2, asked, last, cuts, next)
  <1> DEFINE rest == save.rest
             of == save.of
             m == Size(rest)
  <1>1. PemFile(file, asked) /\ Half(file, of, rest)
    BY Zenon DEF PemInv
  <1>2. rest \in Seq(Lines) /\ m \in 2..5 /\ \A j \in 1..m : rest[j] = Block(of)[5 - m + j]
    BY <1>1 DEF Half
  <1>3. /\ PemFile(file2, asked)
        /\ Size(file2) = IF 5 - m < Size(file) THEN Size(file) ELSE 6 - m
        /\ \A i \in 1..(6 - m) : file2[i] = Block(of)[i]
        /\ \A i \in (7 - m)..Size(file2) : file2[i] = file[i]
    <2>1. LineWritten(file, file2, of, rest, asked)
      BY <1>1, PemLine, Zenon
    <2> QED BY <2>1, Zenon DEF LineWritten
  <1>4. Size(file) \in Nat /\ 5 - m <= Size(file)
    BY <1>1, SizeOfASeq, Zenon DEF PemFile, Half
  <1>5. /\ Tail(rest) \in Seq(Lines) /\ Size(Tail(rest)) = m - 1
        /\ \A i \in 1..(m - 1) : Tail(rest)[i] = rest[i + 1]
    <2>1. Size(rest) # 0 /\ rest \in Seq(Lines)
      BY <1>2
    <2> QED BY <2>1, RestOfASeq, Zenon
  <1> HIDE DEF m, of, rest
  <1>6. 5 - (m - 1) = 6 - m /\ 6 - m \in 1..4
    BY <1>2
  <1>7. Half(file2, of, Tail(rest))
    <2>1. \A j \in 1..(m - 1) : Tail(rest)[j] = Block(of)[6 - m + j]
      <3> TAKE j \in 1..(m - 1)
      <3>1. j + 1 \in 1..m /\ 5 - m + (j + 1) = 6 - m + j
        BY <1>2
      <3> QED BY <1>2, <1>5, <3>1, Zenon
    <2>2. 6 - m <= Size(file2)
      BY <1>2, <1>3, <1>4
    <2>3. m - 1 \in 1..5
      BY <1>2
    <2> DEFINE t == Tail(rest)
               k == Size(t)
    <2>4. k = m - 1 /\ 5 - k = 6 - m
      BY <1>2, <1>5
    <2>5. t \in Seq(Lines) /\ k \in 1..5 /\ 5 - k <= Size(file2)
      BY <1>5, <2>2, <2>3, <2>4, Zenon
    <2>6. \A j \in 1..(m - 1) : t[j] = Block(of)[6 - m + j]
      BY <2>1, Zenon
    <2> HIDE DEF t, k
    <2>7. \A j \in 1..k : t[j] = Block(of)[5 - k + j]
      BY <2>4, <2>6, Zenon
    <2>8. \A i \in 1..(5 - k) : file2[i] = Block(of)[i]
      BY <1>3, <2>4, Zenon
    <2> QED BY <2>5, <2>7, <2>8, Zenon DEF Half, t, k
  <1>8. ASSUME cuts = 0 PROVE Mixed(file2, of, 6 - m, last)
    <2>1. Mixed(file, of, 5 - m, last)
      BY <1>8, Zenon DEF PemInv, m, of, rest
    <2>2. 6 - m <= Size(file2)
      BY <1>2, <1>3, <1>4
    <2>3. last = NoWallet => Size(file2) = 6 - m
      BY <1>2, <1>3, <2>1 DEF Mixed
    <2>4. ASSUME last # NoWallet
          PROVE  Size(file2) >= 5 /\ \A i \in (6 - m + 1)..5 : file2[i] = Block(last)[i]
      <3>1. Size(file) >= 5 /\ \A i \in (5 - m + 1)..5 : file[i] = Block(last)[i]
        BY <2>1, <2>4, Zenon DEF Mixed
      <3>2. Size(file2) = Size(file)
        BY <1>2, <1>3, <1>4, <3>1
      <3>3. \A i \in (6 - m + 1)..5 : i \in (5 - m + 1)..5 /\ i \in (7 - m)..Size(file2)
        BY <1>2, <1>4, <3>1, <3>2
      <3> QED BY <1>3, <3>1, <3>2, <3>3, Zenon
    <2> QED BY <1>3, <2>2, <2>3, <2>4, Zenon DEF Mixed
  <1>9. 5 - Size(next.rest) = 6 - m
    BY <1>5, <1>6, Zenon DEF rest
  <1> QED BY <1>3, <1>7, <1>8, <1>9, Zenon DEF PemInv, of, rest

\* the program ends while it writes
LEMMA PemInterrupted ==
    ASSUME NEW file, NEW asked, NEW last, NEW cuts \in Nat, NEW save, NEW end,
           PemInv(file, asked, last, cuts, save), save.file = "pem", save.of \in asked, end.file # "pem"
    PROVE  PemInv(file, asked, last, cuts + 1, end)
  <1>1. PemFile(file, asked) /\ 5 - Size(save.rest) \in 0..4
    BY DEF PemInv, Half
  <1>2. cuts + 1 = 1 => Mixed(file, save.of, 5 - Size(save.rest), last)
    BY DEF PemInv
  <1> QED BY <1>1, <1>2 DEF PemInv

LEMMA SmallestIs ==
    ASSUME NEW S, S \subseteq Nat, NEW m \in S, \A c \in S : m <= c
    PROVE  (CHOOSE b \in S : \A c \in S : b <= c) = m
  <1> DEFINE b == CHOOSE b \in S : \A c \in S : b <= c
  <1>1. b \in S /\ \A c \in S : b <= c
    BY Zenon
  <1> HIDE DEF b
  <1>2. b <= m /\ m <= b
    BY <1>1, Zenon
  <1>3. b = m
    BY <1>1, <1>2
  <1> QED BY <1>3, Zenon DEF b

\* pem.Decode looks at the first five lines, then at the five after them
LEMMA BlocksAre ==
    ASSUME NEW asked, PemFile(pemFile, asked), NEW i
    PROVE  i \in PemBlocks <=> \/ i = 1 /\ Size(pemFile) >= 5 /\ pemFile[1][2] = pemFile[5][2]
                               \/ i = 2 /\ Size(pemFile) = 10 /\ pemFile[6][2] = pemFile[10][2]
  <1> DEFINE n == Size(pemFile)
  <1>1. PemBlocks = {j \in 1..(n \div 5) : pemFile[5 * j - 4][2] = pemFile[5 * j][2]}
    BY Zenon DEF PemBlocks, Size
  <1>2. n \in (0..5) \cup {10}
    BY Zenon DEF PemFile
  <1> HIDE DEF n
  <1>3. \/ n < 5 /\ n \div 5 = 0
        \/ n = 5 /\ n \div 5 = 1
        \/ n = 10 /\ n \div 5 = 2
    BY <1>2
  <1>4. \/ n < 5 /\ 1..(n \div 5) = {}
        \/ n = 5 /\ 1..(n \div 5) = {1}
        \/ n = 10 /\ 1..(n \div 5) = {1, 2}
    BY <1>3
  <1>5. 5 * 1 - 4 = 1 /\ 5 * 1 = 5 /\ 5 * 2 - 4 = 6 /\ 5 * 2 = 10
    OBVIOUS
  <1>6. i \in PemBlocks <=> /\ i \in 1..(n \div 5)
                            /\ pemFile[5 * i - 4][2] = pemFile[5 * i][2]
    BY <1>1, Zenon
  <1>7. i = 1 => (pemFile[5 * i - 4][2] = pemFile[5 * i][2] <=> pemFile[1][2] = pemFile[5][2])
    BY <1>5, Zenon
  <1>8. i = 2 => (pemFile[5 * i - 4][2] = pemFile[5 * i][2] <=> pemFile[6][2] = pemFile[10][2])
    BY <1>5, Zenon
  <1>9. i \in 1..(n \div 5) <=> (i = 1 /\ n >= 5) \/ (i = 2 /\ n = 10)
    BY <1>2, <1>4
  <1>10. n = Size(pemFile)
    BY Zenon DEF n
  <1> QED BY <1>6, <1>7, <1>8, <1>9, <1>10, Zenon

\* the block that is read, once it is known which one
LEMMA BlockIsRead ==
    ASSUME NEW i \in {1, 2}, NEW w,
           i \in PemBlocks, PemBlocks \subseteq Nat, \A c \in PemBlocks : i <= c,
           pemFile[5 * i - 3][2] = Key(w), pemFile[5 * i - 2][2] = Key(w)
    PROVE  LoadPrivateKeyFromPemData = Loads("pem", Key(w))
  <1>1. (CHOOSE b \in PemBlocks : \A c \in PemBlocks : b <= c) = i
    BY SmallestIs, Zenon
  <1>2. PemBlocks # {}
    BY Zenon
  <1> QED BY <1>1, <1>2, Zenon DEF LoadPrivateKeyFromPemData

LEMMA FirstBlockIsRead ==
    ASSUME NEW asked, PemFile(pemFile, asked), NEW w, Size(pemFile) >= 5,
           \A i \in 1..5 : pemFile[i] = Block(w)[i]
    PROVE  LoadPrivateKeyFromPemData = Loads("pem", Key(w))
  <1>1. pemFile[1] = Block(w)[1] /\ pemFile[2] = Block(w)[2] /\ pemFile[3] = Block(w)[3] /\ pemFile[5] = Block(w)[5]
    OBVIOUS
  <1>2. 1 \in PemBlocks
    BY <1>1, BlocksAre, BlockLines
  <1>3. PemBlocks \subseteq Nat /\ \A c \in PemBlocks : 1 <= c
    BY BlocksAre
  <1>4. 5 * 1 - 3 = 2 /\ 5 * 1 - 2 = 3
    OBVIOUS
  <1>5. pemFile[5 * 1 - 3][2] = Key(w) /\ pemFile[5 * 1 - 2][2] = Key(w)
    BY <1>1, <1>4, BlockLines, Zenon
  <1> QED BY <1>2, <1>3, <1>5, BlockIsRead, Zenon

LEMMA SecondBlockIsRead ==
    ASSUME NEW asked, PemFile(pemFile, asked), NEW w, Size(pemFile) = 10,
           pemFile[1][2] # pemFile[5][2], \A i \in 1..5 : pemFile[5 + i] = Block(w)[i]
    PROVE  LoadPrivateKeyFromPemData = Loads("pem", Key(w))
  <1>0. 5 + 1 = 6 /\ 5 + 2 = 7 /\ 5 + 3 = 8 /\ 5 + 5 = 10
    OBVIOUS
  <1>1. pemFile[6] = Block(w)[1] /\ pemFile[7] = Block(w)[2] /\ pemFile[8] = Block(w)[3] /\ pemFile[10] = Block(w)[5]
    BY <1>0
  <1>2. 2 \in PemBlocks
    BY <1>1, BlocksAre, BlockLines
  <1>3. PemBlocks \subseteq Nat /\ \A c \in PemBlocks : 2 <= c
    BY BlocksAre
  <1>4. 5 * 2 - 3 = 7 /\ 5 * 2 - 2 = 8
    OBVIOUS
  <1>5. pemFile[5 * 2 - 3][2] = Key(w) /\ pemFile[5 * 2 - 2][2] = Key(w)
    BY <1>1, <1>4, BlockLines
  <1> QED BY <1>2, <1>3, <1>5, BlockIsRead, Zenon

LEMMA NoBlockIsRead ==
    ASSUME NEW asked, PemFile(pemFile, asked),
           Size(pemFile) < 5 \/ (Size(pemFile) = 5 /\ pemFile[1][2] # pemFile[5][2])
    PROVE  LoadPrivateKeyFromPemData = LoadFails("pem", "ErrInvalidPemFile")
  <1>1. Size(pemFile) \in (0..5) \cup {10}
    BY Zenon DEF PemFile
  <1>2. PemBlocks = {}
    BY <1>1, BlocksAre
  <1> QED BY <1>2, Zenon DEF LoadPrivateKeyFromPemData

\* after at most one save cut short, the key of a wallet is loaded, or none
LEMMA PemLoads ==
    ASSUME NEW asked, NEW last, NEW cuts \in {0, 1}, NEW save,
           asked \subseteq Wallets, last \in asked \cup {NoWallet},
           PemInv(pemFile, asked, last, cuts, save), save.file # "pem"
    PROVE  \/ /\ LoadPrivateKeyFromPemData = LoadFails("pem", "ErrInvalidPemFile")
              /\ ~(cuts = 0 /\ last # NoWallet)
           \/ \E v \in asked : /\ LoadPrivateKeyFromPemData = Loads("pem", Key(v))
                               /\ cuts = 0 /\ last # NoWallet => v = last
  <1>1. PemFile(pemFile, asked)
    BY Zenon DEF PemInv
  <1>2. Size(pemFile) \in (0..5) \cup {10}
    BY <1>1, Zenon DEF PemFile
  <1>3. CASE cuts = 0
    <2>1. Mixed(pemFile, <<0, 0>>, 0, last)
      BY <1>3, Zenon DEF PemInv
    <2>2. CASE last = NoWallet
      <3>1. Size(pemFile) < 5
        BY <2>1, <2>2 DEF Mixed
      <3> QED BY <1>1, <2>2, <3>1, NoBlockIsRead, Zenon
    <2>3. CASE last # NoWallet
      <3>1. Size(pemFile) >= 5 /\ \A i \in (0 + 1)..5 : pemFile[i] = Block(last)[i]
        BY <2>1, <2>3, Zenon DEF Mixed
      <3>2. \A i \in 1..5 : pemFile[i] = Block(last)[i]
        BY <3>1
      <3> QED BY <1>1, <2>3, <3>1, <3>2, FirstBlockIsRead, Zenon
    <2> QED BY <2>2, <2>3, Zenon
  <1>4. CASE cuts = 1
    <2>1. PICK w \in asked, k \in 0..4 : Mixed(pemFile, w, k, last)
      BY <1>4, Zenon DEF PemInv
    <2>2. CASE last = NoWallet
      <3>1. Size(pemFile) = k
        BY <2>1, <2>2, Zenon DEF Mixed
      <3>2. Size(pemFile) < 5
        BY <3>1
      <3> QED BY <1>1, <2>2, <3>2, NoBlockIsRead, Zenon
    <2>3. CASE last # NoWallet
      <3>1. Size(pemFile) >= 5 /\ \A i \in (k + 1)..5 : pemFile[i] = Block(last)[i]
        BY <2>1, <2>3, Zenon DEF Mixed
      <3>2. \A i \in 1..k : pemFile[i] = Block(w)[i]
        BY <2>1, Zenon DEF Mixed
      <3>3. CASE k = 0 \/ w = last
        <4>1. ASSUME NEW i \in 1..5 PROVE pemFile[i] = Block(last)[i]
          <5>1. i \in (k + 1)..5 \/ (i \in 1..k /\ w = last)
            BY <3>3
          <5> QED BY <3>1, <3>2, <5>1, Zenon
        <4> QED BY <1>1, <1>4, <2>3, <3>1, <4>1, FirstBlockIsRead, Zenon
      <3>4. CASE k # 0 /\ w # last
        <4>1. 1 \in 1..k /\ 5 \in (k + 1)..5
          BY <3>4
        <4>2. pemFile[1] = Block(w)[1] /\ pemFile[5] = Block(last)[5]
          BY <3>1, <3>2, <4>1, Zenon
        <4>3. pemFile[1][2] = Addr(w) /\ pemFile[5][2] = Addr(last)
          BY <4>2, BlockLines, Zenon
        <4>4. Addr(w) # Addr(last)
          <5>1. last \in Wallets /\ w \in Wallets
            BY <2>3, Zenon
          <5>2. Key(w) # Key(last)
            BY <3>4, <5>1, KeysDiffer, Zenon
          <5>3. Addr(w).address = Key(w) /\ Addr(last).address = Key(last)
            BY Zenon DEF Addr
          <5> QED BY <5>2, <5>3, Zenon
        <4>5. CASE Size(pemFile) = 10
          <5>1. PICK v \in asked : \A i \in 1..5 : pemFile[5 + i] = Block(v)[i]
            BY <1>1, <4>5, Zenon DEF PemFile
          <5>2. LoadPrivateKeyFromPemData = Loads("pem", Key(v))
            BY <1>1, <4>3, <4>4, <4>5, <5>1, SecondBlockIsRead, Zenon
          <5> QED BY <1>4, <5>2
        <4>6. CASE Size(pemFile) # 10
          <5>1. Size(pemFile) = 5
            BY <1>2, <3>1, <4>6
          <5> QED BY <1>1, <1>4, <4>3, <4>4, <5>1, NoBlockIsRead, Zenon
        <4> QED BY <4>5, <4>6, Zenon
      <3> QED BY <3>3, <3>4, Zenon
    <2> QED BY <2>2, <2>3, Zenon
  <1> QED BY <1>3, <1>4, Zenon

\* KeysComeBack, of any result and any history
Comes(result, asked, last, cuts) ==
    LET file == result.file
        owners == {w \in Wallets : GetPrivateKeyFromMnemonic(w) = result.key}
    IN  file # "none" =>
            /\ result.err = "none" /\ (file = "pem" => cuts["pem"] <= 1) =>
                   \E w \in asked[file] : owners = {w}
            /\ cuts[file] = 0 /\ last[file] # NoWallet /\ result.err # "ErrWrongPassword" =>
                   owners = {last[file]}

LEMMA KeyComes ==
    ASSUME NEW asked, NEW last, NEW cuts, HistoryShape(asked, last, cuts),
           NEW file \in {"json", "pem"}, NEW w \in asked[file],
           cuts[file] = 0 /\ last[file] # NoWallet => w = last[file],
           NEW result, result = Loads(file, Key(w))
    PROVE  Comes(result, asked, last, cuts)
  <1>1. result.file = file /\ result.err = "none" /\ result.key = Key(w)
    BY Zenon DEF Loads
  <1>2. w \in Wallets
    BY Zenon DEF HistoryShape
  <1>3. {v \in Wallets : GetPrivateKeyFromMnemonic(v) = result.key} = {w}
    BY <1>1, <1>2, OwnersOfAKey, Zenon
  <1> QED BY <1>1, <1>3, Zenon DEF Comes

LEMMA ErrorComes ==
    ASSUME NEW asked, NEW last, NEW cuts, NEW file, NEW err, err # "none",
           err = "ErrWrongPassword" \/ ~(cuts[file] = 0 /\ last[file] # NoWallet),
           NEW result, result = LoadFails(file, err)
    PROVE  Comes(result, asked, last, cuts)
  <1>1. result.file = file /\ result.err = err
    BY Zenon DEF LoadFails
  <1> QED BY <1>1, Zenon DEF Comes

LEMMA NothingComes ==
    ASSUME NEW asked, NEW last, NEW cuts
    PROVE  Comes(NotLoaded, asked, last, cuts)
  <1>1. NotLoaded.file = "none"
    BY Zenon DEF NotLoaded
  <1> QED BY <1>1, Zenon DEF Comes

LEMMA PemComes ==
    ASSUME KeysInv, saving = NotSaving
    PROVE  Comes(LoadPrivateKeyFromPemData, askedFor, lastSaved, cut)
  <1> DEFINE result == LoadPrivateKeyFromPemData
             asked == askedFor["pem"]
             last == lastSaved["pem"]
             cuts == cut["pem"]
  <1>1. HistoryShape(askedFor, lastSaved, cut) /\ PemInv(pemFile, asked, last, cuts, saving)
    BY Zenon DEF KeysInv
  <1>2. asked \subseteq Wallets /\ last \in asked \cup {NoWallet} /\ cuts \in Nat
    BY <1>1, Zenon DEF HistoryShape
  <1>3. saving.file # "pem"
    BY Zenon DEF NotSaving
  <1>4. CASE cuts \in {0, 1}
    <2>1. \/ result = LoadFails("pem", "ErrInvalidPemFile") /\ ~(cuts = 0 /\ last # NoWallet)
          \/ \E v \in asked : result = Loads("pem", Key(v)) /\ (cuts = 0 /\ last # NoWallet => v = last)
      <3>1. \/ /\ LoadPrivateKeyFromPemData = LoadFails("pem", "ErrInvalidPemFile")
               /\ ~(cuts = 0 /\ last # NoWallet)
            \/ \E v \in asked : /\ LoadPrivateKeyFromPemData = Loads("pem", Key(v))
                                /\ cuts = 0 /\ last # NoWallet => v = last
        <4> HIDE DEF asked, last, cuts
        <4> QED BY <1>1, <1>2, <1>3, <1>4, PemLoads
      <3> QED BY <3>1, Zenon
    <2> HIDE DEF result
    <2>2. CASE result = LoadFails("pem", "ErrInvalidPemFile") /\ ~(cuts = 0 /\ last # NoWallet)
      <3>1. Comes(result, askedFor, lastSaved, cut)
        BY <2>2, ErrorComes, Zenon
      <3> QED BY <3>1, Zenon DEF result
    <2>3. CASE \E v \in asked : result = Loads("pem", Key(v)) /\ (cuts = 0 /\ last # NoWallet => v = last)
      <3>1. Comes(result, askedFor, lastSaved, cut)
        BY <1>1, <2>3, KeyComes, Zenon
      <3> QED BY <3>1, Zenon DEF result
    <2> QED BY <2>1, <2>2, <2>3, Zenon
  <1>5. CASE cuts \notin {0, 1}
    <2>1. result.file = "pem"
      BY Zenon DEF LoadPrivateKeyFromPemData, LoadFails, Loads
    <2> HIDE DEF result
    <2>2. ~(cuts <= 1) /\ cuts # 0
      BY <1>2, <1>5
    <2>3. Comes(result, askedFor, lastSaved, cut)
      BY <2>1, <2>2, Zenon DEF Comes
    <2> QED BY <2>3, Zenon DEF result
  <1> QED BY <1>4, <1>5, Zenon

\* a keystore opens with its password and gives the key of its wallet
LEMMA KeystoreLoads ==
    ASSUME NEW w, HoldsKey(jsonFile, w), NEW password, LoadPrivateKeyFromJsonFile(password)
    PROVE  loaded' \in {LoadFails("json", "ErrWrongPassword"), Loads("json", Key(w))}
  <1>1. CASE w = <<0, 0>> /\ \E p \in Passwords : jsonFile = [kind |-> "mnemonic", password |-> p]
    <2>1. jsonFile.kind = "mnemonic"
      BY <1>1
    <2>2. Absent.kind = "absent" /\ Broken.kind = "broken"
      BY Zenon DEF Absent, Broken
    <2>3. jsonFile # Absent /\ jsonFile # Broken
      BY <2>1, <2>2, Zenon
    <2>4. loaded' = IF jsonFile.password # password THEN LoadFails("json", "ErrWrongPassword")
                    ELSE secretKeyFromMnemonic
      BY <2>1, <2>3, Zenon DEF LoadPrivateKeyFromJsonFile
    <2>5. secretKeyFromMnemonic = Loads("json", Key(w))
      BY <1>1, Zenon DEF secretKeyFromMnemonic, Key
    <2> QED BY <2>4, <2>5, Zenon
  <1>2. CASE \E privateKey \in PrivateKeys(w), p \in Passwords : jsonFile = keystoreJson(privateKey, p)
    <2>1. PICK privateKey \in PrivateKeys(w), p \in Passwords : jsonFile = keystoreJson(privateKey, p)
      BY <1>2, Zenon
    <2>2. /\ jsonFile.kind = "" /\ jsonFile.text = privateKey
          /\ jsonFile.address = GetAddressFromPrivateKey(privateKey)
      BY <2>1, Zenon DEF keystoreJson
    <2>3. Absent.kind = "absent" /\ Broken.kind = "broken"
      BY Zenon DEF Absent, Broken
    <2>4. jsonFile # Absent /\ jsonFile # Broken /\ jsonFile.kind # "mnemonic"
      BY <2>2, <2>3, Zenon
    <2>5. loaded' = IF jsonFile.password # password THEN LoadFails("json", "ErrWrongPassword")
                    ELSE secretKeyAfterChecks(jsonFile)
      BY <2>4, Zenon DEF LoadPrivateKeyFromJsonFile
    <2>6. SubSeq(jsonFile.text, 1, 1) = <<Key(w)>> /\ jsonFile.address = Addr(w)
      BY <2>2, KeysOfAWallet, Zenon
    <2>7. GetAddressFromPrivateKey(<<Key(w)>>) = Addr(w) /\ <<Key(w)>>[1] = Key(w)
      BY Zenon DEF GetAddressFromPrivateKey, Addr
    <2>8. secretKeyAfterChecks(jsonFile) = Loads("json", Key(w))
      BY <2>6, <2>7, Zenon DEF secretKeyAfterChecks
    <2> QED BY <2>5, <2>8, Zenon
  <1> QED BY <1>1, <1>2, Zenon DEF HoldsKey

LEMMA KeystoreIsNeither ==
    ASSUME NEW w, NEW file, HoldsKey(file, w)
    PROVE  file # Absent /\ file # Broken
  <1>1. file.kind = "mnemonic" \/ file.kind = ""
    <2>1. \A privateKey, p : keystoreJson(privateKey, p).kind = ""
      BY Zenon DEF keystoreJson
    <2>2. \A p : [kind |-> "mnemonic", password |-> p].kind = "mnemonic"
      BY Zenon
    <2> QED BY <2>1, <2>2, Zenon DEF HoldsKey
  <1>2. Absent.kind = "absent" /\ Broken.kind = "broken"
    BY Zenon DEF Absent, Broken
  <1> QED BY <1>1, <1>2, Zenon

LEMMA JsonComes ==
    ASSUME KeysInv, NEW password, LoadPrivateKeyFromJsonFile(password)
    PROVE  Comes(loaded', askedFor, lastSaved, cut)
  <1> DEFINE asked == askedFor["json"]
             last == lastSaved["json"]
             cuts == cut["json"]
  <1>1. HistoryShape(askedFor, lastSaved, cut) /\ JsonInv(jsonFile, asked, last, cuts, saving)
    BY Zenon DEF KeysInv
  <1>2. last \in asked \cup {NoWallet}
    BY <1>1, Zenon DEF HistoryShape
  <1>3. saving.file # "json"
    BY Zenon DEF LoadPrivateKeyFromJsonFile, NotSaving
  <1>4. cuts = 0 /\ last # NoWallet => HoldsKey(jsonFile, last)
    BY <1>1, <1>3, Zenon DEF JsonInv
  <1>5. ASSUME NEW w \in asked, HoldsKey(jsonFile, w),
               cuts = 0 /\ last # NoWallet => w = last
        PROVE  Comes(loaded', askedFor, lastSaved, cut)
    <2>1. loaded' = LoadFails("json", "ErrWrongPassword") \/ loaded' = Loads("json", Key(w))
      BY <1>5, KeystoreLoads, Zenon
    <2>2. CASE loaded' = LoadFails("json", "ErrWrongPassword")
      BY <2>2, ErrorComes, Zenon
    <2>3. CASE loaded' = Loads("json", Key(w))
      BY <1>1, <1>5, <2>3, KeyComes, Zenon
    <2> QED BY <2>1, <2>2, <2>3, Zenon
  <1>6. CASE cuts = 0 /\ last # NoWallet
    BY <1>2, <1>4, <1>5, <1>6, Zenon
  <1>7. CASE ~(cuts = 0 /\ last # NoWallet)
    <2>1. CASE \E w \in asked : HoldsKey(jsonFile, w)
      BY <1>5, <1>7, <2>1, Zenon
    <2>2. CASE jsonFile \in {Absent, Broken}
      <3>1. \/ loaded' = LoadFails("json", "os.ReadFile")
            \/ loaded' = LoadFails("json", "json.Unmarshal")
        <4>1. Absent.kind = "absent" /\ Broken.kind = "broken"
          BY Zenon DEF Absent, Broken
        <4> QED BY <2>2, <4>1, Zenon DEF LoadPrivateKeyFromJsonFile
      <3> QED BY <1>7, <3>1, ErrorComes, Zenon
    <2> QED BY <1>1, <2>1, <2>2, Zenon DEF JsonInv
  <1> QED BY <1>6, <1>7, Zenon

-----------------------------------------------------------------------------

LEMMA JsonStays ==
    ASSUME NEW file, NEW asked, NEW last, NEW cuts, NEW save, NEW save2,
           JsonInv(file, asked, last, cuts, save), save.file # "json", save2.file # "json"
    PROVE  JsonInv(file, asked, last, cuts, save2)
  BY Zenon DEF JsonInv

\* the steps of the history and of a call, by name
AskedAlso(asked, file, w) == [asked EXCEPT ![file] = @ \cup {w}]
Noted(values, file, value) == [values EXCEPT ![file] = value]
CutAgain(cuts, file) == [cuts EXCEPT ![file] = @ + 1]
SaveCall(file, rest, of) == [file |-> file, rest |-> rest, of |-> of]

\* what is asked of one file leaves the history of the other alone
LEMMA HistoryAsked ==
    ASSUME NEW asked, NEW last, NEW cuts, HistoryShape(asked, last, cuts),
           NEW file \in {"json", "pem"}, NEW w \in Wallets,
           NEW asked2, asked2 = AskedAlso(asked, file, w)
    PROVE  /\ HistoryShape(asked2, last, cuts)
           /\ asked2[file] = asked[file] \cup {w}
           /\ \A f \in {"json", "pem"} : f # file => asked2[f] = asked[f]
  BY Zenon DEF HistoryShape, AskedAlso

LEMMA HistorySaved ==
    ASSUME NEW asked, NEW last, NEW cuts, HistoryShape(asked, last, cuts),
           NEW file \in {"json", "pem"}, NEW w \in asked[file],
           NEW last2, last2 = Noted(last, file, w),
           NEW cuts2, cuts2 = Noted(cuts, file, 0)
    PROVE  /\ HistoryShape(asked, last2, cuts2)
           /\ last2[file] = w /\ cuts2[file] = 0
           /\ \A f \in {"json", "pem"} : f # file => last2[f] = last[f] /\ cuts2[f] = cuts[f]
  BY Zenon DEF HistoryShape, Noted

LEMMA HistoryCut ==
    ASSUME NEW asked, NEW last, NEW cuts, HistoryShape(asked, last, cuts),
           NEW file \in {"json", "pem"},
           NEW cuts2, cuts2 = CutAgain(cuts, file)
    PROVE  /\ HistoryShape(asked, last, cuts2)
           /\ cuts2[file] = cuts[file] + 1
           /\ \A f \in {"json", "pem"} : f # file => cuts2[f] = cuts[f]
  <1>1. cuts = [json |-> cuts["json"], pem |-> cuts["pem"]] /\ cuts["json"] \in Nat /\ cuts["pem"] \in Nat
    BY Zenon DEF HistoryShape
  <1>2. /\ cuts2 = [json |-> cuts2["json"], pem |-> cuts2["pem"]]
        /\ cuts2[file] = cuts[file] + 1
        /\ \A f \in {"json", "pem"} : f # file => cuts2[f] = cuts[f]
    <2>1. CASE file = "json"
      BY <1>1, <2>1, Zenon DEF CutAgain
    <2>2. CASE file = "pem"
      BY <1>1, <2>2, Zenon DEF CutAgain
    <2> QED BY <2>1, <2>2, Zenon
  <1>3. \A f \in {"json", "pem"} : cuts2[f] \in Nat
    BY <1>1, <1>2
  <1> QED BY <1>2, <1>3, Zenon DEF HistoryShape

LEMMA TwoFiles == "json" \in {"json", "pem"} /\ "pem" \in {"json", "pem"} /\ "json" # "pem"
  BY Zenon

LEMMA NotSavingShape ==
    ASSUME NEW asked
    PROVE  /\ SaveShape(NotSaving, asked)
           /\ NotSaving.file # "json" /\ NotSaving.file # "pem"
  BY Zenon DEF SaveShape, NotSaving

LEMMA SaveFiles ==
    ASSUME NEW save, NEW asked, SaveShape(save, asked), save # NotSaving
    PROVE  save.file \in {"json", "pem"} /\ save.of \in asked[save.file]
  BY Zenon DEF SaveShape

LEMMA StartShape ==
    ASSUME NEW asked, NEW file \in {"json", "pem"}, NEW w \in asked[file], NEW rest,
           NEW save, save = SaveCall(file, rest, w)
    PROVE  /\ SaveShape(save, asked) /\ save.file = file /\ save.rest = rest /\ save.of = w
           /\ save # NotSaving
  BY Zenon DEF SaveShape, NotSaving, SaveCall

LEMMA GoesOnShape ==
    ASSUME NEW asked, NEW save, SaveShape(save, asked), save # NotSaving, NEW rest,
           NEW save2, save2 = [save EXCEPT !.rest = rest]
    PROVE  /\ SaveShape(save2, asked) /\ save2 # NotSaving
           /\ save2.file = save.file /\ save2.rest = rest /\ save2.of = save.of
  <1>1. save2 = SaveCall(save.file, rest, save.of)
    BY Zenon DEF SaveShape, SaveCall
  <1>2. save.file \in {"json", "pem"} /\ save.of \in asked[save.file]
    BY SaveFiles, Zenon
  <1> QED BY <1>1, <1>2, StartShape

LEMMA PemSaveStarts ==
    ASSUME KeysInv, NEW w \in Wallets, SavePrivateKeyToPemFile(w)
    PROVE  KeysInv'
  <1>1. PICK privateKey \in PrivateKeys(w) : Start("pem", w, pemBlock(privateKey))
    BY Zenon DEF SavePrivateKeyToPemFile
  <1>2. /\ saving = NotSaving /\ saving' = SaveCall("pem", Block(w), w)
        /\ askedFor' = AskedAlso(askedFor, "pem", w)
        /\ loaded' = NotLoaded /\ lastSaved' = lastSaved /\ cut' = cut
        /\ jsonFile' = jsonFile /\ pemFile' = pemFile
    BY <1>1, KeysOfAWallet, Zenon DEF Start, SavePrivateKeyToPemFile, AskedAlso, SaveCall
  <1>3. /\ HistoryShape(askedFor', lastSaved, cut) /\ askedFor'["pem"] = askedFor["pem"] \cup {w}
        /\ askedFor'["json"] = askedFor["json"]
    <2>1. HistoryShape(askedFor, lastSaved, cut)
      BY Zenon DEF KeysInv
    <2> QED BY <1>2, <2>1, TwoFiles, HistoryAsked, SMTT(30)
  <1>4. SaveShape(saving', askedFor') /\ saving'.file = "pem" /\ saving'.rest = Block(w) /\ saving'.of = w
    <2>1. w \in askedFor'["pem"]
      BY <1>3, Zenon
    <2> QED BY <1>2, <2>1, TwoFiles, StartShape, SMTT(30)
  <1>5. saving.file # "pem" /\ saving.file # "json"
    BY <1>2, NotSavingShape, Zenon
  <1>6. PemInv(pemFile, askedFor'["pem"], lastSaved["pem"], cut["pem"], saving')
    <2>1. PemInv(pemFile, askedFor["pem"], lastSaved["pem"], cut["pem"], saving)
      BY Zenon DEF KeysInv
    <2>2. PemInv(pemFile, askedFor["pem"] \cup {w}, lastSaved["pem"], cut["pem"], saving')
      BY <1>4, <1>5, <2>1, PemStarts, Zenon
    <2> QED BY <1>3, <2>2, Zenon
  <1>7. JsonInv(jsonFile, askedFor'["json"], lastSaved["json"], cut["json"], saving')
    BY <1>3, <1>4, <1>5, JsonStays, Zenon DEF KeysInv
  <1>8. KeysComeBack'
    <2>1. Comes(loaded', askedFor', lastSaved', cut')
      BY <1>2, NothingComes, Zenon
    <2> QED BY <2>1, Zenon DEF Comes, KeysComeBack
  <1> QED BY <1>2, <1>3, <1>4, <1>6, <1>7, <1>8, Zenon DEF KeysInv

LEMMA JsonSaveStarts ==
    ASSUME KeysInv, NEW w \in Wallets, NEW p \in Passwords, SavePrivateKeyToJsonFile(w, p)
    PROVE  KeysInv'
  <1>1. PICK privateKey \in PrivateKeys(w) : Start("json", w, <<keystoreJson(privateKey, p)>>)
    BY Zenon DEF SavePrivateKeyToJsonFile
  <1> DEFINE rest == <<keystoreJson(privateKey, p)>>
  <1>2. /\ saving = NotSaving /\ saving' = SaveCall("json", rest, w)
        /\ askedFor' = AskedAlso(askedFor, "json", w)
        /\ loaded' = NotLoaded /\ lastSaved' = lastSaved /\ cut' = cut
        /\ jsonFile' = Broken /\ pemFile' = pemFile
    BY <1>1, Zenon DEF Start, SavePrivateKeyToJsonFile, AskedAlso, SaveCall
  <1> HIDE DEF rest
  <1>3. /\ HistoryShape(askedFor', lastSaved, cut) /\ askedFor'["json"] = askedFor["json"] \cup {w}
        /\ askedFor'["pem"] = askedFor["pem"]
    <2>1. HistoryShape(askedFor, lastSaved, cut)
      BY Zenon DEF KeysInv
    <2> QED BY <1>2, <2>1, TwoFiles, HistoryAsked, SMTT(30)
  <1>4. SaveShape(saving', askedFor') /\ saving'.file = "json" /\ saving'.rest = rest /\ saving'.of = w
    <2>1. w \in askedFor'["json"]
      BY <1>3, Zenon
    <2> QED BY <1>2, <2>1, TwoFiles, StartShape, SMTT(30)
  <1>5. saving.file # "pem" /\ saving.file # "json" /\ saving'.file # "pem"
    BY <1>2, <1>4, NotSavingShape, Zenon
  <1>6. PemInv(pemFile, askedFor'["pem"], lastSaved["pem"], cut["pem"], saving')
    BY <1>3, <1>5, PemStays, Zenon DEF KeysInv
  <1>7. JsonInv(Broken, askedFor'["json"], lastSaved["json"], cut["json"], saving')
    BY <1>4, Zenon DEF JsonInv, rest
  <1>8. KeysComeBack'
    <2>1. Comes(loaded', askedFor', lastSaved', cut')
      BY <1>2, NothingComes, Zenon
    <2> QED BY <2>1, Zenon DEF Comes, KeysComeBack
  <1> QED BY <1>2, <1>3, <1>4, <1>6, <1>7, <1>8, Zenon DEF KeysInv

\* a line more of the .pem file
LEMMA LineIsWritten ==
    ASSUME KeysInv, Write, WriteLine
    PROVE  /\ saving.file = "pem" /\ saving.of \in askedFor["pem"] /\ saving.of \in Wallets
           /\ pemFile' = Over(pemFile, 5 - Size(saving.rest), saving.rest[1])
           /\ jsonFile' = jsonFile
           /\ Size(saving.rest) \in 1..5
  <1>1. saving.file = "pem" /\ saving.of \in askedFor["pem"]
    BY SaveFiles, Zenon DEF Write, WriteLine, KeysInv
  <1>2. saving.of \in Wallets
    BY <1>1, Zenon DEF KeysInv, HistoryShape
  <1>3. Half(pemFile, saving.of, saving.rest)
    BY <1>1, Zenon DEF KeysInv, PemInv
  <1>4. Size(saving.rest) \in 1..5 /\ saving.rest \in Seq(Lines)
    BY <1>3, Zenon DEF Half
  <1>5. Size(saving.rest) # 0
    BY <1>4
  <1>6. Head(saving.rest) = saving.rest[1]
    BY <1>4, <1>5, RestOfASeq, Zenon
  <1>7. pemFile' = Over(pemFile, 5 - Size(saving.rest), saving.rest[1])
    BY <1>6, Zenon DEF WriteLine, Written, Over, Part, Size
  <1> QED BY <1>1, <1>2, <1>4, <1>7, Zenon DEF WriteLine

LEMMA LastLine ==
    ASSUME KeysInv, Write, WriteLine, Size(saving.rest) = 1, saving' = NotSaving,
           lastSaved' = Noted(lastSaved, saving.file, saving.of),
           cut' = Noted(cut, saving.file, 0)
    PROVE  KeysInv'
  <1>1. /\ saving.file = "pem" /\ saving.of \in askedFor["pem"] /\ saving.of \in Wallets
        /\ pemFile' = Over(pemFile, 5 - Size(saving.rest), saving.rest[1])
        /\ jsonFile' = jsonFile
    BY LineIsWritten, Zenon
  <1>2. askedFor' = askedFor /\ loaded' = NotLoaded
    BY Zenon DEF KeysInv, Write
  <1>3. /\ HistoryShape(askedFor, lastSaved', cut') /\ lastSaved'["pem"] = saving.of /\ cut'["pem"] = 0
        /\ lastSaved'["json"] = lastSaved["json"] /\ cut'["json"] = cut["json"]
    <2>1. HistoryShape(askedFor, lastSaved, cut)
      BY Zenon DEF KeysInv
    <2> QED BY <1>1, <2>1, TwoFiles, HistorySaved, SMTT(30)
  <1>4. SaveShape(saving', askedFor) /\ saving'.file # "pem" /\ saving'.file # "json"
    BY NotSavingShape, Zenon
  <1>5. PemInv(pemFile', askedFor["pem"], saving.of, 0, saving')
    <2>1. PemInv(pemFile, askedFor["pem"], lastSaved["pem"], cut["pem"], saving)
      BY Zenon DEF KeysInv
    <2> QED BY <1>1, <1>4, <2>1, PemEnds, Zenon
  <1>6. JsonInv(jsonFile, askedFor["json"], lastSaved["json"], cut["json"], saving')
    BY <1>1, <1>4, JsonStays, Zenon DEF KeysInv
  <1>7. KeysComeBack'
    <2>1. Comes(loaded', askedFor', lastSaved', cut')
      BY <1>2, NothingComes, Zenon
    <2> QED BY <2>1, Zenon DEF Comes, KeysComeBack
  <1> QED BY <1>1, <1>2, <1>3, <1>4, <1>5, <1>6, <1>7, Zenon DEF KeysInv

LEMMA AnotherLine ==
    ASSUME KeysInv, Write, WriteLine, Size(saving.rest) > 1,
           saving' = [saving EXCEPT !.rest = Tail(saving.rest)], lastSaved' = lastSaved, cut' = cut
    PROVE  KeysInv'
  <1>1. /\ saving.file = "pem" /\ saving.of \in askedFor["pem"] /\ saving.of \in Wallets
        /\ pemFile' = Over(pemFile, 5 - Size(saving.rest), saving.rest[1])
        /\ jsonFile' = jsonFile
    BY LineIsWritten, Zenon
  <1>2. askedFor' = askedFor /\ loaded' = NotLoaded /\ saving # NotSaving
    BY Zenon DEF KeysInv, Write
  <1>3. /\ SaveShape(saving', askedFor) /\ saving'.file = "pem"
        /\ saving'.rest = Tail(saving.rest) /\ saving'.of = saving.of
    BY <1>1, <1>2, GoesOnShape DEF KeysInv
  <1>4. PemInv(pemFile', askedFor["pem"], lastSaved["pem"], cut["pem"], saving')
    <2>1. PemInv(pemFile, askedFor["pem"], lastSaved["pem"], cut["pem"], saving)
      BY Zenon DEF KeysInv
    <2> QED BY <1>1, <1>3, <2>1, PemGoesOn, Zenon
  <1>5. JsonInv(jsonFile, askedFor["json"], lastSaved["json"], cut["json"], saving')
    BY <1>1, <1>3, JsonStays, Zenon DEF KeysInv
  <1>6. KeysComeBack'
    <2>1. Comes(loaded', askedFor', lastSaved', cut')
      BY <1>2, NothingComes, Zenon
    <2> QED BY <2>1, Zenon DEF Comes, KeysComeBack
  <1> QED BY <1>1, <1>2, <1>3, <1>4, <1>5, <1>6, Zenon DEF KeysInv

LEMMA KeystoreIsWritten ==
    ASSUME KeysInv, Write, WriteKeystore
    PROVE  KeysInv'
  <1>1. saving.file = "json" /\ saving.of \in askedFor["json"] /\ pemFile' = pemFile
    BY SaveFiles, Zenon DEF Write, WriteKeystore, KeysInv
  <1>2. PICK privateKey \in PrivateKeys(saving.of), p \in Passwords : saving.rest = <<keystoreJson(privateKey, p)>>
    BY <1>1, Zenon DEF KeysInv, JsonInv
  <1>3. Len(saving.rest) = 1 /\ Head(saving.rest) = keystoreJson(privateKey, p)
    <2> DEFINE file == keystoreJson(privateKey, p)
    <2> HIDE DEF file
    <2>1. saving.rest = <<file>>
      BY <1>2, Zenon DEF file
    <2>2. Len(saving.rest) = 1 /\ Head(saving.rest) = file
      BY <2>1
    <2> QED BY <2>2, Zenon DEF file
  <1>4. HoldsKey(jsonFile', saving.of)
    BY <1>3, Zenon DEF HoldsKey, WriteKeystore
  <1>5. /\ saving' = NotSaving /\ askedFor' = askedFor /\ loaded' = NotLoaded
        /\ lastSaved' = Noted(lastSaved, "json", saving.of)
        /\ cut' = Noted(cut, "json", 0)
    <2>1. ~(Len(saving.rest) > 1)
      BY <1>3
    <2> QED BY <1>1, <2>1, Zenon DEF KeysInv, Write, Noted
  <1>6. /\ HistoryShape(askedFor, lastSaved', cut') /\ lastSaved'["json"] = saving.of
        /\ lastSaved'["pem"] = lastSaved["pem"] /\ cut'["pem"] = cut["pem"]
    <2>1. HistoryShape(askedFor, lastSaved, cut)
      BY Zenon DEF KeysInv
    <2> QED BY <1>1, <1>5, <2>1, TwoFiles, HistorySaved, SMTT(30)
  <1>7. SaveShape(saving', askedFor) /\ saving'.file # "pem" /\ saving'.file # "json" /\ saving.file # "pem"
    BY <1>1, <1>5, NotSavingShape, Zenon
  <1>8. PemInv(pemFile, askedFor["pem"], lastSaved["pem"], cut["pem"], saving')
    BY <1>7, PemStays, Zenon DEF KeysInv
  <1>9. JsonInv(jsonFile', askedFor["json"], saving.of, cut'["json"], saving')
    BY <1>1, <1>4, <1>7, Zenon DEF JsonInv
  <1>10. KeysComeBack'
    <2>1. Comes(loaded', askedFor', lastSaved', cut')
      BY <1>5, NothingComes, Zenon
    <2> QED BY <2>1, Zenon DEF Comes, KeysComeBack
  <1> QED BY <1>1, <1>5, <1>6, <1>7, <1>8, <1>9, <1>10, Zenon DEF KeysInv

LEMMA SaveIsCut ==
    ASSUME KeysInv, Interrupted
    PROVE  KeysInv'
  <1>1. /\ saving # NotSaving /\ saving' = NotSaving /\ loaded' = NotLoaded
        /\ cut' = CutAgain(cut, saving.file)
        /\ jsonFile' = jsonFile /\ pemFile' = pemFile
        /\ askedFor' = askedFor /\ lastSaved' = lastSaved
    BY Zenon DEF Interrupted, KeysInv, CutAgain
  <1>2. saving.file \in {"json", "pem"} /\ saving.of \in askedFor[saving.file]
    BY <1>1, SaveFiles, Zenon DEF KeysInv
  <1>3. /\ HistoryShape(askedFor, lastSaved, cut') /\ cut'[saving.file] = cut[saving.file] + 1
        /\ \A f \in {"json", "pem"} : f # saving.file => cut'[f] = cut[f]
    <2>1. HistoryShape(askedFor, lastSaved, cut)
      BY Zenon DEF KeysInv
    <2> QED BY <1>1, <1>2, <2>1, HistoryCut, SMTT(30)
  <1>4. SaveShape(saving', askedFor) /\ saving'.file # "pem" /\ saving'.file # "json"
    BY <1>1, NotSavingShape, Zenon
  <1>5. cut["json"] \in Nat /\ cut["pem"] \in Nat
    BY Zenon DEF KeysInv, HistoryShape
  <1>6. PemInv(pemFile, askedFor["pem"], lastSaved["pem"], cut'["pem"], saving')
    <2>1. PemInv(pemFile, askedFor["pem"], lastSaved["pem"], cut["pem"], saving)
      BY Zenon DEF KeysInv
    <2>2. CASE saving.file = "pem"
      BY <1>2, <1>3, <1>4, <1>5, <2>1, <2>2, PemInterrupted, Zenon
    <2>3. CASE saving.file # "pem"
      BY <1>3, <1>4, <2>1, <2>3, PemStays, Zenon
    <2> QED BY <2>2, <2>3, Zenon
  <1>7. JsonInv(jsonFile, askedFor["json"], lastSaved["json"], cut'["json"], saving')
    <2>1. JsonInv(jsonFile, askedFor["json"], lastSaved["json"], cut["json"], saving)
      BY Zenon DEF KeysInv
    <2>2. CASE saving.file = "json"
      <3>1. cut'["json"] # 0
        BY <1>3, <1>5, <2>2
      <3> QED BY <1>4, <2>1, <3>1, Zenon DEF JsonInv
    <2>3. CASE saving.file # "json"
      BY <1>3, <1>4, <2>1, <2>3, JsonStays, Zenon
    <2> QED BY <2>2, <2>3, Zenon
  <1>8. KeysComeBack'
    <2>1. Comes(loaded', askedFor', lastSaved', cut')
      BY <1>1, NothingComes, Zenon
    <2> QED BY <2>1, Zenon DEF Comes, KeysComeBack
  <1> QED BY <1>1, <1>3, <1>4, <1>6, <1>7, <1>8, Zenon DEF KeysInv

LEMMA KeyIsLoaded ==
    ASSUME KeysInv, saving = NotSaving, Comes(loaded', askedFor, lastSaved, cut),
           UNCHANGED <<jsonFile, pemFile, saving, askedFor, lastSaved, cut>>
    PROVE  KeysInv'
  <1>1. KeysComeBack'
    <2>1. Comes(loaded', askedFor', lastSaved', cut')
      BY Zenon
    <2> QED BY <2>1, Zenon DEF Comes, KeysComeBack
  <1> QED BY <1>1, Zenon DEF KeysInv

Joined(s, t) == s \o t
FollowEachOther(r, s, t) ==
    /\ r \in Seq(Lines) /\ Size(r) = Size(s) + Size(t)
    /\ \A i \in 1..Size(s) : r[i] = s[i]
    /\ \A i \in 1..Size(t) : r[Size(s) + i] = t[i]

LEMMA TwoJoined ==
    ASSUME NEW s \in Seq(Lines), NEW t \in Seq(Lines), NEW r, r = Joined(s, t)
    PROVE  FollowEachOther(r, s, t)
  <1>1. /\ r \in Seq(Lines) /\ Size(r) = Size(s) + Size(t)
        /\ \A i \in 1..(Size(s) + Size(t)) : r[i] = IF i <= Size(s) THEN s[i] ELSE t[i - Size(s)]
    BY TwoSeqs, Zenon DEF Joined
  <1>2. Size(s) \in Nat /\ Size(t) \in Nat
    BY SizeOfASeq, Zenon
  <1> DEFINE m == Size(s)
             n == Size(t)
  <1>3. \A i \in 1..(m + n) : r[i] = IF i <= m THEN s[i] ELSE t[i - m]
    BY <1>1, Zenon
  <1>4. m \in Nat /\ n \in Nat
    BY <1>2, Zenon
  <1> HIDE DEF m, n
  <1>5. ASSUME NEW i \in 1..m PROVE r[i] = s[i]
    BY <1>3, <1>4
  <1>6. ASSUME NEW i \in 1..n PROVE r[m + i] = t[i]
    <2>1. m + i \in 1..(m + n) /\ ~(m + i <= m) /\ (m + i) - m = i
      BY <1>4
    <2> QED BY <1>3, <2>1, Zenon
  <1> QED BY <1>1, <1>5, <1>6, Zenon DEF FollowEachOther, m, n

\* the .pem file of another program has two blocks
HasBlocks(file, w1, w2) ==
    /\ file \in Seq(Lines) /\ Size(file) = 10
    /\ \A i \in 1..5 : file[i] = Block(w1)[i] /\ file[5 + i] = Block(w2)[i]

LEMMA TwoBlocks ==
    ASSUME NEW w1 \in Wallets, NEW w2 \in Wallets, NEW file, file = Joined(Block(w1), Block(w2))
    PROVE  HasBlocks(file, w1, w2)
  <1> DEFINE a == Block(w1)
             b == Block(w2)
  <1>1. a \in Seq(Lines) /\ b \in Seq(Lines) /\ Size(a) = 5 /\ Size(b) = 5
    BY BlockInLines, BlockLines, Zenon DEF Size
  <1>2. file = Joined(a, b)
    BY Zenon
  <1> HIDE DEF a, b
  <1>3. /\ file \in Seq(Lines) /\ Size(file) = Size(a) + Size(b)
        /\ \A i \in 1..Size(a) : file[i] = a[i]
        /\ \A i \in 1..Size(b) : file[Size(a) + i] = b[i]
    <2>1. FollowEachOther(file, a, b)
      BY <1>1, <1>2, TwoJoined, Zenon
    <2> QED BY <2>1, Zenon DEF FollowEachOther
  <1> QED BY <1>1, <1>3 DEF HasBlocks, a, b

LEMMA ZeroIsNotOne == 0 # 1
  OBVIOUS

LEMMA InitKeysInv == KeysInit => KeysInv
  <1> SUFFICES ASSUME KeysInit PROVE KeysInv
    BY Zenon
  <1>1. saving = NotSaving /\ loaded = NotLoaded /\ cut = [json |-> 0, pem |-> 0]
    BY Zenon DEF KeysInit
  <1>2. SaveShape(saving, askedFor) /\ saving.file # "pem" /\ saving.file # "json"
    BY <1>1, NotSavingShape, Zenon
  <1>3. cut["json"] = 0 /\ cut["pem"] = 0
    BY <1>1, Zenon
  <1>4. KeysComeBack
    <2>1. Comes(loaded, askedFor, lastSaved, cut)
      BY <1>1, NothingComes, Zenon
    <2> QED BY <2>1, Zenon DEF Comes, KeysComeBack
  <1>5. CASE /\ jsonFile = Absent
             /\ askedFor = [json |-> {}, pem |-> {}]
             /\ lastSaved = [json |-> NoWallet, pem |-> NoWallet]
             /\ pemFile = <<>>
    <2>1. HistoryShape(askedFor, lastSaved, cut) /\ lastSaved["json"] = NoWallet /\ lastSaved["pem"] = NoWallet
      BY <1>1, <1>5 DEF HistoryShape
    <2>2. pemFile \in Seq(Lines) /\ Size(pemFile) = 0
      BY <1>5 DEF Size
    <2>3. PemFile(pemFile, askedFor["pem"]) /\ Mixed(pemFile, <<0, 0>>, 0, lastSaved["pem"])
      BY <2>1, <2>2 DEF PemFile, Mixed
    <2>4. PemInv(pemFile, askedFor["pem"], lastSaved["pem"], cut["pem"], saving)
      BY <1>2, <1>3, <2>3, ZeroIsNotOne, Zenon DEF PemInv
    <2>5. JsonInv(jsonFile, askedFor["json"], lastSaved["json"], cut["json"], saving)
      BY <1>2, <1>5, <2>1, Zenon DEF JsonInv
    <2> QED BY <1>1, <1>2, <1>4, <2>1, <2>4, <2>5, Zenon DEF KeysInv
  <1>6. CASE \E p \in Passwords, w1, w2 \in Wallets :
               /\ jsonFile = [kind |-> "mnemonic", password |-> p]
               /\ askedFor = [json |-> {<<0, 0>>}, pem |-> {w1, w2}]
               /\ lastSaved = [json |-> <<0, 0>>, pem |-> w1]
               /\ pemFile = pemBlock(<<GetPrivateKeyFromMnemonic(w1)>>) \o pemBlock(<<GetPrivateKeyFromMnemonic(w2)>>)
    <2>1. PICK p \in Passwords, w1 \in Wallets, w2 \in Wallets :
               /\ jsonFile = [kind |-> "mnemonic", password |-> p]
               /\ askedFor = [json |-> {<<0, 0>>}, pem |-> {w1, w2}]
               /\ lastSaved = [json |-> <<0, 0>>, pem |-> w1]
               /\ pemFile = pemBlock(<<GetPrivateKeyFromMnemonic(w1)>>) \o pemBlock(<<GetPrivateKeyFromMnemonic(w2)>>)
      BY <1>6, Zenon
    <2> DEFINE zero == <<0, 0>>
    <2>2. zero \in Wallets
      BY IndexesBelowTheBit, Zenon
    <2>3. askedFor = [json |-> {zero}, pem |-> {w1, w2}] /\ lastSaved = [json |-> zero, pem |-> w1]
      BY <2>1, Zenon
    <2> HIDE DEF zero
    <2>4. /\ HistoryShape(askedFor, lastSaved, cut) /\ lastSaved["json"] = zero /\ lastSaved["pem"] = w1
          /\ askedFor["json"] = {zero} /\ askedFor["pem"] = {w1, w2}
      BY <1>1, <2>2, <2>3 DEF HistoryShape
    <2>5. pemFile = Joined(Block(w1), Block(w2))
      BY <2>1, Zenon DEF Joined, Block, Key
    <2>6. /\ pemFile \in Seq(Lines) /\ Size(pemFile) = 10
          /\ \A i \in 1..5 : pemFile[i] = Block(w1)[i] /\ pemFile[5 + i] = Block(w2)[i]
      <3>1. HasBlocks(pemFile, w1, w2)
        BY <2>5, TwoBlocks, Zenon
      <3> QED BY <3>1, Zenon DEF HasBlocks
    <2>7. PemFile(pemFile, askedFor["pem"])
      BY <2>4, <2>6 DEF PemFile
    <2>8. Mixed(pemFile, <<0, 0>>, 0, w1)
      <3>1. w1 # NoWallet
        BY NoWalletIsNone, Zenon
      <3>2. 0 <= Size(pemFile) /\ Size(pemFile) >= 5 /\ 1..0 = {} /\ (0 + 1)..5 = 1..5
        BY <2>6
      <3> QED BY <2>6, <3>1, <3>2, Zenon DEF Mixed
    <2>9. PemInv(pemFile, askedFor["pem"], lastSaved["pem"], cut["pem"], saving)
      BY <1>2, <1>3, <2>4, <2>7, <2>8, ZeroIsNotOne, Zenon DEF PemInv
    <2>10. HoldsKey(jsonFile, zero)
      BY <2>1, Zenon DEF HoldsKey, zero
    <2>11. JsonInv(jsonFile, askedFor["json"], lastSaved["json"], cut["json"], saving)
      <3>1. zero \in askedFor["json"]
        BY <2>4, Zenon
      <3> QED BY <1>2, <2>4, <2>10, <3>1, Zenon DEF JsonInv
    <2> QED BY <1>1, <1>2, <1>4, <2>4, <2>9, <2>11, Zenon DEF KeysInv
  <1> QED BY <1>5, <1>6, Zenon DEF KeysInit

LEMMA NextKeysInv == KeysInv /\ [KeysNext]_keyVars => KeysInv'
  <1> SUFFICES ASSUME KeysInv, [KeysNext]_keyVars PROVE KeysInv'
    BY Zenon
  <1>1. CASE \E w \in Wallets : SavePrivateKeyToPemFile(w)
    BY <1>1, PemSaveStarts, Zenon
  <1>2. CASE \E w \in Wallets, p \in Passwords : SavePrivateKeyToJsonFile(w, p)
    BY <1>2, JsonSaveStarts, Zenon
  <1>3. CASE Write
    <2>1. CASE WriteKeystore
      BY <1>3, <2>1, KeystoreIsWritten, Zenon
    <2>2. CASE WriteLine
      <3>1. CASE /\ Len(saving.rest) = 1
                 /\ saving' = NotSaving
                 /\ lastSaved' = [lastSaved EXCEPT ![saving.file] = saving.of]
                 /\ cut' = [cut EXCEPT ![saving.file] = 0]
        <4>1. /\ Size(saving.rest) = 1
              /\ lastSaved' = Noted(lastSaved, saving.file, saving.of) /\ cut' = Noted(cut, saving.file, 0)
          BY <3>1, Zenon DEF Size, Noted
        <4> QED BY <1>3, <2>2, <3>1, <4>1, LastLine, Zenon
      <3>2. CASE /\ Len(saving.rest) > 1
                 /\ saving' = [saving EXCEPT !.rest = Tail(@)]
                 /\ UNCHANGED <<lastSaved, cut>>
        <4>1. /\ Size(saving.rest) > 1 /\ saving' = [saving EXCEPT !.rest = Tail(saving.rest)]
              /\ lastSaved' = lastSaved /\ cut' = cut
          BY <3>2, Zenon DEF Size
        <4> QED BY <1>3, <2>2, <4>1, AnotherLine, Zenon
      <3> QED BY <1>3, <3>1, <3>2, Zenon DEF Write
    <2> QED BY <1>3, <2>1, <2>2, Zenon DEF Write
  <1>4. CASE Interrupted
    BY <1>4, SaveIsCut, Zenon
  <1>5. CASE LoadPrivateKeyFromPemFile
    <2>1. /\ saving = NotSaving /\ loaded' = LoadPrivateKeyFromPemData
          /\ UNCHANGED <<jsonFile, pemFile, saving, askedFor, lastSaved, cut>>
      BY <1>5, Zenon DEF LoadPrivateKeyFromPemFile
    <2>2. Comes(loaded', askedFor, lastSaved, cut)
      BY <2>1, PemComes, Zenon
    <2> QED BY <2>1, <2>2, KeyIsLoaded, Zenon
  <1>6. CASE \E p \in Passwords : LoadPrivateKeyFromJsonFile(p)
    <2>1. PICK p \in Passwords : LoadPrivateKeyFromJsonFile(p)
      BY <1>6, Zenon
    <2>2. saving = NotSaving /\ UNCHANGED <<jsonFile, pemFile, saving, askedFor, lastSaved, cut>>
      BY <2>1, Zenon DEF LoadPrivateKeyFromJsonFile
    <2>3. Comes(loaded', askedFor, lastSaved, cut)
      BY <2>1, JsonComes, Zenon
    <2> QED BY <2>2, <2>3, KeyIsLoaded, Zenon
  <1>7. CASE UNCHANGED keyVars
    BY <1>7, Zenon DEF keyVars, KeysInv, KeysComeBack
  <1> QED BY <1>1, <1>2, <1>3, <1>4, <1>5, <1>6, <1>7, Zenon DEF KeysNext

(* Whatever is saved and however a save is cut short, the key that         *)
(* LoadPrivateKeyFromPemFile or LoadPrivateKeyFromJsonFile returns belongs *)
(* to one wallet the file was asked to hold, up to one cut save of a .pem  *)
(* file; and after a save that went through it is that wallet's.           *)
THEOREM KeysAlwaysComeBack == KeysSpec => []KeysComeBack
  <1>1. KeysInv => KeysComeBack
    BY Zenon DEF KeysInv
  <1> QED BY <1>1, InitKeysInv, NextKeysInv, PTL DEF KeysSpec

-----------------------------------------------------------------------------
(* The transaction worker.  The inductive invariant says where an          *)
(* unanswered request can be: in the map of promised channels (and then in *)
(* the queue, or in the hand of the worker), or in the worker's local      *)
(* variable r.  Nothing else is needed to see that a channel is written at *)
(* most once.                                                              *)

USE NoncesAreNaturals, NilIsNoRequest

Sending == pc \in {"send", "respond"}

\* every request is promised under at most one nonce
OneNonceEach ==
    \A m, n \in Nonces :
        responsesChannels[m] = responsesChannels[n] /\ responsesChannels[m] # Nil => m = n

\* where the worker's local variables point
LocalsMatch ==
    /\ Sending => /\ channel = current.req
                  /\ channel \in added
                  /\ answers[channel] = <<>>
                  /\ \A n \in Nonces : responsesChannels[n] # channel
    /\ pc = "respond" => /\ response.tx \in {channel, Nil}
                         /\ response.err \in {"none", "proxyError"}
    /\ workerClosed <=> pc = "closed"

\* who has been answered
Answered ==
    /\ \A r \in Requests : r \notin added => answers[r] = <<>>
    /\ \A r \in taken : answers[r] # <<>>
    /\ \A n \in Nonces : responsesChannels[n] # Nil =>
         /\ responsesChannels[n] \in added
         /\ ~workerClosed => answers[responsesChannels[n]] = <<>>
    /\ \A r \in added : answers[r] = <<>> =>
         \/ \E n \in Nonces : responsesChannels[n] = r
         \/ Sending /\ r = channel

IInv ==
    /\ TypeOK
    /\ QueueMatchesMap
    /\ OneNonceEach
    /\ LocalsMatch
    /\ Answered
    /\ OneAnswerOfItsOwn
    /\ ClosedAnswersEveryone

-----------------------------------------------------------------------------

LEMMA AppendEmpty ==
    ASSUME NEW S, NEW e \in S
    PROVE  /\ Append(<<>>, e) \in Seq(S)
           /\ Len(Append(<<>>, e)) = 1
           /\ Append(<<>>, e)[1] = e
           /\ Append(<<>>, e) # <<>>
  OBVIOUS

LEMMA EmptySequence ==
    ASSUME NEW S
    PROVE  <<>> \in Seq(S) /\ Len(<<>>) = 0
  OBVIOUS

LEMMA SameItem ==
    ASSUME NEW a \in Items, NEW b \in Items, a.req = b.req, a.nonce = b.nonce
    PROVE  a = b
  BY DEF Items

LEMMA InitIInv == Init => IInv
  <1> SUFFICES ASSUME Init PROVE IInv
    BY Zenon
  <1>1. TypeOK
    <2>1. answers \in [Requests -> Seq(Responses)]
      BY EmptySequence, Zenon DEF Init
    <2>2. sent \in Seq(Items)
      BY EmptySequence, Zenon DEF Init
    <2> QED BY <2>1, <2>2, Zenon DEF Init, TypeOK
  <1>2. OneAnswerOfItsOwn
    BY Zenon DEF Init, OneAnswerOfItsOwn
  <1>3. QueueMatchesMap /\ OneNonceEach
    BY Zenon DEF Init, QueueMatchesMap, OneNonceEach, Scheduled
  <1>4. LocalsMatch /\ Answered /\ ClosedAnswersEveryone
    BY Zenon DEF Init, LocalsMatch, Answered, ClosedAnswersEveryone, Sending
  <1> QED BY <1>1, <1>2, <1>3, <1>4, Zenon DEF IInv

LEMMA RefuseIInv ==
    ASSUME IInv, NEW r \in Requests, NEW n \in Nonces, NEW e \in {"ErrWorkerClosed", "alreadyScheduled"},
           r \notin added, added' = added \cup {r},
           popsBefore' = [popsBefore EXCEPT ![r] = HasLeftQueue],
           Refuse(r, e), UNCHANGED <<ctxDone, workerVars, taken, sent>>
    PROVE  IInv'
  <1> USE DEF queueVars, workerVars
  <1>1. answers[r] = <<>>
    BY Zenon DEF IInv, Answered
  <1>2. Failed(e) \in Responses /\ Failed(e).tx = Nil
    BY Zenon DEF Failed, Responses
  <1>3. /\ answers' = [answers EXCEPT ![r] = Append(<<>>, Failed(e))]
        /\ UNCHANGED <<tq, responsesChannels, workerClosed, pc, current, channel, response>>
    BY <1>1, Zenon DEF Refuse, IInv, TypeOK
  <1>4. HasLeftQueue \in Nat
    BY DEF HasLeftQueue, IInv, TypeOK
  <1>5. TypeOK'
    <2>1. Append(<<>>, Failed(e)) \in Seq(Responses)
      BY <1>2, AppendEmpty, Zenon
    <2>2. answers' \in [Requests -> Seq(Responses)]
      BY <1>3, <2>1, Zenon DEF IInv, TypeOK
    <2>3. popsBefore' \in [Requests -> Nat]
      BY <1>4, Zenon DEF IInv, TypeOK
    <2> QED BY <1>3, <2>2, <2>3, Zenon DEF IInv, TypeOK
  <1>6. QueueMatchesMap' /\ OneNonceEach'
    BY <1>3, Zenon DEF IInv, QueueMatchesMap, OneNonceEach, Scheduled
  <1>7. /\ answers'[r] = Append(<<>>, Failed(e))
        /\ \A q \in Requests : q # r => answers'[q] = answers[q]
    BY <1>3, Zenon DEF IInv, TypeOK
  <1>8. LocalsMatch'
    BY <1>3, <1>7, Zenon DEF IInv, TypeOK, LocalsMatch, Sending
  <1>9. Answered'
    BY <1>2, <1>3, <1>7, AppendEmpty, SMTT(30) DEF IInv, TypeOK, Answered, Sending
  <1>10. OneAnswerOfItsOwn'
    <2>1. Len(answers'[r]) = 1 /\ answers'[r][1].tx = Nil
      BY <1>2, <1>7, AppendEmpty, Zenon
    <2> QED BY <1>7, <2>1, Zenon DEF IInv, OneAnswerOfItsOwn
  <1>11. ClosedAnswersEveryone'
    BY <1>2, <1>3, <1>7, AppendEmpty, Zenon DEF IInv, TypeOK, ClosedAnswersEveryone
  <1> QED BY <1>5, <1>6, <1>8, <1>9, <1>10, <1>11, Zenon DEF IInv

LEMMA ScheduleIInv ==
    ASSUME IInv, NEW r \in Requests, NEW n \in Nonces,
           r \notin added, added' = added \cup {r},
           popsBefore' = [popsBefore EXCEPT ![r] = HasLeftQueue],
           ~workerClosed, responsesChannels[n] = Nil,
           Schedule(r, n), UNCHANGED <<ctxDone, workerVars, taken, sent>>
    PROVE  IInv'
  <1> USE DEF workerVars
  <1> DEFINE item == [req |-> r, nonce |-> n]
  <1>1. /\ tq' = tq \cup {item}
        /\ item \in Items
        /\ UNCHANGED <<workerClosed, answers, pc, current, channel, response>>
    BY Zenon DEF Schedule, Items
  <1>2. /\ responsesChannels'[n] = r
        /\ \A m \in Nonces : m # n => responsesChannels'[m] = responsesChannels[m]
        /\ responsesChannels' \in [Nonces -> Requests \cup {Nil}]
    BY Zenon DEF Schedule, IInv, TypeOK
  <1>3. HasLeftQueue \in Nat
    BY DEF HasLeftQueue, IInv, TypeOK
  <1>4. TypeOK'
    BY <1>1, <1>2, <1>3, Zenon DEF IInv, TypeOK
  <1>5. /\ Scheduled \subseteq Items
        /\ \A it \in Scheduled : it.nonce \in Nonces /\ it.nonce # n
    <2>1. Scheduled \subseteq Items
      BY Zenon DEF IInv, TypeOK, Scheduled
    <2>2. \A it \in Scheduled : responsesChannels[it.nonce] = it.req /\ it.req \in Requests
      BY <2>1, Zenon DEF IInv, QueueMatchesMap, Items
    <2> QED BY <2>1, <2>2, Zenon DEF Items
  <1>6. Scheduled' = Scheduled \cup {item}
    BY <1>1, Zenon DEF Scheduled
  <1>7. QueueMatchesMap'
    <2>1. ASSUME NEW it \in Scheduled' PROVE responsesChannels'[it.nonce] = it.req
      <3>1. CASE it = item
        BY <1>2, <3>1, Zenon
      <3>2. CASE it \in Scheduled
        <4>1. responsesChannels[it.nonce] = it.req
          BY <3>2, Zenon DEF IInv, QueueMatchesMap
        <4>2. it.nonce \in Nonces /\ it.nonce # n
          BY <1>5, <3>2, Zenon
        <4> QED BY <1>2, <4>1, <4>2, Zenon
      <3> QED BY <1>6, <3>1, <3>2, Zenon
    <2>2. ASSUME NEW m \in Nonces, responsesChannels'[m] # Nil
          PROVE  [req |-> responsesChannels'[m], nonce |-> m] \in Scheduled'
      BY <1>2, <1>6, <2>2, Zenon DEF IInv, QueueMatchesMap
    <2>3. pc' = "retrieve" => current' \notin tq'
      BY <1>1, <1>5, Zenon DEF IInv, QueueMatchesMap, Scheduled
    <2> QED BY <2>1, <2>2, <2>3, Zenon DEF QueueMatchesMap
  <1>8. OneNonceEach'
    <2>1. \A m \in Nonces : m # n => responsesChannels'[m] # r
      BY <1>2, NilIsNoRequest, Zenon DEF IInv, Answered
    <2>2. ASSUME NEW m \in Nonces, NEW k \in Nonces, responsesChannels'[m] # Nil,
                 responsesChannels'[m] = responsesChannels'[k], m # n, k # n
          PROVE  m = k
      BY <1>2, <2>2, Zenon DEF IInv, OneNonceEach
    <2> QED BY <1>2, <2>1, <2>2, Zenon DEF OneNonceEach
  <1>9. LocalsMatch'
    BY <1>1, <1>2, Zenon DEF IInv, LocalsMatch, Sending
  <1>10. Answered'
    <2>1. /\ \A q \in Requests : q \notin added' => answers'[q] = <<>>
          /\ \A q \in taken' : answers'[q] # <<>>
      BY <1>1, Zenon DEF IInv, Answered
    <2>2. \A m \in Nonces : responsesChannels'[m] # Nil =>
            /\ responsesChannels'[m] \in added'
            /\ ~workerClosed' => answers'[responsesChannels'[m]] = <<>>
      <3>1. r \in added' /\ answers'[r] = <<>>
        BY <1>1, Zenon DEF IInv, Answered
      <3>2. \A m \in Nonces : responsesChannels[m] # Nil =>
              responsesChannels[m] \in added' /\ answers'[responsesChannels[m]] = <<>>
        BY <1>1, Zenon DEF IInv, Answered
      <3> QED BY <1>2, <3>1, <3>2, Zenon
    <2>3. \A q \in added' : answers'[q] = <<>> =>
            \/ \E m \in Nonces : responsesChannels'[m] = q
            \/ Sending' /\ q = channel'
      <3> SUFFICES ASSUME NEW q \in added, answers[q] = <<>>
                   PROVE  \/ \E m \in Nonces : responsesChannels'[m] = q
                          \/ Sending /\ q = channel
        BY <1>1, <1>2, Zenon DEF Sending
      <3>1. q # Nil
        BY Zenon DEF IInv, TypeOK
      <3> QED BY <1>2, <3>1, ZenonT(30) DEF IInv, Answered
    <2> QED BY <2>1, <2>2, <2>3, Zenon DEF Answered
  <1>11. OneAnswerOfItsOwn' /\ ClosedAnswersEveryone'
    BY <1>1, Zenon DEF IInv, OneAnswerOfItsOwn, ClosedAnswersEveryone
  <1> QED BY <1>4, <1>7, <1>8, <1>9, <1>10, <1>11, Zenon DEF IInv

LEMMA AddTransactionIInv ==
    ASSUME IInv, NEW r \in Requests, NEW n \in Nonces, AddTransaction(r, n)
    PROVE  IInv'
  BY RefuseIInv, ScheduleIInv, Zenon DEF AddTransaction

LEMMA ReceiveIInv ==
    ASSUME IInv, NEW r \in Requests, Receive(r)
    PROVE  IInv'
  <1> USE DEF queueVars, workerVars
  <1>1. answers[r] # <<>>
    BY EmptySequence DEF Receive, Buffered, IInv, TypeOK
  <1>2. TypeOK'
    BY Zenon DEF Receive, IInv, TypeOK
  <1>3. Answered'
    BY <1>1, Zenon DEF Receive, IInv, Answered, Sending
  <1> QED
    BY <1>2, <1>3, Zenon DEF Receive, IInv, QueueMatchesMap, Scheduled, OneNonceEach, LocalsMatch,
       Sending, OneAnswerOfItsOwn, ClosedAnswersEveryone

LEMMA CancelIInv == ASSUME IInv, Cancel PROVE IInv'
  <1>1. ctxDone' \in BOOLEAN
    BY Zenon DEF Cancel
  <1>2. UNCHANGED <<tq, responsesChannels, workerClosed, pc, current, channel, response,
                    added, answers, taken, sent, popsBefore>>
    BY Zenon DEF Cancel, queueVars, workerVars
  <1>3. TypeOK'
    BY <1>1, <1>2, Zenon DEF IInv, TypeOK
  <1>4. QueueMatchesMap' /\ OneNonceEach' /\ LocalsMatch'
    BY <1>2, Zenon DEF IInv, QueueMatchesMap, Scheduled, OneNonceEach, LocalsMatch, Sending
  <1>5. Answered' /\ OneAnswerOfItsOwn' /\ ClosedAnswersEveryone'
    BY <1>2, Zenon DEF IInv, Answered, Sending, OneAnswerOfItsOwn, ClosedAnswersEveryone
  <1> QED BY <1>3, <1>4, <1>5, Zenon DEF IInv

LEMMA NextTransactionIInv == ASSUME IInv, nextTransaction PROVE IInv'
  <1>1. PICK item \in tq : tq' = tq \ {item} /\ current' = item
    BY Zenon DEF nextTransaction
  <1>2. /\ pc = "select" /\ pc' = "retrieve"
        /\ UNCHANGED <<responsesChannels, workerClosed, ctxDone, channel, response,
                       added, answers, taken, sent, popsBefore>>
    BY Zenon DEF nextTransaction
  <1>3. TypeOK'
    BY <1>1, <1>2, Zenon DEF IInv, TypeOK
  <1>4. Scheduled' = Scheduled
    BY <1>1, <1>2, Zenon DEF Scheduled
  <1>5. QueueMatchesMap'
    BY <1>1, <1>2, <1>4, Zenon DEF IInv, QueueMatchesMap
  <1>6. OneNonceEach' /\ LocalsMatch' /\ Answered' /\ OneAnswerOfItsOwn' /\ ClosedAnswersEveryone'
    BY <1>2, Zenon DEF IInv, OneNonceEach, LocalsMatch, Answered, Sending,
                OneAnswerOfItsOwn, ClosedAnswersEveryone
  <1> QED BY <1>3, <1>5, <1>6, Zenon DEF IInv

LEMMA RetrieveChannelIInv == ASSUME IInv, retrieveChannel PROVE IInv'
  <1> DEFINE n == current.nonce
  <1>1. /\ pc = "retrieve" /\ pc' = "send"
        /\ UNCHANGED <<tq, workerClosed, ctxDone, current, response,
                       added, answers, taken, sent, popsBefore>>
    BY Zenon DEF retrieveChannel
  <1>2. current \in Items /\ n \in Nonces /\ current.req \in Requests
    BY <1>1, Zenon DEF IInv, TypeOK, Items
  <1>3. channel' = current.req /\ responsesChannels[n] = current.req
    BY <1>1, Zenon DEF retrieveChannel, IInv, QueueMatchesMap, Scheduled
  <1>4. /\ responsesChannels'[n] = Nil
        /\ \A m \in Nonces : m # n => responsesChannels'[m] = responsesChannels[m]
        /\ responsesChannels' \in [Nonces -> Requests \cup {Nil}]
    BY <1>2, Zenon DEF retrieveChannel, IInv, TypeOK
  <1>5. TypeOK'
    BY <1>1, <1>2, <1>3, <1>4, Zenon DEF IInv, TypeOK
  <1>6. Scheduled = tq \cup {current} /\ Scheduled' = tq /\ current \notin tq
    BY <1>1, Zenon DEF Scheduled, IInv, QueueMatchesMap
  <1>7. QueueMatchesMap'
    <2>1. \A it \in tq : it \in Items /\ it.nonce # n
      <3> SUFFICES ASSUME NEW it \in tq, it.nonce = n PROVE FALSE
        BY Zenon DEF IInv, TypeOK
      <3>1. it.req = current.req
        BY <1>3, <1>6, Zenon DEF IInv, QueueMatchesMap
      <3>2. it = current
        <4>1. it \in Items
          BY Zenon DEF IInv, TypeOK
        <4> QED BY <1>2, <3>1, <4>1, SameItem, Zenon
      <3> QED BY <1>6, <3>2, Zenon
    <2>2. \A it \in Scheduled' : responsesChannels'[it.nonce] = it.req
      BY <1>4, <1>6, <2>1, Zenon DEF IInv, QueueMatchesMap, Items
    <2>3. \A m \in Nonces : responsesChannels'[m] # Nil =>
             [req |-> responsesChannels'[m], nonce |-> m] \in Scheduled'
      <3> SUFFICES ASSUME NEW m \in Nonces, responsesChannels'[m] # Nil
                   PROVE  [req |-> responsesChannels'[m], nonce |-> m] \in tq
        BY <1>6, Zenon
      <3>1. m # n /\ responsesChannels'[m] = responsesChannels[m]
        BY <1>4, Zenon
      <3>2. [req |-> responsesChannels[m], nonce |-> m] \in Scheduled
        BY <3>1, Zenon DEF IInv, QueueMatchesMap
      <3>3. [req |-> responsesChannels[m], nonce |-> m] # current
        BY <3>1
      <3> QED BY <1>6, <3>1, <3>2, <3>3, Zenon
    <2> QED BY <1>1, <2>2, <2>3, Zenon DEF QueueMatchesMap
  <1>8. OneNonceEach'
    BY <1>4, Zenon DEF IInv, OneNonceEach
  <1>9. LocalsMatch'
    <2>1. channel' \in added /\ answers'[channel'] = <<>>
      BY <1>1, <1>2, <1>3, Zenon DEF IInv, Answered, LocalsMatch
    <2>2. ASSUME NEW m \in Nonces PROVE responsesChannels'[m] # channel'
      <3>1. CASE m = n
        BY <1>2, <1>3, <1>4, <3>1, NilIsNoRequest, Zenon
      <3>2. CASE m # n
        <4>1. responsesChannels'[m] = responsesChannels[m]
          BY <1>4, <3>2, Zenon
        <4>2. responsesChannels[m] # responsesChannels[n]
          BY <1>2, <1>3, <3>2, NilIsNoRequest, Zenon DEF IInv, OneNonceEach
        <4> QED BY <1>3, <4>1, <4>2, Zenon
      <3> QED BY <3>1, <3>2, Zenon
    <2> QED BY <1>1, <1>3, <2>1, <2>2, Zenon DEF IInv, LocalsMatch, Sending
  <1>10. Answered'
    <2>1. \A m \in Nonces : responsesChannels'[m] # Nil =>
            /\ responsesChannels'[m] \in added'
            /\ ~workerClosed' => answers'[responsesChannels'[m]] = <<>>
      BY <1>1, <1>4, Zenon DEF IInv, Answered
    <2>2. ASSUME NEW q \in added', answers'[q] = <<>>
          PROVE  (\E m \in Nonces : responsesChannels'[m] = q) \/ q = channel'
      <3>1. PICK m \in Nonces : responsesChannels[m] = q
        BY <1>1, <2>2, Zenon DEF IInv, Answered, Sending
      <3>2. CASE m = n
        BY <1>3, <3>1, <3>2, Zenon
      <3>3. CASE m # n
        BY <1>4, <3>1, <3>3, Zenon
      <3> QED BY <3>2, <3>3, Zenon
    <2> QED BY <1>1, <2>1, <2>2, Zenon DEF IInv, Answered, Sending
  <1>11. OneAnswerOfItsOwn' /\ ClosedAnswersEveryone'
    BY <1>1, Zenon DEF IInv, OneAnswerOfItsOwn, ClosedAnswersEveryone
  <1> QED BY <1>5, <1>7, <1>8, <1>9, <1>10, <1>11, Zenon DEF IInv

LEMMA SendTransactionIInv == ASSUME IInv, SendTransaction PROVE IInv'
  <1> USE DEF queueVars
  <1>1. /\ pc = "send" /\ pc' = "respond"
        /\ UNCHANGED <<queueVars, ctxDone, current, channel, added, answers, taken, popsBefore>>
    BY Zenon DEF SendTransaction
  <1>2. current \in Items /\ current.req \in Requests
    BY <1>1, Zenon DEF IInv, TypeOK, Items
  <1>3. /\ response' \in Responses /\ response'.tx \in {current.req, Nil}
        /\ response'.err \in {"none", "proxyError"}
    BY <1>2 DEF SendTransaction, Responses, Failed
  <1>4. sent' \in Seq(Items)
    BY <1>2, SMTT(30) DEF SendTransaction, IInv, TypeOK
  <1>5. TypeOK'
    BY <1>1, <1>2, <1>3, <1>4, Zenon DEF IInv, TypeOK
  <1>6. LocalsMatch'
    BY <1>1, <1>3, Zenon DEF IInv, LocalsMatch, Sending
  <1>7. QueueMatchesMap' /\ OneNonceEach' /\ OneAnswerOfItsOwn' /\ ClosedAnswersEveryone' /\ Answered'
    BY <1>1, Zenon DEF IInv, QueueMatchesMap, Scheduled, OneNonceEach, Answered, Sending,
                OneAnswerOfItsOwn, ClosedAnswersEveryone
  <1> QED BY <1>5, <1>6, <1>7, Zenon DEF IInv

LEMMA RespondIInv == ASSUME IInv, Respond PROVE IInv'
  <1> USE DEF queueVars
  <1>1. /\ pc = "respond" /\ pc' = "select" /\ current' = Nil /\ channel' = Nil /\ response' = Nil
        /\ UNCHANGED <<queueVars, ctxDone, added, taken, sent, popsBefore>>
    BY Zenon DEF Respond
  <1>2. /\ channel \in added /\ channel \in Requests /\ answers[channel] = <<>>
        /\ response \in Responses /\ response.tx \in {channel, Nil}
        /\ \A n \in Nonces : responsesChannels[n] # channel
    BY <1>1, Zenon DEF IInv, TypeOK, LocalsMatch, Sending
  <1>3. /\ answers'[channel] = Append(<<>>, response)
        /\ \A r \in Requests : r # channel => answers'[r] = answers[r]
    BY <1>2, Zenon DEF Respond, IInv, TypeOK
  <1>4. /\ answers'[channel] \in Seq(Responses) /\ Len(answers'[channel]) = 1
        /\ answers'[channel][1].tx \in {channel, Nil} /\ answers'[channel] # <<>>
    BY <1>2, <1>3, AppendEmpty, Zenon
  <1>5. TypeOK'
    <2>1. answers' \in [Requests -> Seq(Responses)]
      BY <1>2, <1>3, <1>4, Zenon DEF Respond, IInv, TypeOK
    <2> QED BY <1>1, <2>1, Zenon DEF IInv, TypeOK
  <1>6. QueueMatchesMap' /\ OneNonceEach'
    BY <1>1, Zenon DEF IInv, QueueMatchesMap, Scheduled, OneNonceEach
  <1>7. LocalsMatch'
    BY <1>1, Zenon DEF IInv, LocalsMatch, Sending
  <1>8. Answered'
    <2>1. /\ \A q \in Requests : q \notin added' => answers'[q] = <<>>
          /\ \A q \in taken' : answers'[q] # <<>>
      BY <1>1, <1>2, <1>3, <1>4, SMTT(30) DEF IInv, TypeOK, Answered
    <2>2. \A m \in Nonces : responsesChannels'[m] # Nil =>
            /\ responsesChannels'[m] \in added'
            /\ ~workerClosed' => answers'[responsesChannels'[m]] = <<>>
      BY <1>1, <1>2, <1>3, Zenon DEF IInv, TypeOK, Answered
    <2>3. \A q \in added' : answers'[q] = <<>> => \E m \in Nonces : responsesChannels'[m] = q
      BY <1>1, <1>2, <1>3, <1>4, Zenon DEF IInv, TypeOK, Answered
    <2> QED BY <2>1, <2>2, <2>3, Zenon DEF Answered
  <1>9. OneAnswerOfItsOwn'
    BY <1>3, <1>4, Zenon DEF IInv, OneAnswerOfItsOwn
  <1>10. ClosedAnswersEveryone'
    BY <1>1, Zenon DEF IInv, ClosedAnswersEveryone, LocalsMatch
  <1> QED BY <1>5, <1>6, <1>7, <1>8, <1>9, <1>10, Zenon DEF IInv

LEMMA CloseAllChannelsIInv == ASSUME IInv, closeAllChannels PROVE IInv'
  <1>1. /\ pc = "select" /\ pc' = "closed" /\ workerClosed' = TRUE /\ ~workerClosed
        /\ UNCHANGED <<tq, responsesChannels, ctxDone, current, channel, response,
                       added, taken, sent, popsBefore>>
    BY Zenon DEF closeAllChannels, IInv, LocalsMatch
  <1>2. \A r \in Promised : r \in added /\ r \in Requests /\ answers[r] = <<>>
    BY <1>1 DEF Promised, IInv, TypeOK, Answered
  <1>3. Failed("ctxErr") \in Responses /\ Failed("ctxErr").tx = Nil
    BY Zenon DEF Failed, Responses
  <1>4. /\ \A r \in Promised : answers'[r] = Append(<<>>, Failed("ctxErr"))
        /\ \A r \in Requests : r \notin Promised => answers'[r] = answers[r]
    BY <1>2, Zenon DEF closeAllChannels
  <1>5. \A r \in Promised : /\ answers'[r] \in Seq(Responses) /\ Len(answers'[r]) = 1
                            /\ answers'[r][1].tx = Nil /\ answers'[r] # <<>>
    BY <1>3, <1>4, AppendEmpty
  <1>6. TypeOK'
    <2>1. answers' \in [Requests -> Seq(Responses)]
      <3>1. \A r \in Requests : answers'[r] \in Seq(Responses)
        BY <1>4, <1>5, Zenon DEF IInv, TypeOK
      <3>2. answers' = [r \in Requests |-> answers'[r]]
        BY Zenon DEF closeAllChannels
      <3> QED BY <3>1, <3>2, Zenon
    <2> QED BY <1>1, <2>1, Zenon DEF IInv, TypeOK
  <1>7. QueueMatchesMap' /\ OneNonceEach'
    BY <1>1, Zenon DEF IInv, QueueMatchesMap, Scheduled, OneNonceEach
  <1>8. LocalsMatch'
    BY <1>1, Zenon DEF IInv, LocalsMatch, Sending
  <1>9. \A q \in added' : answers'[q] # <<>>
    <2> SUFFICES ASSUME NEW q \in added PROVE answers'[q] # <<>>
      BY <1>1, Zenon
    <2>1. CASE q \in Promised
      BY <1>5, <2>1, Zenon
    <2>2. CASE q \notin Promised
      <3>1. q \in Requests /\ q # Nil /\ \A m \in Nonces : responsesChannels[m] # q
        BY <2>2, Zenon DEF Promised, IInv, TypeOK
      <3>2. answers[q] # <<>>
        BY <1>1, <3>1, Zenon DEF IInv, Answered, Sending
      <3> QED BY <1>4, <2>2, <3>1, <3>2, Zenon
    <2> QED BY <2>1, <2>2, Zenon
  <1>10. Answered'
    <2>1. \A q \in Requests : q \notin added' => answers'[q] = <<>>
      BY <1>1, <1>2, <1>4, Zenon DEF IInv, Answered
    <2>2. \A q \in taken' : answers'[q] # <<>>
      BY <1>1, <1>9, Zenon DEF IInv, TypeOK
    <2>3. \A m \in Nonces : responsesChannels'[m] # Nil => responsesChannels'[m] \in added'
      BY <1>1, Zenon DEF IInv, Answered
    <2> QED BY <1>1, <1>9, <2>1, <2>2, <2>3, Zenon DEF Answered
  <1>11. OneAnswerOfItsOwn'
    BY <1>4, <1>5, Zenon DEF IInv, OneAnswerOfItsOwn
  <1>12. ClosedAnswersEveryone'
    BY <1>9, Zenon DEF ClosedAnswersEveryone
  <1> QED BY <1>6, <1>7, <1>8, <1>10, <1>11, <1>12, Zenon DEF IInv

LEMMA NextIInv == IInv /\ [Next]_vars => IInv'
  <1> SUFFICES ASSUME IInv, [Next]_vars PROVE IInv'
    BY Zenon
  <1>1. CASE UNCHANGED vars
    BY <1>1 DEF vars, queueVars, workerVars, IInv, TypeOK, QueueMatchesMap, Scheduled,
         OneNonceEach, LocalsMatch, Sending, Answered, OneAnswerOfItsOwn, ClosedAnswersEveryone
  <1>2. CASE Next
    BY <1>2, AddTransactionIInv, ReceiveIInv, CancelIInv, NextTransactionIInv, RetrieveChannelIInv,
       SendTransactionIInv, RespondIInv, CloseAllChannelsIInv, Zenon
    DEF Next, WorkerStep, processNextTransaction
  <1> QED BY <1>1, <1>2, Zenon

(* The inductive invariant holds in every reachable state.                 *)
THEOREM Invariance == Spec => []IInv
  BY InitIInv, NextIInv, PTL DEF Spec

(* Type correctness of the worker's state, for any requests and nonces.    *)
THEOREM TypeCorrect == Spec => []TypeOK
  <1>1. IInv => TypeOK
    BY Zenon DEF IInv
  <1> QED BY <1>1, Invariance, PTL

(* The two critical sections of nextTransaction and retrieveChannel keep   *)
(* the heap and the map of channels consistent.                            *)
THEOREM QueueMatchesMapAlways == Spec => []QueueMatchesMap
  <1>1. IInv => QueueMatchesMap
    BY Zenon DEF IInv
  <1> QED BY <1>1, Invariance, PTL

(* At most one answer is ever put on a promised channel, and a hash in it  *)
(* is the hash of the caller's own transaction.                            *)
THEOREM OneAnswer == Spec => []OneAnswerOfItsOwn
  <1>1. IInv => OneAnswerOfItsOwn
    BY Zenon DEF IInv
  <1> QED BY <1>1, Invariance, PTL

(* closeAllChannels leaves no caller without an answer, then or later.     *)
THEOREM CloseAnswers == Spec => []ClosedAnswersEveryone
  <1>1. IInv => ClosedAnswersEveryone
    BY Zenon DEF IInv
  <1> QED BY <1>1, Invariance, PTL

(* No send on a promised channel blocks: neither in processNextTransaction *)
(* nor in closeAllChannels, which holds the mutex.                         *)
THEOREM NoSendBlocks == Spec => []SendsNeverBlock
  <1>1. IInv => SendsNeverBlock
    <2> SUFFICES ASSUME IInv PROVE SendsNeverBlock
      BY Zenon
    <2>1. ASSUME NEW r \in Requests, answers[r] = <<>> PROVE CanSend(r)
      <3>1. Len(answers[r]) = 0 /\ r \notin taken
        BY <2>1, EmptySequence, Zenon DEF IInv, Answered
      <3> QED BY <3>1 DEF CanSend, Buffered, ChannelCapacity
    <2>2. pc = "respond" => CanSend(channel)
      BY <2>1, Zenon DEF IInv, TypeOK, LocalsMatch, Sending
    <2>3. ASSUME pc = "select", NEW r \in Promised PROVE CanSend(r)
      <3>1. PICK n \in Nonces : r = responsesChannels[n] /\ r # Nil
        BY Zenon DEF Promised
      <3>2. ~workerClosed
        BY <2>3, Zenon DEF IInv, LocalsMatch
      <3>3. r \in Requests /\ answers[r] = <<>>
        BY <3>1, <3>2, Zenon DEF IInv, TypeOK, Answered
      <3> QED BY <2>1, <3>3, Zenon
    <2> QED BY <2>2, <2>3, Zenon DEF SendsNeverBlock
  <1> QED BY <1>1, Invariance, PTL

-----------------------------------------------------------------------------
(* The worker implements ResponsePromise (safety part): a request leaves   *)
(* "waiting" exactly when its one answer is put on its channel.            *)

LEMMA AddTransactionPromise ==
    ASSUME IInv, NEW r \in Requests, NEW n \in Nonces, AddTransaction(r, n)
    PROVE  Promise!Submit(r) \/ Promise!Reject(r)
  <1> USE DEF queueVars
  <1>1. StatusOf(r) = "idle" /\ answers[r] = <<>>
    BY Zenon DEF AddTransaction, StatusOf, IInv, Answered
  <1>2. ASSUME NEW e \in {"ErrWorkerClosed", "alreadyScheduled"}, Refuse(r, e)
        PROVE  Promise!Reject(r)
    <2>1. /\ answers'[r] = Append(<<>>, Failed(e))
          /\ \A q \in Requests : q # r => answers'[q] = answers[q]
      BY <1>1, <1>2, Zenon DEF Refuse, IInv, TypeOK
    <2>2. answers'[r] # <<>> /\ answers'[r][1] = Failed(e) /\ r \in added'
      <3>1. Failed(e) \in Responses
        BY Zenon DEF Failed, Responses
      <3> QED BY <2>1, <3>1, AppendEmpty, Zenon DEF AddTransaction
    <2>3. Outcome(Failed(e).err) = "rejected"
      BY Zenon DEF Outcome, Failed
    <2>4. StatusOf(r)' = "rejected"
      BY <2>2, <2>3, Zenon DEF StatusOf
    <2>5. \A q \in Requests : q # r => StatusOf(q)' = StatusOf(q)
      BY <2>1, Zenon DEF StatusOf, AddTransaction
    <2>6. workerClosed' = workerClosed
      BY <1>2, Zenon DEF Refuse
    <2> QED BY <1>1, <2>4, <2>5, <2>6, Zenon DEF Promise!Reject
  <1>3. ASSUME ~workerClosed, Schedule(r, n)
        PROVE  Promise!Submit(r)
    <2>1. StatusOf(r)' = "waiting"
      BY <1>1, <1>3, Zenon DEF Schedule, AddTransaction, StatusOf
    <2>2. \A q \in Requests : q # r => StatusOf(q)' = StatusOf(q)
      BY <1>3, Zenon DEF Schedule, AddTransaction, StatusOf
    <2>3. workerClosed' = workerClosed
      BY <1>3, Zenon DEF Schedule
    <2> QED BY <1>1, <1>3, <2>1, <2>2, <2>3, Zenon DEF Promise!Submit
  <1> QED BY <1>2, <1>3, Zenon DEF AddTransaction

LEMMA RespondPromise ==
    ASSUME IInv, Respond, NEW c \in Requests, c = channel
    PROVE  Promise!Complete(c)
  <1>1. c \in added /\ answers[c] = <<>> /\ ~workerClosed /\ response \in Responses
    BY Zenon DEF Respond, IInv, TypeOK, LocalsMatch, Sending
  <1>2. /\ answers'[c] = Append(<<>>, response)
        /\ \A q \in Requests : q # c => answers'[q] = answers[q]
        /\ added' = added /\ workerClosed' = workerClosed
    BY <1>1, Zenon DEF Respond, queueVars, IInv, TypeOK
  <1>3. answers'[c] # <<>> /\ answers'[c][1] = response
    BY <1>1, <1>2, AppendEmpty, Zenon
  <1>4. Outcome(response.err) = "done"
    BY Zenon DEF Respond, IInv, LocalsMatch, Outcome
  <1>5. StatusOf(c) = "waiting" /\ StatusOf(c)' = "done"
    BY <1>1, <1>2, <1>3, <1>4, Zenon DEF StatusOf
  <1>6. \A q \in Requests : q # c => StatusOf(q)' = StatusOf(q)
    BY <1>2, Zenon DEF StatusOf
  <1> QED BY <1>1, <1>2, <1>5, <1>6, Zenon DEF Promise!Complete

LEMMA CloseAllChannelsPromise == ASSUME IInv, closeAllChannels PROVE Promise!Shut
  <1>1. ~workerClosed /\ workerClosed' = TRUE /\ added' = added /\ pc = "select"
    BY Zenon DEF closeAllChannels, IInv, LocalsMatch
  <1>2. ASSUME NEW q \in Requests
        PROVE  StatusOf(q)' = IF StatusOf(q) = "waiting" THEN "cancelled" ELSE StatusOf(q)
    <2>1. CASE q \in Promised
      <3>1. q \in added /\ answers[q] = <<>>
        <4>1. PICK n \in Nonces : responsesChannels[n] = q /\ q # Nil
          BY <2>1, NilIsNoRequest, Zenon DEF Promised
        <4> QED BY <1>1, <4>1, Zenon DEF IInv, Answered
      <3>2. Failed("ctxErr") \in Responses /\ Failed("ctxErr").err = "ctxErr"
        BY Zenon DEF Failed, Responses
      <3>3. answers'[q] = Append(<<>>, Failed("ctxErr"))
        BY <2>1, <3>1, Zenon DEF closeAllChannels
      <3>4. answers'[q] # <<>> /\ answers'[q][1].err = "ctxErr"
        BY <3>2, <3>3, AppendEmpty, Zenon
      <3>5. StatusOf(q)' = "cancelled"
        BY <1>1, <3>1, <3>4, Zenon DEF StatusOf, Outcome
      <3> QED BY <3>1, <3>5, Zenon DEF StatusOf
    <2>2. CASE q \notin Promised
      <3>1. answers'[q] = answers[q]
        BY <2>2, Zenon DEF closeAllChannels
      <3>2. StatusOf(q)' = StatusOf(q)
        BY <1>1, <3>1, Zenon DEF StatusOf
      <3>3. q # Nil /\ \A m \in Nonces : responsesChannels[m] # q
        BY <2>2, Zenon DEF Promised
      <3>4. q \in added => answers[q] # <<>>
        BY <1>1, <3>3, Zenon DEF IInv, Answered, Sending
      <3>5. \A e : Outcome(e) # "waiting"
        BY Zenon DEF Outcome
      <3>6. StatusOf(q) # "waiting"
        BY <3>4, <3>5, Zenon DEF StatusOf
      <3> QED BY <3>2, <3>6, Zenon
    <2> QED BY <2>1, <2>2, Zenon
  <1> QED BY <1>1, <1>2, Zenon DEF Promise!Shut

(* The heap, the map, the channels and the goroutine implement the abstract *)
(* promise: every step of the worker is a step of ResponsePromise or a      *)
(* stuttering step of it.                                                   *)
THEOREM ImplementsPromise == Spec => Promise!PSafety
  <1>1. Init => Promise!PInit
    BY Zenon DEF Init, Promise!PInit, StatusOf
  <1>2. IInv /\ [Next]_vars => [Promise!PNext]_(Promise!pvars)
    <2> SUFFICES ASSUME IInv, [Next]_vars PROVE [Promise!PNext]_(Promise!pvars)
      BY Zenon
    <2>1. ASSUME UNCHANGED <<added, answers, workerClosed>> PROVE UNCHANGED Promise!pvars
      BY <2>1, Zenon DEF Promise!pvars, StatusOf
    <2>2. ASSUME NEW r \in Requests, NEW n \in Nonces, AddTransaction(r, n)
          PROVE  Promise!PNext
      BY <2>2, AddTransactionPromise, Zenon DEF Promise!PNext
    <2>3. CASE Respond
      <3>1. channel \in Requests
        BY <2>3, Zenon DEF Respond, IInv, TypeOK, LocalsMatch, Sending
      <3> QED BY <2>3, <3>1, RespondPromise, Zenon DEF Promise!PNext
    <2>4. CASE closeAllChannels
      BY <2>4, CloseAllChannelsPromise, Zenon DEF Promise!PNext
    <2>5. ASSUME NEW r \in Requests, Receive(r) PROVE UNCHANGED Promise!pvars
      BY <2>1, <2>5, Zenon DEF Receive, queueVars
    <2>6. CASE Cancel \/ nextTransaction \/ retrieveChannel \/ SendTransaction \/ UNCHANGED vars
      BY <2>1, <2>6, Zenon DEF Cancel, nextTransaction, retrieveChannel, SendTransaction, vars, queueVars
    <2> QED BY <2>2, <2>3, <2>4, <2>5, <2>6, Zenon DEF Next, WorkerStep, processNextTransaction
  <1> QED BY <1>1, <1>2, Invariance, PTL DEF Spec, Promise!PSafety

-----------------------------------------------------------------------------
(* The order of sending.  A transaction that could overtake one with a     *)
(* lower or the same nonce must have been added after that one was popped; *)
(* the invariant says so for what was sent, for what the worker holds and  *)
(* for what is still queued.                                               *)

InHand == pc \in {"retrieve", "send"}

LateAfterSent(item) ==
    \A i \in 1..Len(sent) : item.nonce <= sent[i].nonce => popsBefore[item.req] >= i

Order ==
    /\ \A item \in tq : item.req \in added /\ LateAfterSent(item)
    /\ InHand => /\ current.req \in added /\ LateAfterSent(current)
                 /\ \A item \in tq : item.nonce <= current.nonce =>
                      popsBefore[item.req] >= Len(sent) + 1
    /\ \A i \in 1..Len(sent) : sent[i].req \in added
    /\ SentLowestNonceFirst

LEMMA AddTransactionOrder ==
    ASSUME IInv, Order, NEW r \in Requests, NEW n \in Nonces, AddTransaction(r, n)
    PROVE  Order'
  <1> USE DEF queueVars, workerVars
  <1>1. /\ r \notin added /\ added' = added \cup {r}
        /\ UNCHANGED <<pc, current, sent>>
        /\ popsBefore'[r] = HasLeftQueue
        /\ \A q \in Requests : q # r => popsBefore'[q] = popsBefore[q]
    BY Zenon DEF AddTransaction, IInv, TypeOK
  <1>2. \A q \in added : popsBefore'[q] = popsBefore[q]
    BY <1>1, Zenon DEF IInv, TypeOK
  <1>3. HasLeftQueue \in Nat /\ HasLeftQueue >= Len(sent) /\ (InHand => HasLeftQueue = Len(sent) + 1)
    BY DEF HasLeftQueue, IInv, TypeOK, InHand
  <1>4. ASSUME NEW item \in tq' PROVE item \in tq \/ item = [req |-> r, nonce |-> n]
    BY Zenon DEF AddTransaction, Refuse, Schedule
  <1>5. ASSUME NEW item \in tq' PROVE item.req \in added' /\ LateAfterSent(item)'
    <2>1. CASE item \in tq
      BY <1>1, <1>2, <2>1, Zenon DEF Order, LateAfterSent
    <2>2. CASE item = [req |-> r, nonce |-> n]
      <3>1. \A i \in 1..Len(sent) : popsBefore'[item.req] >= i
        <4>1. popsBefore'[item.req] = HasLeftQueue
          BY <1>1, <2>2, Zenon
        <4>2. Len(sent) \in Nat
          BY DEF IInv, TypeOK
        <4> QED BY <1>3, <4>1, <4>2
      <3> QED BY <1>1, <2>2, <3>1, Zenon DEF LateAfterSent
    <2> QED BY <1>4, <2>1, <2>2, Zenon
  <1>6. ASSUME InHand' PROVE current'.req \in added' /\ LateAfterSent(current)'
    BY <1>1, <1>2, <1>6, Zenon DEF Order, InHand, LateAfterSent
  <1>7. ASSUME InHand', NEW item \in tq', item.nonce <= current'.nonce
        PROVE  popsBefore'[item.req] >= Len(sent') + 1
    <2>1. InHand
      BY <1>1, <1>7, Zenon DEF InHand
    <2>2. CASE item \in tq
      BY <1>1, <1>2, <1>7, <2>1, <2>2, Zenon DEF Order
    <2>3. CASE item = [req |-> r, nonce |-> n]
      <3>1. popsBefore'[item.req] = Len(sent) + 1
        BY <1>1, <1>3, <2>1, <2>3, Zenon
      <3>2. Len(sent) \in Nat
        BY DEF IInv, TypeOK
      <3> QED BY <1>1, <3>1, <3>2
    <2> QED BY <1>4, <2>2, <2>3, Zenon
  <1>8. \A i \in 1..Len(sent') : sent'[i].req \in added'
    BY <1>1, Zenon DEF Order
  <1>9. SentLowestNonceFirst'
    BY <1>1, <1>2, Zenon DEF Order, SentLowestNonceFirst
  <1> QED BY <1>5, <1>6, <1>7, <1>8, <1>9, Zenon DEF Order

LEMMA NextTransactionOrder == ASSUME IInv, Order, nextTransaction PROVE Order'
  <1>1. PICK item \in tq :
          /\ \A other \in tq : item.nonce <= other.nonce
          /\ tq' = tq \ {item} /\ current' = item
    BY Zenon DEF nextTransaction
  <1>2. /\ pc' = "retrieve" /\ ~InHand
        /\ UNCHANGED <<responsesChannels, added, sent, popsBefore>>
    BY Zenon DEF nextTransaction, InHand
  <1>3. ASSUME NEW other \in tq' PROVE ~(other.nonce <= current'.nonce)
    <2>1. other \in tq /\ other # item /\ other \in Items /\ item \in Items
      BY <1>1, Zenon DEF IInv, TypeOK
    <2>2. other.nonce # item.nonce
      <3> SUFFICES ASSUME other.nonce = item.nonce PROVE FALSE
        BY Zenon
      <3>1. other.req = item.req
        BY <2>1, Zenon DEF IInv, QueueMatchesMap, Scheduled
      <3> QED BY <2>1, <3>1, SameItem, Zenon
    <2>3. other.nonce \in Nat /\ item.nonce \in Nat
      BY <2>1, Zenon DEF Items
    <2> QED BY <1>1, <2>1, <2>2, <2>3
  <1>4. \A it \in tq' : it.req \in added' /\ LateAfterSent(it)'
    BY <1>1, <1>2, Zenon DEF Order, LateAfterSent
  <1>5. current'.req \in added' /\ LateAfterSent(current)'
    BY <1>1, <1>2, Zenon DEF Order, LateAfterSent
  <1>6. (\A i \in 1..Len(sent') : sent'[i].req \in added') /\ SentLowestNonceFirst'
    BY <1>2, Zenon DEF Order, SentLowestNonceFirst
  <1> QED BY <1>3, <1>4, <1>5, <1>6, Zenon DEF Order

LEMMA SendTransactionOrder == ASSUME IInv, Order, SendTransaction PROVE Order'
  <1> USE DEF queueVars
  <1>1. /\ InHand /\ pc' = "respond" /\ ~InHand'
        /\ UNCHANGED <<tq, added, popsBefore>>
    BY Zenon DEF SendTransaction, InHand
  <1>2. current \in Items /\ sent \in Seq(Items) /\ current.nonce \in Nat
    BY Zenon DEF SendTransaction, IInv, TypeOK, Items
  <1> DEFINE k == Len(sent) + 1
  <1>3. /\ k \in Nat /\ Len(sent') = k /\ sent'[k] = current
        /\ \A i \in 1..Len(sent) : sent'[i] = sent[i]
        /\ \A i \in 1..k : i \in 1..Len(sent) \/ i = k
    BY <1>2, SMTT(30) DEF SendTransaction
  <1> HIDE DEF k
  <1>4. ASSUME NEW it \in tq' PROVE it.req \in added' /\ LateAfterSent(it)'
    <2>1. it \in tq /\ it.req \in added /\ LateAfterSent(it)
      BY <1>1, Zenon DEF Order
    <2>2. it.nonce <= current.nonce => popsBefore[it.req] >= k
      BY <1>1, <2>1, Zenon DEF Order, k
    <2>3. \A i \in 1..Len(sent') : it.nonce <= sent'[i].nonce => popsBefore[it.req] >= i
      BY <1>3, <2>1, <2>2, Zenon DEF LateAfterSent
    <2> QED BY <1>1, <2>1, <2>3, Zenon DEF LateAfterSent
  <1>5. \A i \in 1..Len(sent') : sent'[i].req \in added'
    BY <1>1, <1>3, Zenon DEF Order
  <1>6. SentLowestNonceFirst'
    <2> SUFFICES ASSUME NEW i \in 1..k, NEW j \in 1..k, i < j, sent'[j].nonce <= sent'[i].nonce
                 PROVE  popsBefore[sent'[j].req] >= i
      BY <1>1, <1>3, Zenon DEF SentLowestNonceFirst
    <2>1. i \in 1..Len(sent)
      <3>1. Len(sent) \in Nat /\ k = Len(sent) + 1
        BY <1>2 DEF k
      <3> QED BY <3>1
    <2>2. CASE j = k
      BY <1>1, <1>3, <2>1, <2>2, Zenon DEF Order, LateAfterSent
    <2>3. CASE j \in 1..Len(sent)
      BY <1>3, <2>1, <2>3, Zenon DEF Order, SentLowestNonceFirst
    <2> QED BY <1>3, <2>2, <2>3, Zenon
  <1> QED BY <1>1, <1>4, <1>5, <1>6, Zenon DEF Order

(* Transactions leave in the order of their nonces: one that is sent after *)
(* a transaction with a higher nonce, or the same one, was added when that *)
(* transaction had already been taken from the queue.                      *)
THEOREM LowestNonceFirst == Spec => []SentLowestNonceFirst
  <1>1. Init => Order
    <2> SUFFICES ASSUME Init PROVE Order
      BY Zenon
    <2>1. tq = {} /\ ~InHand /\ Len(sent) = 0
      BY EmptySequence, Zenon DEF Init, InHand
    <2> QED BY <2>1, SMTT(30) DEF Order, SentLowestNonceFirst
  <1>2. IInv /\ Order /\ [Next]_vars => Order'
    <2> SUFFICES ASSUME IInv, Order, [Next]_vars PROVE Order'
      BY Zenon
    <2>1. ASSUME UNCHANGED <<tq, added, popsBefore, sent>>,
                 InHand' => InHand /\ current' = current
          PROVE  Order'
      BY <2>1, Zenon DEF Order, LateAfterSent, SentLowestNonceFirst
    <2>2. ASSUME NEW r \in Requests, Receive(r) PROVE Order'
      BY <2>1, <2>2, Zenon DEF Receive, queueVars, workerVars, InHand
    <2>3. CASE Cancel \/ retrieveChannel \/ Respond \/ closeAllChannels \/ UNCHANGED vars
      BY <2>1, <2>3, Zenon DEF Cancel, retrieveChannel, Respond, closeAllChannels, vars,
                        queueVars, workerVars, InHand
    <2> QED BY <2>2, <2>3, AddTransactionOrder, NextTransactionOrder, SendTransactionOrder, Zenon
            DEF Next, WorkerStep, processNextTransaction
  <1>3. Order => SentLowestNonceFirst
    BY Zenon DEF Order
  <1> QED BY <1>1, <1>2, <1>3, Invariance, PTL DEF Spec

==============================================================================
