-------------------------- MODULE CertificatesProofs ---------------------------
(***************************************************************************)
(* What Certificates promises after any sequence of calls, failures and    *)
(* interruptions, for every number of keys: matching files, and issued     *)
(* certificates that stay, the client's as long as no rewrite of its files *)
(* is cut short.                                                           *)
(***************************************************************************)
EXTENDS Certificates, TLAPS

\* What each command may rely on: it is reached only when the file that its part
\* is asked for was missing, so that what it makes is not there yet.  Only the
\* last two commands of the first part meet a certificate of their owner.
StepInv ==
  /\ step \in 1..2 => cert["ca"] = NoCert
  /\ step \in 1..5 => ~Issued("server")
  /\ step \in 1..8 => ~Issued("client")
  /\ step = 11 => key["sst"] = Missing
  /\ step \in 11..12 => ~Issued("sst")

\* What is there needs what it was made from.
FileInv ==
  /\ \A o \in Requesters : Issued(o) => Issued("ca") /\ cert[o].key = req[o]
  /\ \A o \in Requesters \ torn : req[o] # Missing => req[o] = key[o]
  /\ key["sst"] = Missing =>
       ~Issued("sst") /\ pem.key = Missing /\ pem.cert = Missing

IInv == TypeOK /\ CertificatesMatch /\ StepInv /\ FileInv

-------------------------------------------------------------------------------

\* The place of each command.
LEMMA Places ==
  ASSUME step \in 0..15
  PROVE  /\ At(Key("ca")) <=> step = 1
         /\ At(Cert("ca")) <=> step = 2
         /\ At(Key("server")) <=> step = 3
         /\ At(Rewrite("server")) <=> step = 4
         /\ At(Cert("server")) <=> step = 5
         /\ At(Key("client")) <=> step = 6
         /\ At(Rewrite("client")) <=> step \in {7, 9}
         /\ At(Cert("client")) <=> step \in {8, 10}
         /\ At(Key("sst")) <=> step = 11
         /\ At(Cert("sst")) <=> step = 12
         /\ At(Pem) <=> step = 13
         /\ At(Parameters) <=> step = 14
         /\ At(PemParameters) <=> step = 15
         /\ ~At(Rewrite("ca")) /\ ~At(Rewrite("sst"))
BY DEF At, Order, Key, Rewrite, Cert, Pem, Parameters, PemParameters

\* Where the script goes on.
LEMMA Moves ==
  ASSUME step \in 1..15, Advance
  PROVE  /\ step' \in 0..15
         /\ step \notin {10, 15} => step' = step + 1
         /\ step = 10 => step' = IF key["sst"] = Missing THEN 11 ELSE 0
         /\ step = 15 => step' = 0
BY DEF Advance, SstPart

\* The values of the files, apart.
LEMMA Values ==
  /\ Missing \notin Keys /\ Empty \notin Keys /\ Empty # Missing
  /\ NoCert \notin Certs /\ EmptyCert \notin Certs /\ EmptyCert # NoCert
  /\ NoCert.key \notin Keys /\ EmptyCert.key \notin Keys
  /\ \A c \in Certs : c.key \in Keys /\ c.by \in Keys /\ c = [key |-> c.key, by |-> c.by]
<1>1. /\ Missing \notin Keys /\ Empty \notin Keys /\ Empty # Missing
      /\ NoCert.key = Missing /\ EmptyCert.key = Empty
  BY MaxKeysAssumption DEF Missing, Empty, Keys, NoCert, EmptyCert
<1>2. ASSUME NEW c \in Certs
      PROVE  c.key \in Keys /\ c.by \in Keys /\ c = [key |-> c.key, by |-> c.by]
  BY <1>2 DEF Certs
<1>3. EmptyCert # NoCert
  BY <1>1
<1> QED BY <1>1, <1>2, <1>3

\* What is issued is certified for a key of the right type.
LEMMA IssuedKeys ==
  ASSUME TypeOK, NEW o \in Owners
  PROVE  /\ Issued(o) => cert[o].key \in Keys /\ cert[o].by \in Keys
         /\ cert[o].key \in Keys => Issued(o)
         /\ cert[o] = NoCert => ~Issued(o)
BY Values DEF TypeOK, Issued

\* A call goes to a part whose first file is missing.
LEMMA CallStep == ASSUME IInv, Call PROVE IInv'
<1> USE DEF IInv, Call, files
<1>1. step' \in {0, 1, 11} /\ (step' = 1 => cert["ca"] = NoCert)
      /\ (step' = 11 => key["sst"] = Missing)
  BY DEF FirstStep, SstPart
<1>2. TypeOK'
  BY <1>1 DEF TypeOK, Keys
<1>3. CertificatesMatch'
  BY DEF CertificatesMatch, Issued
<1>4. ~Issued("ca") => ~Issued("server") /\ ~Issued("client")
  BY DEF FileInv, Requesters
<1>5. cert["ca"] = NoCert => ~Issued("ca")
  BY Values DEF Issued
<1>6. StepInv'
  BY <1>1, <1>4, <1>5 DEF StepInv, FileInv, Issued
<1>7. FileInv'
  BY DEF FileInv, Issued
<1> QED BY <1>2, <1>3, <1>6, <1>7

\* A new key: nothing that is there is for the one it replaces.
LEMMA KeyStep ==
  ASSUME IInv, MakeKey
  PROVE  IInv'
<1> USE DEF IInv
<1>0. step \in 0..15 /\ drawn \in 0..MaxKeys
  BY DEF TypeOK
<1>1. PICK owner \in {"ca", "sst"} :
        /\ DrawKey(owner)
        /\ step = IF owner = "ca" THEN 1 ELSE 11
  BY <1>0, Places DEF MakeKey
<1>2. /\ drawn' = drawn + 1 /\ drawn' \in Keys /\ drawn' \in 0..MaxKeys
      /\ key' = [key EXCEPT ![owner] = drawn']
      /\ step' = step + 1 /\ step' \in {2, 12}
  BY <1>0, <1>1, Moves, MaxKeysAssumption DEF DrawKey, MakeKey, Keys
<1>3. UNCHANGED <<req, cert, pem, dh, cut, torn>>
  BY DEF MakeKey
<1>4. TypeOK'
  BY <1>1, <1>2, <1>3 DEF TypeOK, Owners
<1>5. \A o \in Owners : o # owner => key'[o] = key[o]
  BY <1>2 DEF TypeOK
<1>6. key'[owner] \in Keys
  BY <1>1, <1>2 DEF TypeOK, Owners
<1>7. /\ ~Issued(owner)
      /\ owner = "sst" => pem.key = Missing /\ pem.cert = Missing
  BY <1>1, IssuedKeys DEF StepInv, FileInv, Owners
<1>8. CertificatesMatch'
  BY <1>1, <1>3, <1>5, <1>7 DEF CertificatesMatch, Owners, Issued
<1>9. StepInv'
  BY <1>1, <1>2, <1>3, <1>7 DEF StepInv, Issued
<1>10. FileInv'
  BY <1>1, <1>3, <1>5, <1>6, Values DEF FileInv, Requesters, Owners, Issued
<1> QED BY <1>4, <1>8, <1>9, <1>10

\* A new key for the server or the client, and a request that is for it, or for
\* an older key, or cannot be read.
LEMMA RequestStep ==
  ASSUME IInv, NEW owner \in Requesters, DrawKey(owner),
         step = IF owner = "server" THEN 3 ELSE 6,
         step' = 0 \/ step' = step + 1,
         cut' \in BOOLEAN, UNCHANGED <<cert, pem, dh>>,
         \/ /\ req' = [req EXCEPT ![owner] = drawn + 1]
            /\ torn' = torn \ {owner}
         \/ /\ req' \in {req, [req EXCEPT ![owner] = Missing]}
            /\ torn' = torn \cup {owner}
  PROVE  IInv'
<1> USE DEF IInv
<1>1. /\ drawn' = drawn + 1 /\ drawn' \in Keys /\ drawn' \in 0..MaxKeys
      /\ key' = [key EXCEPT ![owner] = drawn']
      /\ step' \in {0, 4, 7}
  BY MaxKeysAssumption DEF DrawKey, Keys, TypeOK
<1>2. torn' \subseteq Requesters /\ owner \in Owners
  BY DEF TypeOK, Requesters, Owners
<1>3. req' \in [Requesters -> Keys \cup {Missing}]
  BY <1>1 DEF TypeOK
<1>4. TypeOK'
  BY <1>1, <1>2, <1>3 DEF TypeOK
<1>5. \A o \in Owners : o # owner => key'[o] = key[o]
  BY <1>1 DEF TypeOK
<1>6. /\ \A o \in Requesters : o # owner => req'[o] = req[o] /\ (o \in torn' <=> o \in torn)
      /\ owner \notin torn' => req'[owner] = key'[owner]
  BY <1>1, <1>2 DEF TypeOK
<1>7. ~Issued(owner)
  BY DEF StepInv, Requesters
<1>8. CertificatesMatch'
  BY <1>5, <1>6, <1>7 DEF CertificatesMatch, Owners, Requesters, Issued, TypeOK
<1>9. StepInv'
  BY <1>1, <1>5, <1>7 DEF StepInv, Requesters, Owners, Issued
<1>10. FileInv'
  BY <1>5, <1>6, <1>7 DEF FileInv, Requesters, Owners, Issued
<1> QED BY <1>4, <1>8, <1>9, <1>10

LEMMA MakeRequestStep ==
  ASSUME IInv, MakeRequest
  PROVE  IInv'
<1>0. step \in 0..15 /\ cut' \in BOOLEAN
  BY DEF IInv, TypeOK, MakeRequest
<1>1. PICK owner \in Requesters :
        /\ At(Key(owner))
        /\ DrawKey(owner)
        /\ req' = [req EXCEPT ![owner] = drawn + 1]
        /\ torn' = torn \ {owner}
  BY DEF MakeRequest
<1>2. step = IF owner = "server" THEN 3 ELSE 6
  BY <1>0, <1>1, Places DEF Requesters
<1>3. step' = step + 1 /\ UNCHANGED <<cert, pem, dh>>
  BY <1>2, Moves DEF MakeRequest
<1> QED BY <1>0, <1>1, <1>2, <1>3, RequestStep

LEMMA RewriteStep ==
  ASSUME IInv, RewriteKey
  PROVE  IInv'
<1> USE DEF IInv
<1>0. step \in 0..15 /\ UNCHANGED <<drawn, key, req, cert, pem, dh, cut, torn>>
  BY DEF TypeOK, RewriteKey, files
<1>1. step \in {4, 7, 9}
  BY <1>0, Places DEF RewriteKey, Requesters
<1>2. step' = step + 1 /\ step' \in {5, 8, 10}
  BY <1>1, Moves DEF RewriteKey
<1>3. TypeOK'
  BY <1>0, <1>2 DEF TypeOK
<1>4. CertificatesMatch' /\ FileInv'
  BY <1>0 DEF CertificatesMatch, FileInv, Issued
<1>5. StepInv'
  BY <1>0, <1>1, <1>2 DEF StepInv, Issued
<1> QED BY <1>3, <1>4, <1>5

LEMMA SignOwnStep ==
  ASSUME IInv, SignOwn
  PROVE  IInv'
<1> USE DEF IInv
<1>0. step \in 0..15
  BY DEF TypeOK
<1>1. PICK owner \in {"ca", "sst"} :
        /\ key[owner] \in Keys
        /\ cert' = [cert EXCEPT ![owner] = [key |-> key[owner], by |-> key[owner]]]
        /\ step = IF owner = "ca" THEN 2 ELSE 12
  BY <1>0, Places DEF SignOwn, SelfSign
<1>2. step' = step + 1 /\ step' \in {3, 13}
  BY <1>0, <1>1, Moves DEF SignOwn
<1>3. UNCHANGED <<drawn, key, req, pem, dh, cut, torn>>
  BY DEF SignOwn
<1>4. [key |-> key[owner], by |-> key[owner]] \in Certs
  BY <1>1 DEF Certs
<1>5. TypeOK'
  BY <1>1, <1>2, <1>3, <1>4 DEF TypeOK, Owners
<1>6. /\ cert'[owner].key = key[owner] /\ cert'[owner] \in Certs
      /\ \A o \in Owners : o # owner => cert'[o] = cert[o]
  BY <1>1, <1>4, Values DEF TypeOK, Owners
<1>7. owner = "ca" => ~Issued("server") /\ ~Issued("client")
  BY <1>1 DEF StepInv
<1>8. CertificatesMatch'
  BY <1>1, <1>3, <1>6, <1>7 DEF CertificatesMatch, Owners, Requesters, Issued
<1>9. StepInv'
  BY <1>1, <1>2, <1>3, <1>6, <1>7 DEF StepInv, Owners, Issued
<1>10. FileInv'
  BY <1>1, <1>3, <1>6, <1>7, Values DEF FileInv, Requesters, Owners, Issued
<1> QED BY <1>5, <1>8, <1>9, <1>10

\* What a signing needs and makes; the client's second certificate is the first
\* again, since it is signed from the same request with the same authority.
LEMMA Signing ==
  ASSUME IInv, SignRequest
  PROVE  \E owner \in Requesters :
           /\ (step = 5 /\ owner = "server") \/ (step \in {8, 10} /\ owner = "client")
           /\ req[owner] \in Keys
           /\ Issued("ca") /\ key["ca"] = cert["ca"].key
           /\ cert' = [cert EXCEPT ![owner] = [key |-> req[owner], by |-> key["ca"]]]
           /\ [key |-> req[owner], by |-> key["ca"]] \in Certs
           /\ Issued(owner) => cert[owner] = [key |-> req[owner], by |-> key["ca"]]
<1> USE DEF IInv
<1>0. step \in 0..15
  BY DEF TypeOK
<1>1. PICK owner \in Requesters :
        /\ At(Cert(owner))
        /\ req[owner] # Missing
        /\ key["ca"] \in Keys /\ cert["ca"].key = key["ca"]
        /\ cert' = [cert EXCEPT ![owner] = [key |-> req[owner], by |-> key["ca"]]]
  BY DEF SignRequest
<1>2. (step = 5 /\ owner = "server") \/ (step \in {8, 10} /\ owner = "client")
  BY <1>0, <1>1, Places DEF Requesters
<1>3. req[owner] \in Keys
  BY <1>1 DEF TypeOK
<1>4. Issued("ca")
  BY <1>1, IssuedKeys DEF Owners
<1>5. [key |-> req[owner], by |-> key["ca"]] \in Certs
  BY <1>1, <1>3 DEF Certs
<1>6. ASSUME Issued(owner)
      PROVE  cert[owner] = [key |-> req[owner], by |-> key["ca"]]
  <2>1. cert[owner].key = req[owner] /\ cert[owner].by = key["ca"]
    BY <1>1, <1>6 DEF CertificatesMatch, FileInv
  <2> QED BY <1>6, <2>1, Values DEF Issued
<1> QED BY <1>1, <1>2, <1>3, <1>4, <1>5, <1>6

LEMMA SignRequestStep ==
  ASSUME IInv, SignRequest
  PROVE  IInv'
<1> USE DEF IInv
<1>1. PICK owner \in Requesters :
        /\ (step = 5 /\ owner = "server") \/ (step \in {8, 10} /\ owner = "client")
        /\ req[owner] \in Keys
        /\ Issued("ca") /\ key["ca"] = cert["ca"].key
        /\ cert' = [cert EXCEPT ![owner] = [key |-> req[owner], by |-> key["ca"]]]
        /\ [key |-> req[owner], by |-> key["ca"]] \in Certs
  BY Signing
<1>2. step' \in {0, 6, 9, 11} /\ (step' = 11 => key["sst"] = Missing) /\ (step = 5 <=> step' = 6)
  BY <1>1, Moves DEF SignRequest
<1>3. UNCHANGED <<drawn, key, req, pem, dh, cut, torn>>
  BY DEF SignRequest
<1>4. TypeOK'
  BY <1>1, <1>2, <1>3 DEF TypeOK, Owners, Requesters
<1>5. /\ cert'[owner].key = req[owner] /\ cert'[owner].by = cert["ca"].key
      /\ cert'[owner] \in Certs
      /\ \A o \in Owners : o # owner => cert'[o] = cert[o]
  BY <1>1 DEF TypeOK, Owners, Requesters
<1>6. owner \notin torn => req[owner] = key[owner]
  BY <1>1, Values DEF FileInv
<1>7. CertificatesMatch'
  BY <1>1, <1>3, <1>5, <1>6 DEF CertificatesMatch, Owners, Requesters, Issued
<1>8. StepInv'
  BY <1>1, <1>2, <1>3, <1>5 DEF StepInv, FileInv, Owners, Requesters, Issued
<1>9. FileInv'
  BY <1>1, <1>3, <1>5 DEF FileInv, Requesters, Owners, Issued
<1> QED BY <1>4, <1>7, <1>8, <1>9

\* The pem file changes, to a key and a certificate that are those of the files.
LEMMA PemStep ==
  ASSUME IInv, step \in {13, 14, 15}, step' \in {0, 14, 15},
         UNCHANGED <<drawn, key, req, cert>>,
         torn' = torn, cut' \in BOOLEAN, dh' \in BOOLEAN, pem' \in Pems,
         \/ pem'.key = pem.key /\ pem'.cert = pem.cert
         \/ /\ pem'.key \in {Missing, key["sst"]}
            /\ pem'.cert = Missing
         \/ /\ pem'.key = IF key["sst"] \in Keys THEN key["sst"] ELSE Missing
            /\ pem'.cert = IF cert["sst"] \in Certs THEN cert["sst"].key ELSE Missing
  PROVE  IInv'
<1> USE DEF IInv
<1>1. TypeOK'
  BY DEF TypeOK
<1>2. Issued("sst") => cert["sst"].key = key["sst"] /\ key["sst"] \in Keys
  <2>1. "sst" \in Owners \ torn
    BY DEF TypeOK, Owners, Requesters
  <2> QED BY <2>1, IssuedKeys DEF CertificatesMatch
<1>3. CertificatesMatch'
  BY <1>2 DEF CertificatesMatch, Issued
<1>4. StepInv'
  BY DEF StepInv, Issued
<1>5. key["sst"] = Missing => pem'.key = Missing /\ pem'.cert = Missing
  BY <1>2, Values DEF FileInv, Issued
<1>6. FileInv'
  BY <1>5 DEF FileInv, Issued
<1> QED BY <1>1, <1>3, <1>4, <1>6

LEMMA MakePemStep ==
  ASSUME IInv, JoinPem \/ MakeParameters \/ AppendParameters
  PROVE  IInv'
<1>0. step \in 0..15 /\ cut' \in BOOLEAN /\ dh \in BOOLEAN /\ pem \in Pems
  BY DEF IInv, TypeOK, JoinPem, MakeParameters, AppendParameters
<1>1. CASE JoinPem
  <2>1. step = 13 /\ step' = 14 /\ UNCHANGED <<drawn, key, req, cert, dh, torn>>
    BY <1>0, <1>1, Places, Moves DEF JoinPem
  <2>2. /\ pem'.key = IF key["sst"] \in Keys THEN key["sst"] ELSE Missing
        /\ pem'.cert = IF cert["sst"] \in Certs THEN cert["sst"].key ELSE Missing
        /\ pem' = [key |-> pem'.key, cert |-> pem'.cert, dh |-> FALSE]
    BY <1>1 DEF JoinPem
  <2>3. pem'.key \in Keys \cup {Missing} /\ pem'.cert \in Keys \cup {Missing}
    BY <2>2, Values
  <2>4. [key |-> pem'.key, cert |-> pem'.cert, dh |-> FALSE] \in Pems
    BY <2>3 DEF Pems
  <2>5. pem' \in Pems
    BY <2>2, <2>4
  <2> QED BY <1>0, <2>1, <2>2, <2>5, PemStep
<1>2. CASE MakeParameters
  <2>1. step = 14 /\ step' = 15 /\ UNCHANGED <<drawn, key, req, cert, pem, torn>> /\ dh' \in BOOLEAN
    BY <1>0, <1>2, Places, Moves DEF MakeParameters
  <2> QED BY <1>0, <2>1, PemStep
<1>3. CASE AppendParameters
  <2>1. step = 15 /\ step' = 0 /\ UNCHANGED <<drawn, key, req, cert, dh, torn>>
    BY <1>0, <1>3, Places, Moves DEF AppendParameters
  <2>2. pem'.key = pem.key /\ pem'.cert = pem.cert /\ pem' \in Pems
    BY <1>0, <1>3 DEF AppendParameters, Pems
  <2> QED BY <1>0, <2>1, <2>2, PemStep
<1> QED BY <1>1, <1>2, <1>3

-------------------------------------------------------------------------------
(* Commands that do not end well *)

\* The next command, or none.
LEMMA CutMoves ==
  ASSUME IInv, Fail \/ Interrupt
  PROVE  /\ step \in 1..15 /\ step' \in 0..15 /\ cut' \in BOOLEAN
         /\ \/ step' = 0
            \/ step \notin {10, 15} /\ step' = step + 1
            \/ step = 10 /\ step' = 11 /\ key["sst"] = Missing
<1>1. step # 0 /\ cut' = TRUE
  BY DEF Fail, Interrupt, CutShort
<1>2. step \in 1..15 /\ cut' \in BOOLEAN
  BY <1>1 DEF IInv, TypeOK
<1> QED BY <1>2, Moves DEF Fail, Interrupt

LEMMA UntouchedStep ==
  ASSUME IInv, Fail \/ Interrupt, UNCHANGED <<drawn, files, torn>>
  PROVE  IInv'
<1> USE DEF IInv, files
<1>1. TypeOK'
  BY CutMoves DEF TypeOK
<1>2. CertificatesMatch' /\ FileInv'
  BY DEF CertificatesMatch, FileInv, Issued
<1>3. StepInv'
  BY CutMoves DEF StepInv, FileInv, Issued
<1> QED BY <1>1, <1>2, <1>3

\* Which key file can be emptied, and what is beside it.
LEMMA TornKey ==
  ASSUME IInv, TearKey
  PROVE  \E owner \in Owners :
           /\ key' = [key EXCEPT ![owner] = Empty]
           /\ torn' = torn \cup ({owner} \cap Requesters)
           /\ owner = "client" \/ ~Issued(owner)
           /\ \/ owner = "ca" /\ step = 1
              \/ owner = "server" /\ step \in 3..4
              \/ owner = "client" /\ step \in {6, 7, 9}
              \/ owner = "sst" /\ step = 11
<1>0. step \in 0..15
  BY DEF IInv, TypeOK
<1>1. PICK owner \in Owners :
        /\ At(Key(owner)) \/ At(Rewrite(owner))
        /\ key' = [key EXCEPT ![owner] = Empty]
        /\ torn' = torn \cup ({owner} \cap Requesters)
  BY DEF TearKey
<1>2. \/ owner = "ca" /\ step = 1
      \/ owner = "server" /\ step \in 3..4
      \/ owner = "client" /\ step \in {6, 7, 9}
      \/ owner = "sst" /\ step = 11
  BY <1>0, <1>1, Places DEF Owners
<1>3. owner = "client" \/ ~Issued(owner)
  BY <1>2, IssuedKeys DEF IInv, StepInv, Owners
<1> QED BY <1>1, <1>2, <1>3

LEMMA TearKeyStep ==
  ASSUME IInv, Fail \/ Interrupt, TearKey
  PROVE  IInv'
<1> USE DEF IInv
<1>1. PICK owner \in Owners :
        /\ key' = [key EXCEPT ![owner] = Empty]
        /\ torn' = torn \cup ({owner} \cap Requesters)
        /\ owner = "client" \/ ~Issued(owner)
        /\ \/ owner = "ca" /\ step = 1
           \/ owner = "server" /\ step \in 3..4
           \/ owner = "client" /\ step \in {6, 7, 9}
           \/ owner = "sst" /\ step = 11
  BY TornKey
<1>2. UNCHANGED <<drawn, req, cert, pem, dh>>
  BY DEF TearKey
<1>3. TypeOK'
  BY <1>1, <1>2, CutMoves DEF TypeOK
<1>4. /\ \A o \in Owners : o # owner => key'[o] = key[o]
      /\ key'[owner] = Empty
      /\ owner \in Requesters => owner \in torn'
      /\ torn \subseteq torn'
  BY <1>1 DEF TypeOK
<1>5. owner = "sst" => pem.key = Missing /\ pem.cert = Missing
  BY <1>1 DEF StepInv, FileInv
<1>6. CertificatesMatch'
  BY <1>1, <1>2, <1>4, <1>5 DEF CertificatesMatch, Issued, Owners, Requesters
<1>7. StepInv'
  BY <1>1, <1>2, <1>4, CutMoves DEF StepInv, Issued, Owners
<1>8. FileInv'
  BY <1>2, <1>4, Values DEF FileInv, Issued, Owners, Requesters
<1> QED BY <1>3, <1>6, <1>7, <1>8

LEMMA TearRequestStep ==
  ASSUME IInv, Fail \/ Interrupt, TearRequest
  PROVE  IInv'
<1>1. PICK owner \in Requesters :
        /\ At(Key(owner))
        /\ DrawKey(owner)
        /\ req' \in {req, [req EXCEPT ![owner] = Missing]}
        /\ torn' = torn \cup {owner}
  BY DEF TearRequest
<1>2. step = IF owner = "server" THEN 3 ELSE 6
  BY <1>1, Places, CutMoves DEF Requesters
<1>3. step' = 0 \/ step' = step + 1
  BY <1>2, CutMoves
<1>4. UNCHANGED <<cert, pem, dh>>
  BY DEF TearRequest
<1> QED BY <1>1, <1>2, <1>3, <1>4, CutMoves, RequestStep

\* Which certificate file can be emptied.
LEMMA TornCert ==
  ASSUME IInv, TearCert
  PROVE  \E owner \in Owners :
           /\ cert' = [cert EXCEPT ![owner] = EmptyCert]
           /\ owner = "client" \/ ~Issued(owner)
           /\ \/ owner = "ca" /\ step = 2
              \/ owner = "server" /\ step = 5
              \/ owner = "client" /\ step \in {8, 10}
              \/ owner = "sst" /\ step = 12
<1>0. step \in 0..15
  BY DEF IInv, TypeOK
<1>1. PICK owner \in Owners :
        /\ At(Cert(owner))
        /\ cert' = [cert EXCEPT ![owner] = EmptyCert]
  BY DEF TearCert
<1>2. \/ owner = "ca" /\ step = 2
      \/ owner = "server" /\ step = 5
      \/ owner = "client" /\ step \in {8, 10}
      \/ owner = "sst" /\ step = 12
  BY <1>0, <1>1, Places DEF Owners
<1>3. owner = "client" \/ ~Issued(owner)
  BY <1>2, IssuedKeys DEF IInv, StepInv, Owners
<1> QED BY <1>1, <1>2, <1>3

LEMMA TearCertStep ==
  ASSUME IInv, Fail \/ Interrupt, TearCert
  PROVE  IInv'
<1> USE DEF IInv
<1>1. PICK owner \in Owners :
        /\ cert' = [cert EXCEPT ![owner] = EmptyCert]
        /\ owner = "client" \/ ~Issued(owner)
        /\ \/ owner = "ca" /\ step = 2
           \/ owner = "server" /\ step = 5
           \/ owner = "client" /\ step \in {8, 10}
           \/ owner = "sst" /\ step = 12
  BY TornCert
<1>2. UNCHANGED <<drawn, key, req, pem, dh, torn>>
  BY DEF TearCert
<1>3. TypeOK'
  BY <1>1, <1>2, CutMoves DEF TypeOK
<1>4. /\ \A o \in Owners : o # owner => cert'[o] = cert[o]
      /\ cert'[owner] \notin Certs
  BY <1>1, Values DEF TypeOK
<1>5. /\ owner = "ca" => ~Issued("server") /\ ~Issued("client")
      /\ \A o \in Owners : cert'[o] \in Certs => o # owner
  BY <1>1, <1>4 DEF FileInv, Requesters
<1>6. CertificatesMatch'
  BY <1>2, <1>4, <1>5 DEF CertificatesMatch, Issued, Owners, Requesters
<1>7. StepInv'
  BY <1>1, <1>2, <1>4, CutMoves DEF StepInv, FileInv, Issued, Owners
<1>8. FileInv'
  BY <1>2, <1>4, <1>5 DEF FileInv, Issued, Owners, Requesters
<1> QED BY <1>3, <1>6, <1>7, <1>8

LEMMA TearPemStep ==
  ASSUME IInv, Fail \/ Interrupt, TearPem
  PROVE  IInv'
<1>0. /\ UNCHANGED <<drawn, key, req, cert, torn>>
      /\ pem \in Pems /\ dh \in BOOLEAN
  BY DEF TearPem, IInv, TypeOK
<1>1. CASE At(Pem)
  <2>1. step = 13 /\ step' \in {0, 14}
    BY <1>1, Places, CutMoves
  <2>2. ~At(Parameters)
    BY <2>1, Places
  <2>3. PICK k \in {Missing, key["sst"]} \cap (Keys \cup {Missing}) :
          pem' = [key |-> k, cert |-> Missing, dh |-> FALSE]
    BY <2>2 DEF TearPem
  <2>4. pem'.key \in {Missing, key["sst"]} /\ pem'.cert = Missing /\ pem' \in Pems
    BY <2>3 DEF Pems
  <2>5. dh' \in BOOLEAN
    BY <1>0, <2>2 DEF TearPem
  <2> QED BY <1>0, <2>1, <2>4, <2>5, CutMoves, PemStep
<1>2. CASE ~At(Pem)
  <2>1. step = 14 /\ step' \in {0, 15}
    BY <1>2, Places, CutMoves DEF TearPem
  <2>2. pem' = pem /\ dh' \in BOOLEAN
    BY <1>2 DEF TearPem
  <2> QED BY <1>0, <2>1, <2>2, CutMoves, PemStep
<1> QED BY <1>1, <1>2

LEMMA CutStep ==
  ASSUME IInv, Fail \/ Interrupt
  PROVE  IInv'
<1>1. (UNCHANGED <<drawn, files, torn>>) \/ TearKey \/ TearRequest \/ TearCert \/ TearPem
  BY DEF Fail, Interrupt, CutShort
<1> QED BY <1>1, UntouchedStep, TearKeyStep, TearRequestStep, TearCertStep, TearPemStep

-------------------------------------------------------------------------------

LEMMA InitInv == ASSUME Init PROVE IInv
<1> USE DEF Init
<1>1. pem \in Pems
  BY DEF Pems
<1>2. step \in 0..15 /\ drawn \in 0..MaxKeys
  BY MaxKeysAssumption
<1>3. dh \in BOOLEAN /\ cut \in BOOLEAN /\ torn \subseteq Requesters
  OBVIOUS
<1>4. TypeOK
  BY <1>1, <1>2, <1>3 DEF TypeOK
<1>5. \A o \in Owners : ~Issued(o)
  BY Values DEF Issued
<1>6. CertificatesMatch
  BY <1>5 DEF CertificatesMatch, Owners, Requesters
<1>7. StepInv /\ FileInv
  BY <1>5 DEF StepInv, FileInv, Requesters, Owners
<1> QED BY <1>4, <1>6, <1>7 DEF IInv

LEMMA Step == ASSUME IInv, [Next]_vars PROVE IInv'
<1>1. CASE UNCHANGED vars
  BY <1>1 DEF IInv, TypeOK, CertificatesMatch, StepInv, FileInv, Issued, vars, files
<1>2. CASE Next
  BY <1>2, CallStep, KeyStep, MakeRequestStep, RewriteStep, SignOwnStep, SignRequestStep,
     MakePemStep, CutStep DEF Next
<1> QED BY <1>1, <1>2

\* The inductive invariant: matching files, what each command relies on, and what
\* the files that are there rely on.
THEOREM Inductive == Spec => []IInv
<1> QED BY InitInv, Step, PTL DEF Spec

\* Every value stays in its type: no key is drawn beyond the bound, and a key that
\* is not one is never certified.
THEOREM TypeCorrect == Spec => []TypeOK
<1>1. IInv => TypeOK
  BY DEF IInv
<1> QED BY <1>1, Inductive, PTL

\* Whatever fails or is cut short in create_ssl_certificate, and however often it
\* is called, a certificate belongs to the key beside it, unless it is the server's
\* or the client's and the writing of that key was itself cut short; and those of
\* server and client belong to the authority that is there.
THEOREM CertificatesMatchTheorem == Spec => []CertificatesMatch
<1>1. IInv => CertificatesMatch
  BY DEF IInv
<1> QED BY <1>1, Inductive, PTL

\* What one step may do to a certificate that is issued and to its key.
Kept(o) ==
  \/ cert'[o] = cert[o] /\ key'[o] = key[o]
  \/ o = "client" /\ cert'[o] = cert[o] /\ key'[o] = Empty /\ o \in torn'
  \/ o = "client" /\ cert'[o] = EmptyCert /\ key'[o] = key[o]

\* A command that does not end well empties a key or a certificate of the client
\* at most: the others are not opened once they are issued.
LEMMA KeepCut ==
  ASSUME IInv, Fail \/ Interrupt, NEW o \in Owners, Issued(o)
  PROVE  Kept(o)
<1> USE DEF Kept
<1>1. CASE UNCHANGED <<drawn, files, torn>>
  BY <1>1 DEF files
<1>2. CASE TearKey
  <2>1. PICK owner \in Owners :
          /\ key' = [key EXCEPT ![owner] = Empty]
          /\ torn' = torn \cup ({owner} \cap Requesters)
          /\ owner = "client" \/ ~Issued(owner)
    BY <1>2, TornKey
  <2>2. cert' = cert
    BY <1>2 DEF TearKey
  <2>3. CASE o = owner
    BY <2>1, <2>2, <2>3 DEF IInv, TypeOK, Requesters
  <2>4. CASE o # owner
    BY <2>1, <2>2, <2>4 DEF IInv, TypeOK
  <2> QED BY <2>3, <2>4
<1>3. CASE TearRequest
  <2>1. PICK owner \in Requesters :
          At(Key(owner)) /\ key' = [key EXCEPT ![owner] = drawn + 1]
    BY <1>3 DEF TearRequest, DrawKey
  <2>2. ~Issued(owner)
    BY <2>1, Places, CutMoves DEF IInv, StepInv, Requesters
  <2>3. cert' = cert
    BY <1>3 DEF TearRequest
  <2> QED BY <2>1, <2>2, <2>3 DEF IInv, TypeOK
<1>4. CASE TearCert
  <2>1. PICK owner \in Owners :
          /\ cert' = [cert EXCEPT ![owner] = EmptyCert]
          /\ owner = "client" \/ ~Issued(owner)
    BY <1>4, TornCert
  <2>2. key' = key
    BY <1>4 DEF TearCert
  <2> QED BY <2>1, <2>2 DEF IInv, TypeOK
<1>5. CASE TearPem
  BY <1>5 DEF TearPem
<1> QED BY <1>1, <1>2, <1>3, <1>4, <1>5 DEF Fail, Interrupt, CutShort

\* A command that ends well replaces no certificate, and no key that has one; one
\* that does not keeps as much as KeepCut says.
LEMMA KeepStep ==
  ASSUME IInv, Next, NEW o \in Owners, Issued(o)
  PROVE  Kept(o)
<1> USE DEF IInv
<1>0. step \in 0..15
  BY DEF TypeOK
<1>1. CASE Call \/ RewriteKey \/ JoinPem \/ MakeParameters \/ AppendParameters
  BY <1>1 DEF Call, RewriteKey, files, JoinPem, MakeParameters, AppendParameters, Kept
<1>2. CASE MakeKey
  <2>1. PICK owner \in {"ca", "sst"} :
          /\ key' = [key EXCEPT ![owner] = drawn + 1]
          /\ step = IF owner = "ca" THEN 1 ELSE 11
    BY <1>0, <1>2, Places DEF MakeKey, DrawKey
  <2>2. ~Issued(owner)
    BY <2>1, IssuedKeys DEF StepInv, Owners
  <2> QED BY <1>2, <2>1, <2>2 DEF MakeKey, TypeOK, Kept
<1>3. CASE MakeRequest
  <2>1. PICK owner \in Requesters :
          /\ key' = [key EXCEPT ![owner] = drawn + 1]
          /\ step = IF owner = "server" THEN 3 ELSE 6
    BY <1>0, <1>3, Places DEF MakeRequest, DrawKey, Requesters
  <2>2. ~Issued(owner)
    BY <2>1 DEF StepInv, Requesters
  <2> QED BY <1>3, <2>1, <2>2 DEF MakeRequest, TypeOK, Kept
<1>4. CASE SignOwn
  <2>1. PICK owner \in {"ca", "sst"} :
          /\ cert' = [cert EXCEPT ![owner] = [key |-> key[owner], by |-> key[owner]]]
          /\ step = IF owner = "ca" THEN 2 ELSE 12
    BY <1>0, <1>4, Places DEF SignOwn, SelfSign
  <2>2. ~Issued(owner)
    BY <2>1, IssuedKeys DEF StepInv, Owners
  <2> QED BY <1>4, <2>1, <2>2 DEF SignOwn, TypeOK, Kept
<1>5. CASE SignRequest
  <2>1. PICK owner \in Requesters :
          /\ cert' = [cert EXCEPT ![owner] = [key |-> req[owner], by |-> key["ca"]]]
          /\ Issued(owner) => cert[owner] = [key |-> req[owner], by |-> key["ca"]]
    BY <1>5, Signing
  <2>2. cert'[o] = cert[o]
    BY <2>1 DEF TypeOK
  <2> QED BY <1>5, <2>2 DEF SignRequest, Kept
<1> QED BY <1>1, <1>2, <1>3, <1>4, <1>5, KeepCut DEF Next

\* No call of create_ssl_certificate replaces a certificate that servers may be
\* running with, nor the key beside it; of the client's, which are written twice,
\* one is lost when the second writing is cut short.
THEOREM KeepsIssuedTheorem == Spec => KeepsIssued
<1>1. ASSUME IInv, [Next]_vars
      PROVE  [\A o \in Owners : Issued(o) =>
                \/ cert'[o] = cert[o] /\ key'[o] = key[o]
                \/ o = "client" /\ cert'[o] = cert[o] /\ key'[o] = Empty /\ o \in torn'
                \/ o = "client" /\ cert'[o] = EmptyCert /\ key'[o] = key[o]]_vars
  BY <1>1, KeepStep DEF Kept
<1> QED BY <1>1, Inductive, PTL DEF Spec, KeepsIssued

-------------------------------------------------------------------------------
(* Complete files *)

\* As long as nothing has failed the method runs through once: what the commands
\* before the next one make is there.
Made ==
  /\ step \in 1..11 => key["sst"] = Missing
  /\ step \in 3..15 => Issued("ca")
  /\ step \in 6..15 => Issued("server")
  /\ step \in 9..15 => Issued("client")
  /\ step \in 13..15 => Issued("sst")
  /\ step \in 14..15 => pem.key # Missing /\ pem.cert # Missing
  /\ step = 15 => dh

\* Between two calls there is nothing, or everything.
Untouched == drawn = 0 /\ cert["ca"] = NoCert /\ key["sst"] = Missing
Complete ==
  /\ \A o \in Owners : Issued(o)
  /\ pem.key # Missing /\ pem.cert # Missing /\ pem.dh

CalmInv == ~cut => torn = {} /\ Made /\ (step = 0 => Untouched \/ Complete)

\* The first call begins with the first command; a later one does nothing.
LEMMA CalmCall ==
  ASSUME IInv, CalmInv, Call, ~cut
  PROVE  Made' /\ (step' = 0 => Complete')
<1>0. step = 0 /\ UNCHANGED <<drawn, key, req, cert, pem, dh>>
  BY DEF Call, files
<1>1. CASE Untouched
  BY <1>0, <1>1 DEF Call, FirstStep, Untouched, Made
<1>2. CASE Complete
  <2>1. cert["ca"] # NoCert /\ key["sst"] # Missing
    BY <1>2, IssuedKeys DEF Complete, Owners, IInv, FileInv
  <2>2. step' = 0
    BY <2>1 DEF Call, FirstStep, SstPart
  <2> QED BY <1>0, <1>2, <2>2 DEF Made, Complete, Issued
<1> QED BY <1>0, <1>1, <1>2 DEF CalmInv

\* A command that makes a key, or writes it again, adds no certificate.
LEMMA CalmKey ==
  ASSUME IInv, CalmInv, ~cut, MakeKey \/ MakeRequest \/ RewriteKey
  PROVE  Made' /\ step' # 0
<1>0. step \in 0..15 /\ Made
  BY DEF IInv, TypeOK, CalmInv
<1>1. UNCHANGED <<cert, pem, dh>>
  BY DEF MakeKey, MakeRequest, RewriteKey, files
<1>2. step \in {1, 3, 4, 6, 7, 9, 11} /\ (step # 11 => key'["sst"] = key["sst"])
  <2>1. CASE MakeKey
    <3>1. PICK owner \in {"ca", "sst"} : At(Key(owner)) /\ key' = [key EXCEPT ![owner] = drawn + 1]
      BY <2>1 DEF MakeKey, DrawKey
    <3> QED BY <1>0, <3>1, Places DEF IInv, TypeOK
  <2>2. CASE MakeRequest
    <3>1. PICK owner \in Requesters : At(Key(owner)) /\ key' = [key EXCEPT ![owner] = drawn + 1]
      BY <2>2 DEF MakeRequest, DrawKey
    <3> QED BY <1>0, <3>1, Places DEF IInv, TypeOK, Requesters
  <2>3. CASE RewriteKey
    BY <1>0, <2>3, Places DEF RewriteKey, Requesters, files
  <2> QED BY <2>1, <2>2, <2>3
<1>3. step' = step + 1
  BY <1>2, Moves DEF MakeKey, MakeRequest, RewriteKey
<1> QED BY <1>0, <1>1, <1>2, <1>3 DEF Made, Issued

\* A signing adds its certificate to those that are there.
LEMMA CalmSign ==
  ASSUME IInv, CalmInv, ~cut, SignOwn \/ SignRequest
  PROVE  Made' /\ step' # 0
<1>0. step \in 0..15 /\ Made
  BY DEF IInv, TypeOK, CalmInv
<1>1. \E owner \in Owners :
        /\ cert'[owner] \in Certs
        /\ \A o \in Owners : o # owner => cert'[o] = cert[o]
        /\ \/ owner = "ca" /\ step = 2
           \/ owner = "server" /\ step = 5
           \/ owner = "client" /\ step \in {8, 10}
           \/ owner = "sst" /\ step = 12
  <2>1. CASE SignOwn
    <3>1. PICK owner \in {"ca", "sst"} :
            /\ key[owner] \in Keys
            /\ cert' = [cert EXCEPT ![owner] = [key |-> key[owner], by |-> key[owner]]]
            /\ step = IF owner = "ca" THEN 2 ELSE 12
      BY <1>0, <2>1, Places DEF SignOwn, SelfSign
    <3>2. [key |-> key[owner], by |-> key[owner]] \in Certs
      BY <3>1 DEF Certs
    <3>3. cert'[owner] \in Certs /\ \A o \in Owners : o # owner => cert'[o] = cert[o]
      BY <3>1, <3>2 DEF IInv, TypeOK, Owners
    <3> QED BY <3>1, <3>3 DEF Owners
  <2>2. CASE SignRequest
    <3>1. PICK owner \in Requesters :
            /\ (step = 5 /\ owner = "server") \/ (step \in {8, 10} /\ owner = "client")
            /\ cert' = [cert EXCEPT ![owner] = [key |-> req[owner], by |-> key["ca"]]]
            /\ [key |-> req[owner], by |-> key["ca"]] \in Certs
      BY <2>2, Signing
    <3>2. cert'[owner] \in Certs /\ \A o \in Owners : o # owner => cert'[o] = cert[o]
      BY <3>1 DEF IInv, TypeOK, Owners, Requesters
    <3> QED BY <3>1, <3>2 DEF Owners, Requesters
  <2> QED BY <2>1, <2>2
<1>2. /\ \A o \in Owners : Issued(o) => Issued(o)'
      /\ step = 2 => Issued("ca")'
      /\ step = 5 => Issued("server")'
      /\ step \in {8, 10} => Issued("client")'
      /\ step = 12 => Issued("sst")'
      /\ step \in {2, 5, 8, 10, 12}
  BY <1>1 DEF Owners, Issued
<1>3. UNCHANGED <<key, pem, dh>> /\ Advance
  BY DEF SignOwn, SignRequest
<1>4. IF step = 10 THEN step' = 11 ELSE step' = step + 1
  BY <1>0, <1>2, <1>3, Moves DEF Made
<1> QED BY <1>0, <1>2, <1>3, <1>4 DEF Made, Owners

\* The pem file is put together from files that are there; the last command is
\* reached with everything made.
LEMMA CalmPem ==
  ASSUME IInv, CalmInv, ~cut, JoinPem \/ MakeParameters \/ AppendParameters
  PROVE  Made' /\ (step' = 0 => Complete')
<1>0. step \in 0..15 /\ Made /\ UNCHANGED <<key, cert>>
  BY DEF IInv, TypeOK, CalmInv, JoinPem, MakeParameters, AppendParameters
<1>1. CASE JoinPem
  <2>1. step = 13 /\ step' = 14
    BY <1>0, <1>1, Places, Moves DEF JoinPem
  <2>2. Issued("sst") /\ "sst" \in Owners \ torn
    BY <1>0, <2>1 DEF Made, CalmInv, Owners
  <2>3. cert["sst"].key \in Keys /\ cert["sst"].key = key["sst"]
    BY <2>2, IssuedKeys DEF IInv, CertificatesMatch
  <2>4. pem'.key = key["sst"] /\ pem'.cert = cert["sst"].key
    BY <1>1, <2>2, <2>3 DEF JoinPem, Issued
  <2> QED BY <1>0, <2>1, <2>3, <2>4, Values DEF Made, Issued
<1>2. CASE MakeParameters
  <2>1. step = 14 /\ step' = 15
    BY <1>0, <1>2, Places, Moves DEF MakeParameters
  <2> QED BY <1>0, <1>2, <2>1 DEF Made, MakeParameters, Issued
<1>3. CASE AppendParameters
  <2>1. step = 15 /\ step' = 0
    BY <1>0, <1>3, Places, Moves DEF AppendParameters
  <2>2. pem'.key = pem.key /\ pem'.cert = pem.cert /\ pem'.dh = dh
    BY <1>3 DEF AppendParameters, IInv, TypeOK, Pems
  <2> QED BY <1>0, <2>1, <2>2 DEF Made, Complete, Owners, Issued
<1> QED BY <1>1, <1>2, <1>3

LEMMA CalmStep ==
  ASSUME IInv, CalmInv, [Next]_vars
  PROVE  CalmInv'
<1>1. CASE UNCHANGED vars
  BY <1>1 DEF vars, files, CalmInv, Made, Untouched, Complete, Issued
<1>2. CASE Fail \/ Interrupt
  BY <1>2 DEF Fail, Interrupt, CutShort, CalmInv
<1>3. CASE Next /\ ~(Fail \/ Interrupt)
  <2>1. cut' = cut
    BY <1>3 DEF Next, Call, MakeKey, MakeRequest, RewriteKey, SignOwn, SignRequest, JoinPem,
                MakeParameters, AppendParameters
  <2>2. torn' = torn \/ \E owner \in Requesters : torn' = torn \ {owner}
    BY <1>3 DEF Next, Call, MakeKey, MakeRequest, RewriteKey, SignOwn, SignRequest, JoinPem,
                MakeParameters, AppendParameters
  <2>3. ~cut => torn' = {}
    BY <2>2 DEF CalmInv
  <2> QED BY <1>3, <2>1, <2>3, CalmCall, CalmKey, CalmSign, CalmPem DEF Next, CalmInv
<1> QED BY <1>1, <1>2, <1>3

\* As long as no command has ever failed and no call was ever cut short, the files
\* are complete between two calls of create_ssl_certificate once the first has been
\* made: the order of its commands is one in which each finds what it needs.
THEOREM CompleteUnlessCutTheorem == Spec => []CompleteUnlessCut
<1>1. Init => CalmInv
  BY DEF Init, CalmInv, Made, Untouched, Owners
<1>2. IInv /\ CalmInv => CompleteUnlessCut
  <2>1. ASSUME IInv, CalmInv, ~cut, step = 0, drawn > 0 PROVE Complete /\ torn = {}
    BY <2>1 DEF CalmInv, Untouched
  <2>2. ASSUME IInv, CalmInv, ~cut, step = 0, drawn > 0, NEW o \in Owners
        PROVE  Issued(o) /\ cert[o].key = key[o]
    BY <2>1, <2>2 DEF Complete, IInv, CertificatesMatch
  <2> QED BY <2>1, <2>2 DEF CompleteUnlessCut, Complete
<1> QED BY <1>1, <1>2, Inductive, CalmStep, PTL DEF Spec

===============================================================================
