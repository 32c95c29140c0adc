----------------------------- MODULE Certificates ------------------------------
(***************************************************************************)
(* create_ssl_certificate of util/sanity.py.  create_config calls it for   *)
(* each node of each encrypted test, on a directory that outlives the      *)
(* tests; what it finds there decides what it makes.  The status of no     *)
(* openssl command is looked at, and a test may be interrupted anywhere.   *)
(***************************************************************************)
EXTENDS Integers, Sequences

CONSTANT MaxKeys \* bound: keys that are drawn

ASSUME MaxKeysAssumption == MaxKeys \in Nat \ {0}

VARIABLES
  step,  \* the next command; 0: the method is not running
  drawn, \* the keys drawn so far, 1..drawn
  key,   \* the key in a key file
  req,   \* the key a certificate request is for
  cert,  \* the certificates
  pem,   \* sst_encypt2.pem, which is put together from three files
  dh,    \* dhparams.pem is there
  cut,   \* history: a command failed or the method was interrupted
  torn   \* history: whose key was cut short in writing since it was last made

files == <<key, req, cert, pem, dh>>
vars == <<step, drawn, files, cut, torn>>

Owners == {"ca", "server", "client", "sst"}
Requesters == {"server", "client"}

\* Missing: no such file, or a request that cannot be read.  Empty: the file is
\* there and holds no key, since a command that opened it did not end well.
Missing == 0
Empty == -1
Keys == 1..MaxKeys

\* A certificate for a key, signed with another.
Certs == [key : Keys, by : Keys]
NoCert == [key |-> Missing, by |-> Missing]
EmptyCert == [key |-> Empty, by |-> Missing]
Pems == [key : Keys \cup {Missing}, cert : Keys \cup {Missing}, dh : BOOLEAN]

TypeOK ==
  /\ step \in 0..15
  /\ drawn \in 0..MaxKeys
  /\ key \in [Owners -> Keys \cup {Missing, Empty}]
  /\ req \in [Requesters -> Keys \cup {Missing}]
  /\ cert \in [Owners -> Certs \cup {NoCert, EmptyCert}]
  /\ pem \in Pems
  /\ dh \in BOOLEAN
  /\ cut \in BOOLEAN
  /\ torn \subseteq Requesters

Init ==
  /\ step = 0
  /\ drawn = 0
  /\ key = [o \in Owners |-> Missing]
  /\ req = [o \in Requesters |-> Missing]
  /\ cert = [o \in Owners |-> NoCert]
  /\ pem = [key |-> Missing, cert |-> Missing, dh |-> FALSE]
  /\ dh = FALSE
  /\ cut = FALSE
  /\ torn = {}

-------------------------------------------------------------------------------

\* The commands, by what they make.
Key(owner) == <<"key", owner>>
Rewrite(owner) == <<"rewrite", owner>>
Cert(owner) == <<"cert", owner>>
Pem == <<"pem", "sst">>
Parameters == <<"parameters", "sst">>
PemParameters == <<"pem", "parameters">>

OrderSwapped == \* Fault: the pem file is put together before its certificate.
  <<Key("ca"), Cert("ca"), Key("server"), Rewrite("server"), Cert("server"),
    Key("client"), Rewrite("client"), Cert("client"), Rewrite("client"), Cert("client"),
    Key("sst"), Pem, Cert("sst"), Parameters, PemParameters>>

\* The commands in their order.  The client's key is rewritten in place, and its
\* certificate signed, a second time.
Order ==
  <<Key("ca"), Cert("ca"), Key("server"), Rewrite("server"), Cert("server"),
    Key("client"), Rewrite("client"), Cert("client"), Rewrite("client"), Cert("client"),
    Key("sst"), Cert("sst"), Pem, Parameters, PemParameters>>

At(command) == step # 0 /\ Order[step] = command

\* The second part runs when sst_encypt2.key is not a file.
SstPart == IF key["sst"] = Missing THEN 11 ELSE 0

FirstStepClient == \* Fault: the last file of the first part is asked for.
  IF cert["client"] = NoCert THEN 1 ELSE SstPart

FirstStepAlways == 1 \* Fault: no file is asked for.

\* The first part runs when ca.pem is not a file.
FirstStep == IF cert["ca"] = NoCert THEN 1 ELSE SstPart

Advance ==
  step' = IF step = 10 THEN SstPart ELSE IF step = 15 THEN 0 ELSE step + 1

Call ==
  /\ step = 0
  /\ step' = FirstStep
  /\ UNCHANGED <<drawn, files, cut, torn>>

DrawKey(owner) ==
  /\ drawn < MaxKeys
  /\ drawn' = drawn + 1
  /\ key' = [key EXCEPT ![owner] = drawn + 1]

\* openssl genrsa
MakeKey ==
  /\ \/ At(Key("ca")) /\ DrawKey("ca")
     \/ At(Key("sst")) /\ DrawKey("sst")
  /\ Advance
  /\ UNCHANGED <<req, cert, pem, dh, cut, torn>>

\* openssl req -newkey: a key and the request for its certificate.
MakeRequest ==
  /\ \E owner \in Requesters :
       /\ At(Key(owner))
       /\ DrawKey(owner)
       /\ req' = [req EXCEPT ![owner] = drawn + 1]
       /\ torn' = torn \ {owner}
  /\ Advance
  /\ UNCHANGED <<cert, pem, dh, cut>>

\* openssl rsa, with one file as -in and -out: the same key again.
RewriteKey ==
  /\ \E owner \in Requesters : At(Rewrite(owner)) /\ key[owner] \in Keys
  /\ Advance
  /\ UNCHANGED <<drawn, files, cut, torn>>

SelfSign(owner) ==
  cert' = [cert EXCEPT ![owner] = [key |-> key[owner], by |-> key[owner]]]

SignOwnBlind == \* Fault: a key file is certified whatever is in it.
  /\ \/ At(Cert("ca")) /\ SelfSign("ca")
     \/ At(Cert("sst")) /\ SelfSign("sst")
  /\ Advance
  /\ UNCHANGED <<drawn, key, req, pem, dh, cut, torn>>

\* openssl req -x509, with a key of its own.
SignOwn ==
  /\ \/ At(Cert("ca")) /\ key["ca"] \in Keys /\ SelfSign("ca")
     \/ At(Cert("sst")) /\ key["sst"] \in Keys /\ SelfSign("sst")
  /\ Advance
  /\ UNCHANGED <<drawn, key, req, pem, dh, cut, torn>>

\* openssl x509 -req: the authority's key must be the one it is certified for.
SignRequest ==
  /\ \E owner \in Requesters :
       /\ At(Cert(owner))
       /\ req[owner] # Missing
       /\ key["ca"] \in Keys /\ cert["ca"].key = key["ca"]
       /\ cert' = [cert EXCEPT ![owner] = [key |-> req[owner], by |-> key["ca"]]]
  /\ Advance
  /\ UNCHANGED <<drawn, key, req, pem, dh, cut, torn>>

\* cat of the key and the certificate; what is not there is left out.
JoinPem ==
  /\ At(Pem)
  /\ pem' = [key |-> IF key["sst"] \in Keys THEN key["sst"] ELSE Missing,
             cert |-> IF cert["sst"] \in Certs THEN cert["sst"].key ELSE Missing,
             dh |-> FALSE]
  /\ Advance
  /\ UNCHANGED <<drawn, key, req, cert, dh, cut, torn>>

MakeParameters ==
  /\ At(Parameters)
  /\ dh' = TRUE
  /\ Advance
  /\ UNCHANGED <<drawn, key, req, cert, pem, cut, torn>>

AppendParameters ==
  /\ At(PemParameters)
  /\ pem' = [pem EXCEPT !.dh = dh]
  /\ Advance
  /\ UNCHANGED <<drawn, key, req, cert, dh, cut, torn>>

\* A key file was opened and the key not written.
TearKey ==
  /\ \E owner \in Owners :
       /\ \/ At(Key(owner))
          \/ At(Rewrite(owner)) /\ key[owner] \in Keys
       /\ key' = [key EXCEPT ![owner] = Empty]
       /\ torn' = torn \cup ({owner} \cap Requesters)
  /\ UNCHANGED <<drawn, req, cert, pem, dh>>

\* The key is a new one, and its request was not written: what is there, if it
\* was not opened, is one for an older key.
TearRequest ==
  /\ \E owner \in Requesters :
       /\ At(Key(owner))
       /\ DrawKey(owner)
       /\ req' \in {req, [req EXCEPT ![owner] = Missing]}
       /\ torn' = torn \cup {owner}
  /\ UNCHANGED <<cert, pem, dh>>

\* A certificate file was opened; openssl has read the key or request by then.
TearCert ==
  /\ \E owner \in Owners :
       /\ At(Cert(owner))
       /\ IF owner \in Requesters THEN req[owner] # Missing ELSE key[owner] \in Keys
       /\ cert' = [cert EXCEPT ![owner] = EmptyCert]
  /\ UNCHANGED <<drawn, key, req, pem, dh, torn>>

\* The pem file holds the key at most; parameters cut short are none.
TearPem ==
  /\ \/ /\ At(Pem)
        /\ \E k \in {Missing, key["sst"]} \cap (Keys \cup {Missing}) :
             pem' = [key |-> k, cert |-> Missing, dh |-> FALSE]
        /\ UNCHANGED dh
     \/ At(Parameters) /\ dh' = FALSE /\ UNCHANGED pem
  /\ UNCHANGED <<drawn, key, req, cert, torn>>

\* What a command that does not end well may leave: everything as it was, or what
\* it was writing cut short.
CutShort ==
  /\ step # 0
  /\ cut' = TRUE
  /\ \/ UNCHANGED <<drawn, files, torn>>
     \/ TearKey \/ TearRequest \/ TearCert \/ TearPem

\* A command fails; nobody looks at its status.
Fail == CutShort /\ Advance

\* The test is stopped, or a command is and the method goes down with it.
Interrupt == CutShort /\ step' = 0

Next ==
  \/ Call \/ MakeKey \/ MakeRequest \/ RewriteKey \/ SignOwn \/ SignRequest
  \/ JoinPem \/ MakeParameters \/ AppendParameters \/ Fail \/ Interrupt

Spec == Init /\ [][Next]_vars

-------------------------------------------------------------------------------

\* A whole certificate, not a file that was opened and left empty.
Issued(owner) == cert[owner] \in Certs

\* Whatever failed or was cut short, and however often the method was called, a
\* certificate belongs to the key beside it, and those of server and client to
\* the authority that is there; the pem file is of one key and its certificate.
\* The exceptions are server and client when their own key was cut short in
\* writing: in being rewritten, the key is lost, and of a new key without a new
\* request an older request is signed.
CertificatesMatch ==
  /\ \A o \in Owners \ torn : Issued(o) => cert[o].key = key[o]
  /\ \A o \in Requesters : Issued(o) => cert[o].by = cert["ca"].key
  /\ pem.key # Missing => pem.key = key["sst"]
  /\ pem.cert # Missing => pem.cert = pem.key

\* A certificate that servers may be running with, and its key, are not changed by
\* a later command or call.  The client's are written again after the certificate
\* was issued (sanity.py:64-69): then, and only when cut short, the client's key or
\* certificate is left empty; what is written to the end is what was there.
KeepsIssued ==
  [][\A o \in Owners : Issued(o) =>
       \/ cert'[o] = cert[o] /\ key'[o] = key[o]
       \/ o = "client" /\ cert'[o] = cert[o] /\ key'[o] = Empty /\ o \in torn'
       \/ o = "client" /\ cert'[o] = EmptyCert /\ key'[o] = key[o]]_vars

\* If nothing ever failed or was cut short, the files are complete between two
\* calls, or the method has not been called yet: one call makes them all, in an
\* order that works.  After a failure nothing of the kind holds: ca.pem and
\* sst_encypt2.key are the first results of their parts, and their presence stops
\* all repair.
CompleteUnlessCut ==
  ~cut /\ step = 0 /\ drawn > 0 =>
    /\ \A o \in Owners : Issued(o) /\ cert[o].key = key[o]
    /\ pem.key # Missing /\ pem.cert # Missing /\ pem.dh

===============================================================================
