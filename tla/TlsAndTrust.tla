----------------------------- MODULE TlsAndTrust ----------------------------
(***************************************************************************)
(* The pair the board serves and the proxies it trusts: api/tls.rs writes  *)
(* a key, a certificate and swaps the pair new connections get             *)
(* (tls_store.rs); api/access.rs stores a client CA and the header that    *)
(* names the operator; main.rs reads all of it once, at the start, with    *)
(* the precedence config.rs gives it.                                      *)
(*                                                                         *)
(* Handlers run on two workers, so two requests interleave at every file   *)
(* they write; each write is a temporary file and a rename.  The generator *)
(* of self-signed pairs is not in this repository: it issues a pair when   *)
(* there is no certificate, at the start of the board and when asked to.   *)
(***************************************************************************)
EXTENDS Naturals, FiniteSets

CONSTANTS
    Editor,       \* the requests of a behaviour
    Uploaded,     \* the pairs that can be uploaded
    MaxStarts     \* bound: starts of the daemon

Own == "own"      \* the pair the generator issues
Missing_file == "missing"
PairName == Uploaded \cup {Own}

VARIABLES
    yaml,         \* config.yaml: whether it names a client CA, or a header
    key_file, cert_file,
    served,       \* ServedCertificate: whose key and leaf, whether with a chain; or nothing
    ca_file,      \* MANAGED_CLIENT_CA: missing, usable or unusable
    header_file,  \* ACCESS_OVERRIDES: missing, or the header it names
    loaded,       \* what main() read: the CA the acceptor has, the header that is believed
    serving,           \* the daemon: running, stopped, or unable to start
    edit,         \* each request: what it asks, how far it is
    torn,         \* history: a pair was stored by halves
    starts
tls_vars == <<yaml, key_file, cert_file, served, ca_file, header_file, loaded, serving, edit, torn, starts>>

Nothing_served == [key |-> Missing_file, leaf |-> Missing_file, chain |-> FALSE]
Unloaded == [ca |-> Missing_file, header |-> Missing_file]

(***************************************************************************)
(* What an upload is: whether it parses, whose key it brings, whether its  *)
(* dates hold, what it may be used for, and how it names the board.        *)
(***************************************************************************)
Upload == [pem : BOOLEAN, pair : Uploaded, key_of : Uploaded, current : BOOLEAN,
           usages : {{}, {"server"}, {"any"}, {"client"}},
           names : {"the board's", "wildcard", "resolving", "another"}]

\* No usage listed is no restriction.
may_serve(upload) == upload.usages = {} \/ upload.usages \cap {"server", "any"} # {}
\* A name or an address of the board, or a wildcard that covers one.
names_this_board(upload) == upload.names \in {"the board's", "wildcard"}
\* Some name resolves, within two seconds, to an address of the board.
names_resolving_here(upload) == upload.names = "resolving"

validate(upload) ==
    /\ upload.pem
    /\ upload.key_of = upload.pair
    /\ upload.current
    /\ may_serve(upload)
    /\ names_this_board(upload) \/ names_resolving_here(upload)

\* Source::of: the issuer tells, not how the file came to be there.
self_signed(pair) == pair = Own

(***************************************************************************)
(* config.rs: config.yaml wins, then what the interface stored.            *)
(***************************************************************************)
effective_client_ca == IF yaml.ca THEN "pinned" ELSE ca_file
effective_identity_header ==
    IF yaml.header THEN "configured" ELSE IF header_file # Missing_file THEN header_file ELSE "default"

\* The page works both out anew, from the files as they are.
get_access == [ca |-> effective_client_ca, header |-> effective_identity_header]

(***************************************************************************)
(* Start-up.                                                               *)
(***************************************************************************)
Idle_edit == [pair |-> Own, header |-> "no", at |-> "done"]

\* load_tls_config and the header: both files must be there, a CA must load. A
\* key that is not the certificate's is only found out by every handshake.
\* The chain in the certificate file is not read.
Loads(key, leaf) ==
    IF key = Missing_file \/ leaf = Missing_file \/ effective_client_ca = "unusable"
    THEN /\ serving' = "cannot start" /\ served' = Nothing_served /\ loaded' = Unloaded
    ELSE /\ serving' = "running"
         /\ served' = [key |-> key, leaf |-> leaf, chain |-> FALSE]
         /\ loaded' = [ca |-> effective_client_ca, header |-> effective_identity_header]

StartServing ==
    /\ serving = "stopped"
    /\ starts < MaxStarts
    /\ starts' = starts + 1
    /\ LET issues == cert_file = Missing_file     \* the generator, before the daemon
       IN  /\ key_file' = IF issues THEN Own ELSE key_file
           /\ cert_file' = IF issues THEN Own ELSE cert_file
           /\ Loads(key_file', cert_file')
           /\ torn' = (torn /\ ~issues)
    /\ UNCHANGED <<yaml, ca_file, header_file, edit>>

\* A reload, a crash, the power: requests are gone, between any two writes.
StopServing ==
    /\ serving = "running"
    /\ serving' = "stopped"
    /\ served' = Nothing_served /\ loaded' = Unloaded
    /\ edit' = [e \in Editor |-> Idle_edit]
    /\ torn' = (torn \/ \E e \in Editor : edit[e].at \in {"certificate", "removing key"})
    /\ UNCHANGED <<yaml, key_file, cert_file, ca_file, header_file, starts>>

tls_Init ==
    /\ yaml \in [ca : BOOLEAN, header : BOOLEAN]
    /\ key_file = Own /\ cert_file = Own
    /\ served = Nothing_served /\ loaded = Unloaded
    /\ ca_file = Missing_file /\ header_file = Missing_file
    /\ serving = "stopped"
    /\ edit = [e \in Editor |-> Idle_edit]
    /\ torn = FALSE /\ starts = 0

(***************************************************************************)
(* Requests.  An editor asks again when it is done.                        *)
(***************************************************************************)
Asks(e, what) == edit' = [edit EXCEPT ![e] = what]
Then(e, step) == edit' = [edit EXCEPT ![e].at = step]
Finished(e) == edit' = [edit EXCEPT ![e] = Idle_edit]
OfThePair == {e \in Editor : edit[e].at \in {"key", "certificate", "replace", "removing", "removing key", "generator"}}
\* Another request is between its writes of the pair: whatever both do, the
\* halves may be of two pairs.
Crossed(e) == torn \/ OfThePair \ {e} # {}

\* PUT /tls/certificate: nothing is written before the pair is proved usable.
put_certificate(e) ==
    /\ serving = "running" /\ edit[e].at = "done"
    /\ \E upload \in Upload :
           /\ validate(upload)
           /\ Asks(e, [Idle_edit EXCEPT !.pair = upload.pair, !.at = "key"])
    /\ UNCHANGED <<yaml, key_file, cert_file, served, ca_file, header_file, loaded, serving, torn, starts>>

\* Seeded bug: the pair is served before it is on the disk.
WriteKey_served(e) ==
    /\ edit[e].at = "key"
    /\ served' = [key |-> edit[e].pair, leaf |-> edit[e].pair, chain |-> TRUE]
    /\ torn' = Crossed(e)
    /\ \/ key_file' = edit[e].pair /\ Then(e, "certificate")
       \/ UNCHANGED key_file /\ Finished(e)
    /\ UNCHANGED <<yaml, cert_file, ca_file, header_file, loaded, serving, starts>>

\* The key first; a write that fails ends the request.
WriteKey(e) ==
    /\ edit[e].at = "key"
    /\ torn' = Crossed(e)
    /\ \/ key_file' = edit[e].pair /\ Then(e, "certificate")
       \/ UNCHANGED key_file /\ Finished(e)
    /\ UNCHANGED <<yaml, cert_file, served, ca_file, header_file, loaded, serving, starts>>

WriteCertificate(e) ==
    /\ edit[e].at = "certificate"
    /\ \/ cert_file' = edit[e].pair /\ Then(e, "replace") /\ torn' = Crossed(e)
       \/ UNCHANGED cert_file /\ Finished(e) /\ torn' = TRUE
    /\ UNCHANGED <<yaml, key_file, served, ca_file, header_file, loaded, serving, starts>>

\* The next connection gets it, with the chain that came with it.
Replace_served(e) ==
    /\ edit[e].at = "replace"
    /\ served' = [key |-> edit[e].pair, leaf |-> edit[e].pair, chain |-> TRUE]
    /\ torn' = Crossed(e)
    /\ Finished(e)
    /\ UNCHANGED <<yaml, key_file, cert_file, ca_file, header_file, loaded, serving, starts>>

\* DELETE /tls/certificate: refused while the board serves its own.
delete_certificate(e) ==
    /\ serving = "running" /\ edit[e].at = "done"
    /\ ~self_signed(served.leaf)
    /\ Asks(e, [Idle_edit EXCEPT !.at = "removing"])
    /\ UNCHANGED <<yaml, key_file, cert_file, served, ca_file, header_file, loaded, serving, torn, starts>>

RemoveCertificate(e) ==
    /\ edit[e].at = "removing"
    /\ torn' = Crossed(e)
    /\ \/ cert_file' = Missing_file /\ Then(e, "removing key")
       \/ UNCHANGED cert_file /\ Finished(e)
    /\ UNCHANGED <<yaml, key_file, served, ca_file, header_file, loaded, serving, starts>>
RemoveKey(e) ==
    /\ edit[e].at = "removing key"
    /\ \/ key_file' = Missing_file /\ Then(e, "generator") /\ torn' = Crossed(e)
       \/ UNCHANGED key_file /\ Finished(e) /\ torn' = TRUE
    /\ UNCHANGED <<yaml, cert_file, served, ca_file, header_file, loaded, serving, starts>>

\* The generator, and the pair it wrote is read back and served.  When it fails
\* the old pair is served from memory, and there are no files.
Generate(e) ==
    /\ edit[e].at = "generator"
    /\ Finished(e)
    /\ \/ /\ cert_file = Missing_file
          /\ key_file' = Own /\ cert_file' = Own
          /\ served' = [key |-> Own, leaf |-> Own, chain |-> FALSE]
          /\ torn' = Crossed(e)
       \/ /\ cert_file # Missing_file /\ key_file # Missing_file
          /\ served' = [key |-> key_file, leaf |-> cert_file, chain |-> FALSE]
          /\ torn' = Crossed(e)
          /\ UNCHANGED <<key_file, cert_file>>
       \/ torn' = TRUE /\ UNCHANGED <<key_file, cert_file, served>>
    /\ UNCHANGED <<yaml, ca_file, header_file, loaded, serving, starts>>

\* The same call the acceptor makes at the start.
trial_load(bundle) == bundle = "usable"

\* PUT /access/client-ca: refused when config.yaml names one; the bundle is
\* parsed and tried, stored, and only then is the header looked at.
put_client_ca(e) ==
    /\ serving = "running" /\ edit[e].at = "done" /\ ~yaml.ca
    /\ \E bundle \in {"usable", "unusable"}, header \in {"no", "empty", "x-user"} :
           /\ trial_load(bundle)
           /\ ca_file' = bundle
           /\ Asks(e, IF header = "x-user" THEN [Idle_edit EXCEPT !.header = header, !.at = "header"]
                      ELSE Idle_edit)
    /\ UNCHANGED <<yaml, key_file, cert_file, served, header_file, loaded, serving, torn, starts>>
StoreHeader(e) ==
    /\ edit[e].at = "header"
    /\ header_file' \in {edit[e].header, header_file}
    /\ Finished(e)
    /\ UNCHANGED <<yaml, key_file, cert_file, served, ca_file, loaded, serving, torn, starts>>

\* DELETE /access/client-ca, by somebody with a password: over a connection the
\* CA has verified it is refused.
delete_client_ca(e) ==
    /\ serving = "running" /\ edit[e].at = "done" /\ ~yaml.ca
    /\ ca_file' = Missing_file
    /\ UNCHANGED <<yaml, key_file, cert_file, served, header_file, loaded, serving, edit, torn, starts>>

Edits(e) ==
    \/ put_certificate(e) \/ WriteKey(e) \/ WriteCertificate(e) \/ Replace_served(e)
    \/ delete_certificate(e) \/ RemoveCertificate(e) \/ RemoveKey(e) \/ Generate(e)
    \/ put_client_ca(e) \/ StoreHeader(e) \/ delete_client_ca(e)
tls_Next == StartServing \/ StopServing \/ \E e \in Editor : Edits(e)

tls_Spec == tls_Init /\ [][tls_Next]_tls_vars

(***************************************************************************)
(* Properties.                                                             *)
(***************************************************************************)
\* "A board that has been given a certificate it cannot serve is a board nobody
\* can reach": the daemon starts, and what it serves is one pair and the pair on
\* the disk, through failed writes, restarts and requests for anything else;
\* unless two halves of a pair were written by two requests, or only one was.
ServesWhatItKeeps ==
    ~torn => /\ serving # "cannot start"
             /\ served.key = served.leaf
             /\ (serving = "running" /\ OfThePair = {}) => served.key = key_file /\ served.leaf = cert_file

=============================================================================
