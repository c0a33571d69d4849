----------------------------- MODULE MCKeeping ------------------------------
(***************************************************************************)
(* What the board keeps, and who may change it: the copies of hand-written *)
(* files, the settings volume and its repair, the certificate and the      *)
(* trust in a proxy, sessions, the factory gate, the settings files,       *)
(* firmware images, the catalogue that lists them, the card's files and    *)
(* their order, the answer of the update check, the document of the        *)
(* address.  They share no variable in the code, so each is explored with  *)
(* the others at rest.                                                     *)
(***************************************************************************)
EXTENDS HandWrittenCopies, StorageRepair, TlsAndTrust, Sessions, FactoryPassword,
        BoardSettings, MCFirmwareImages, MCReleaseTags, UpdateCheck, SdCardFiles,
        FirmwareCatalog, AddressDocument

CONSTANTS p1, superuser, good, bad, t1, t2, own

VARIABLE part

sum_vars == <<part, copy_vars, storage_vars, tls_vars, s_vars, f_vars,
              settings_vars, image_vars, tags_vars, update_vars, card_vars,
              catalog_vars, address_vars>>

-----------------------------------------------------------------------------
(* The requests of a session, and the documents of a settings request.     *)

MCRequest ==
    [authorization : {Absent, UnreadableHeader, NoScheme, Unsupported, Malformed,
                      Bearer(t1), Basic(superuser, good), Basic(superuser, bad)},
     handshake : {FALSE}, offered : {<< >>}]
    \cup
    [authorization : {Absent}, handshake : {TRUE},
     offered : {<<"plain", t2>>, <<"empty", t2>>, <<"plain">>}]

Src(id, kind, label, location, shape) ==
    [id |-> id, kind |-> kind, label |-> label, location |-> location, shape |-> shape]
\* What shipped before the fork moved; the same under a label of the operator's.
Shipped == <<Src("fork", "Github", RETIRED_FORK_LABEL, RETIRED_LOCATION, "owner/repo")>>
Renamed == <<Src("fork", "Github", "mine", RETIRED_LOCATION, "owner/repo"),
             Src("x", "Http", "web", "w", "http")>>
\* Two lists that must be refused.
TwoOfOneId == <<Src("fork", "Github", "a", "b", "owner/repo"),
                Src("fork", "Local", "a", "b", "absolute")>>
AnImage == <<Src("fork", "Http", "a", "b", "image")>>
MCText == {"fork", "local", "x", "SD card", "card", "mine", "web", "w", "a", "b", "owner/repo", "absolute",
           "http", "image", "s", "t", "not a host", FORK_LABEL, RETIRED_LOCATION, RETIRED_FORK_LABEL}
MCSourceList == {Renamed, TwoOfOneId, AnImage}
MCFirstSources == {Holds(Shipped)}
MCServerList == {<< >>, <<"s">>, <<"s", "t">>, <<"not a host">>}
MCDocument ==
    {[format_version |-> FALSE, hostname |-> "a"],
     [format_version |-> TRUE, hostname |-> "a", ntp_servers |-> <<"s">>,
      firmware_sources |-> Renamed, nodes |-> [n \in {4, 5} |-> "n"]],
     [format_version |-> TRUE, hostname |-> "-", firmware_sources |-> TwoOfOneId]}


-----------------------------------------------------------------------------
(* A card with links on it, one that is reached through a link, a plain    *)
(* one, and none; the board's own files beside them.                       *)

D == [kind |-> "dir"]
Plain(suffix, size) == [kind |-> "file", suffix |-> suffix, size |-> size]
Link(to) == [kind |-> "link", suffix |-> "img", to |-> to]
MCRoot == <<"sd">>
NoCard == << >> :> D @@ <<"etc">> :> D @@ <<"etc", "f">> :> Plain("img", 2)
PlainCard ==
    NoCard @@ <<"sd">> :> D @@ <<"sd", "d">> :> D @@ <<"sd", "d", "f">> :> Plain("img", 2)
    @@ <<"sd", "f">> :> Plain("img", 1)
    @@ <<"sd", "up">> :> D @@ <<"sd", "up", "f">> :> Plain("img", 2)
LinkedCard ==
    NoCard @@ <<"sd">> :> D @@ <<"sd", "d">> :> Link(<<"etc">>)
    @@ <<"sd", "f">> :> Link(<<"sd", "up", "f">>) @@ <<"sd", "l">> :> Link(<<"sd", "l">>)
    @@ <<"sd", "up">> :> D @@ <<"sd", "up", "f">> :> Plain("tpu", 2)
    @@ <<"sd", "lost+found">> :> D
MovedCard ==
    NoCard @@ <<"sd">> :> Link(<<"media">>) @@ <<"media">> :> D
    @@ <<"media", "f">> :> Plain("img", 2)
    @@ <<"media", "d">> :> D @@ <<"media", "d", "f">> :> Plain("other", 2)
MCFileSystem == {NoCard, PlainCard, LinkedCard, MovedCard}
MCRequestPath ==
    UNION {[1 .. n -> {"d", "f", "up", "..", "etc"}] : n \in 0 .. 2}
    \cup {<<"l">>, <<"d", "..", "f">>, <<"d", "..", "..">>, <<"..", "sd", "f">>, <<"..", "etc", "f">>,
          <<"/", "f">>, <<"http:", "f">>}

-----------------------------------------------------------------------------
(* Every address of the width with every prefix, gateways on and off its   *)
(* network; resolvers and search domains; files as people write them.      *)

Static(a, p, g, dns, search) ==
    [mode |-> "static", address |-> a, prefix |-> p, gateway |-> g, dns |-> dns, search |-> search]
MCAddressDocuments ==
    {DHCP}
    \cup {Static(a, p, g, << >>, NoValue) :
              a \in 0 .. 2 ^ BITS - 1, p \in 0 .. BITS, g \in {NoValue, 1, 6, 9}}
    \cup {Static(5, 2, g, dns, search) :
              g \in {NoValue, 6}, dns \in {<< >>, <<9>>, <<6, 9>>},
              search \in {NoValue, Says("home.lan"), Says("")}}
MCBadSearch == {Says("")}
ImageFile == Tail(render_interfaces(DHCP))
CidrFile == <<<<Says("auto"), Says("br0")>>, <<Says("iface"), Says("br0"), Says("inet"), Says("static")>>,
              <<Says("address"), Cidr(5, 2)>>, <<Says("gateway"), Ip(6)>>>>
MCHandWritten == {<< >>, ImageFile, CidrFile}

-----------------------------------------------------------------------------

Parts == {"copies", "storage", "tls", "sessions", "gate", "settings", "images",
          "tags", "update", "card", "catalogue", "address"}

\* People at the settings, callers at the gate and fan-outs are named by the
\* same two values, which are alike: no part has more than one of these sets.
Alike == Permutations(Person)

AnAsk == Ask(FALSE, "z", TRUE, TRUE, "upload")

SumInit ==
    /\ part \in Parts
    /\ copies_Init
    /\ storage_Init
    /\ part # "storage" => /\ board = [medium |-> "mmcblk", root |-> "device", reasons |-> TRUE]
                           /\ volume = "good" /\ boot.mounted
    /\ tls_Init /\ (part # "tls" => ~yaml.ca /\ ~yaml.header)
    /\ S_Init /\ (part # "sessions" => passwds[superuser] = None)
    /\ F_Init /\ (part # "gate" => shadow.hash = own)
    /\ settings_Init /\ overlay # "missing"
    /\ (part # "settings" => overlay = "directory")
    /\ \/ part = "images" /\ images_Init
       \/ part # "images" /\ images_Init /\ readable /\ asks = [u \in Upgrade |-> AnAsk]
    /\ ParksOfOwnNames
    /\ \/ part = "tags" /\ tags_Init
       \/ part # "tags" /\ tags_Init /\ directory = [i \in 1 .. 2 |-> Named(2, <<W(1)>>, << >>)]
    /\ update_Init
    /\ card_Init /\ (part # "card" => tree = NoCard /\ ~is_mounted)
    /\ catalog_Init /\ (part # "catalogue" => card = 0)
    /\ document_Init /\ (part # "address" => interfaces = << >>)

Rest(moving) ==
    /\ part = moving
    /\ UNCHANGED part
    /\ moving # "copies" => UNCHANGED copy_vars
    /\ moving # "storage" => UNCHANGED storage_vars
    /\ moving # "tls" => UNCHANGED tls_vars
    /\ moving # "sessions" => UNCHANGED s_vars
    /\ moving # "gate" => UNCHANGED f_vars
    /\ moving # "settings" => UNCHANGED settings_vars
    /\ moving # "images" => UNCHANGED image_vars
    /\ moving # "tags" => UNCHANGED tags_vars
    /\ moving # "update" => UNCHANGED update_vars
    /\ moving # "card" => UNCHANGED card_vars
    /\ moving # "catalogue" => UNCHANGED catalog_vars
    /\ moving # "address" => UNCHANGED address_vars

SumNext ==
    \/ Rest("copies") /\ copies_Next
    \/ Rest("storage") /\ storage_Next
    \/ Rest("tls") /\ tls_Next
    \/ Rest("sessions") /\ S_Next
    \/ Rest("gate") /\ F_Next
    \/ Rest("settings") /\ settings_Next
    \/ Rest("images") /\ images_Next
    \/ Rest("tags") /\ tags_Next
    \/ Rest("update") /\ update_Next
    \/ Rest("card") /\ card_Next
    \/ Rest("catalogue") /\ catalog_Next
    \/ Rest("address") /\ document_Next

SumSpec == SumInit /\ [][SumNext]_sum_vars
=============================================================================
