--------------------------- MODULE AddressDocument --------------------------
(***************************************************************************)
(* The board's own address as a document (app/address_document.rs): the    *)
(* rules that refuse one, the interfaces file it is rendered to, the       *)
(* reader of that file, and the resolvers that reach /etc/resolv.conf      *)
(* through a shell hook in it.                                             *)
(*                                                                         *)
(* AddressService models when a document is applied, confirmed and taken   *)
(* back; here a document that was confirmed meets the file it was written  *)
(* to and the boot that reads it.  A line is a sequence of words, a word   *)
(* is a tagged value, and an address is a number of BITS bits.             *)
(***************************************************************************)
EXTENDS Integers, FiniteSets, Sequences
LOCAL INSTANCE SequencesExt
LOCAL INSTANCE Bitwise

CONSTANTS
    BITS,               \* the width of an address: 32 on the board
    MIN_PREFIX, MAX_PREFIX,
    Unreachable,        \* loopback, multicast, link-local, unspecified, broadcast
    AddressDocuments,   \* the documents somebody may send
    HandWritten,        \* the files somebody may have written
    BadSearch,          \* search domains with a character that is refused
    NoValue

ASSUME AddressAssumption == 0 < MIN_PREFIX /\ MIN_PREFIX <= MAX_PREFIX /\ MAX_PREFIX < BITS

VARIABLES
    interfaces,    \* /etc/network/interfaces, on flash
    resolv,        \* /etc/resolv.conf, in memory
    br0,           \* what is on the bridge
    meant          \* history: the document last confirmed, or NoValue

address_vars == <<interfaces, resolv, br0, meant>>

Ip(n) == <<"ip", n>>
Says(w) == <<"word", w>>
Cidr(n, p) == <<"cidr", n, p>>

DHCP == [mode |-> "dhcp"]
Leased == DHCP
Bare == [mode |-> "none"]

-----------------------------------------------------------------------------
(* StaticAddress: u32 arithmetic.                                          *)

mask(prefix) == IF prefix = 0 THEN 0 ELSE ((2 ^ BITS - 1) * 2 ^ (BITS - prefix)) % 2 ^ BITS
network(s) == s.address & mask(s.prefix)
broadcast(s) == network(s) | (2 ^ BITS - 1 - mask(s.prefix))
contains(s, ip) == (ip & mask(s.prefix)) = network(s)

\* Why the board will not apply a document, the first reason that holds.
refused_for(d) ==
    IF d.mode = "dhcp" THEN NoValue
    ELSE IF d.prefix \notin MIN_PREFIX .. MAX_PREFIX THEN "prefix"
    ELSE IF d.address \in Unreachable THEN "unreachable"
    ELSE IF d.address = network(d) THEN "network"
    ELSE IF d.address = broadcast(d) THEN "broadcast"
    ELSE IF d.gateway # NoValue /\ ~contains(d, d.gateway) THEN "gateway"
    ELSE IF d.gateway = d.address THEN "own gateway"
    ELSE IF d.search \in BadSearch THEN "search"
    ELSE NoValue

-----------------------------------------------------------------------------
(* /etc/resolv.conf, and its way through the hook: "\n" and "#" are what   *)
(* printf has to produce, "\\n" and "\\043" what the file may hold.        *)

resolv_conf(dns, search) ==
    (IF search = NoValue THEN << >>
     ELSE <<Says("search"), search, Says("#"), Says("br0"), Says("\n")>>)
    \o FlattenSeq([i \in DOMAIN dns |->
           <<Says("nameserver"), Ip(dns[i]), Says("#"), Says("br0"), Says("\n")>>])

Replaced(text, from, to) == [i \in DOMAIN text |-> IF text[i] = Says(from) THEN Says(to) ELSE text[i]]

\* Seeded bug: the comment character goes into the file as it is.
hook_argument_newlines(text) == Replaced(text, "\n", "\\n")

hook_argument(text) == Replaced(Replaced(text, "\n", "\\n"), "#", "\\043")

\* What GET reads back from resolv.conf: every nameserver, the last search.
parse_resolv(text) ==
    LET After(word) == SelectSeq([i \in DOMAIN text |->
                                     IF i > 1 /\ text[i - 1] = Says(word) THEN <<text[i]>> ELSE << >>],
                                 LAMBDA w : w # << >>)
        names == After("nameserver")
        domains == After("search")
    IN [dns |-> [i \in DOMAIN names |-> names[i][1][2]],
        search |-> IF domains = << >> THEN NoValue ELSE Last(domains)[1]]

-----------------------------------------------------------------------------
(* The file: what a document is rendered to, and what a file is read as.   *)

MARKER == <<Says("# Written by bmcd")>>
BridgeLines == <<<<Says("bridge-ports"), Says("node1")>>, <<Says("pre-up"), Says("nfs_check")>>,
                 <<Says("wait-delay"), Says("15")>>>>

render_interfaces(d) ==
    LET Iface(mode) == <<Says("iface"), Says("br0"), Says("inet"), Says(mode)>>
        Given(yes, line) == IF yes THEN <<line>> ELSE << >>
    IN  <<MARKER, << >>, <<Says("auto"), Says("lo")>>,
          <<Says("iface"), Says("lo"), Says("inet"), Says("loopback")>>,
          << >>, <<Says("auto"), Says("br0")>>>>
        \o IF d.mode = "dhcp"
           THEN <<Iface("dhcp")>> \o BridgeLines \o <<<<Says("hostname"), Says("$(hostname)")>>>>
           ELSE <<Iface("static"), <<Says("address"), Ip(d.address)>>,
                  <<Says("netmask"), Ip(mask(d.prefix))>>>>
                \o Given(d.gateway # NoValue, <<Says("gateway"), Ip(d.gateway)>>)
                \o BridgeLines
                \o Given(d.dns # << >>, <<Says("dns-nameservers")>> \o [i \in DOMAIN d.dns |-> Ip(d.dns[i])])
                \o Given(d.search # NoValue, <<Says("dns-search"), d.search>>)
                \o Given(d.dns # << >> \/ d.search # NoValue,
                         <<Says("up"), Says("printf"), Says("'")>>
                         \o hook_argument(resolv_conf(d.dns, d.search))
                         \o <<Says("'"), Says("> /etc/resolv.conf")>>)

count_ones(n) == Cardinality({b \in 0 .. BITS - 1 : (n \div 2 ^ b) % 2 = 1})
IsIp(w) == w[1] = "ip"
Second_word(line) == IF Len(line) > 1 THEN line[2] ELSE Says("")

Unread == [in_br0 |-> FALSE, mode |-> Says(""), address |-> NoValue, prefix |-> NoValue,
           gateway |-> NoValue, dns |-> << >>, search |-> NoValue]

\* One line of the file; a later line of the br0 stanza replaces an earlier one.
ReadLine(read, line) ==
    IF line = << >> \/ line = MARKER THEN read
    ELSE LET key == line[1][2]
             w == Second_word(line)
             ips == SelectSeq(Tail(line), IsIp)
         IN CASE key = "iface" /\ w # Says("br0") -> [read EXCEPT !.in_br0 = FALSE]
              [] key = "iface" /\ w = Says("br0") ->
                     [read EXCEPT !.in_br0 = TRUE, !.mode = IF Len(line) > 3 THEN line[4] ELSE Says("")]
              [] key \in {"auto", "source", "mapping"} -> [read EXCEPT !.in_br0 = FALSE]
              [] key = "address" /\ read.in_br0 ->
                     [read EXCEPT !.address = IF w[1] \in {"ip", "cidr"} THEN w[2] ELSE NoValue,
                                  !.prefix = IF w[1] = "cidr" THEN w[3] ELSE @]
              [] key = "netmask" /\ read.in_br0 /\ IsIp(w) -> [read EXCEPT !.prefix = count_ones(w[2])]
              [] key = "gateway" /\ read.in_br0 -> [read EXCEPT !.gateway = IF IsIp(w) THEN w[2] ELSE NoValue]
              [] key = "dns-nameservers" /\ read.in_br0 ->
                     [read EXCEPT !.dns = [i \in DOMAIN ips |-> ips[i][2]]]
              [] key = "dns-search" /\ read.in_br0 ->
                     [read EXCEPT !.search = IF Len(line) > 1 THEN w ELSE NoValue]
              [] OTHER -> read

parse_interfaces(file) ==
    LET read == FoldLeft(ReadLine, Unread, file)
    IN [ours |-> file # << >> /\ file[1] = MARKER,
        document |->
            CASE read.mode = Says("dhcp") -> DHCP
              [] read.mode = Says("static") /\ read.address # NoValue /\ read.prefix # NoValue ->
                     [mode |-> "static", address |-> read.address, prefix |-> read.prefix,
                      gateway |-> read.gateway, dns |-> read.dns, search |-> read.search]
              [] OTHER -> NoValue]

-----------------------------------------------------------------------------
(* Confirmed live, read back at boot.                                      *)

OnBridge(d) ==
    IF d.mode = "dhcp" THEN Leased
    ELSE [mode |-> "static", address |-> d.address, prefix |-> d.prefix, gateway |-> d.gateway]

\* Applier::apply(): a static address always writes resolv.conf, an empty one
\* included; on DHCP the client writes it when it is bound.
PutOnTheBridge(d) ==
    /\ br0' = OnBridge(d)
    /\ resolv' = IF d.mode = "static" THEN resolv_conf(d.dns, d.search) ELSE resolv

\* A document that was applied and confirmed is the file, whole.
ConfirmDocument(d) ==
    /\ refused_for(d) = NoValue
    /\ PutOnTheBridge(d)
    /\ interfaces' = render_interfaces(d)
    /\ meant' = d

\* udhcpc (external) replaces the lines marked as br0's; all of them are.
Bound ==
    /\ br0 = Leased
    /\ resolv' = resolv_conf(<<1>>, NoValue)
    /\ UNCHANGED <<interfaces, br0, meant>>

\* ifupdown-ng (external): `#` starts a comment anywhere on a line; a hook that
\* lost its closing quote fails and writes nothing.
UpToComment(line) ==
    LET marks == {i \in DOMAIN line : line[i] = Says("#")}
    IN IF marks = {} THEN line ELSE SubSeq(line, 1, (CHOOSE i \in marks : \A j \in marks : i <= j) - 1)
BootReads(file) ==
    LET start == {i \in DOMAIN file : Len(file[i]) > 3 /\ file[i][1] = Says("iface") /\ file[i][2] = Says("br0")}
        lines == [i \in DOMAIN file |-> UpToComment(file[i])]
        Of(key) == {lines[i] : i \in {j \in DOMAIN lines :
                        (\E s \in start : j > s) /\ lines[j] # << >> /\ lines[j][1] = Says(key)}}
        Only(key) == CHOOSE l \in Of(key) : TRUE
        hooks == {l \in Of("up") : Last(l) = Says("> /etc/resolv.conf")}
    IN [br0 |-> IF start = {} THEN Bare
                ELSE IF file[CHOOSE s \in start : TRUE][4] = Says("dhcp") THEN Leased
                ELSE [mode |-> "static", address |-> Only("address")[2][2],
                      prefix |-> IF Of("netmask") = {} THEN Only("address")[2][3]
                                 ELSE count_ones(Only("netmask")[2][2]),
                      gateway |-> IF Of("gateway") = {} THEN NoValue ELSE Only("gateway")[2][2]],
        resolv |-> IF hooks = {} THEN << >>
                   ELSE LET l == CHOOSE h \in hooks : TRUE
                        IN Replaced(Replaced(SubSeq(l, 4, Len(l) - 2), "\\n", "\n"), "\\043", "#")]

\* The board boots, and the daemon reads the file it booted from.
BootFromFile ==
    /\ br0' = BootReads(interfaces).br0
    /\ resolv' = BootReads(interfaces).resolv
    /\ UNCHANGED <<interfaces, meant>>

\* Somebody edits the file over SSH.
EditByHand ==
    /\ interfaces' \in HandWritten
    /\ meant' = NoValue
    /\ UNCHANGED <<resolv, br0>>

document_Init ==
    /\ interfaces \in HandWritten
    /\ resolv = << >> /\ br0 = Bare /\ meant = NoValue
document_Next ==
    \/ \E d \in AddressDocuments : ConfirmDocument(d)
    \/ Bound
    \/ BootFromFile
    \/ EditByHand

\* An address that is neither the first nor the last of its network, with the
\* gateway beside it: by division, where the code masks.
Block(ip, prefix) == ip \div 2 ^ (BITS - prefix)
IsHost(d) ==
    /\ d.address % 2 ^ (BITS - d.prefix) \notin {0, 2 ^ (BITS - d.prefix) - 1}
    /\ d.gateway # NoValue => /\ Block(d.gateway, d.prefix) = Block(d.address, d.prefix)
                              /\ d.gateway # d.address

(***************************************************************************)
(* "Writing that file, in the shape it already has, is the whole of        *)
(* persistence": a confirmed document is read back from its file as it     *)
(* was, as the daemon's own; the bridge and the resolvers of the next boot *)
(* are the ones it had when it was confirmed, through both encodings of    *)
(* the hook; and its address is a host of its own network with the gateway *)
(* beside it.  A file written by hand is never taken for the daemon's.     *)
(***************************************************************************)
DocumentSurvivesTheFile ==
    IF meant = NoValue THEN ~parse_interfaces(interfaces).ours
    ELSE /\ parse_interfaces(interfaces) = [ours |-> TRUE, document |-> meant]
         /\ br0 = OnBridge(meant)
         /\ meant.mode = "static" => /\ IsHost(meant)
                                     /\ parse_resolv(resolv) = [dns |-> meant.dns, search |-> meant.search]
=============================================================================
