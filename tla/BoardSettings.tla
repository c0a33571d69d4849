--------------------------- MODULE BoardSettings ---------------------------
(***************************************************************************)
(* The settings a person makes: the board's name (bmcd/src/app/hostname.rs)*)
(* its time servers (ntp.rs), the firmware sources (firmware_sources.rs)   *)
(* and the document that carries all of them and the node names            *)
(* (config_export.rs), with the requests of bmcd/src/api/legacy.rs.        *)
(*                                                                         *)
(* Each setting is a file written in place: tokio::fs::write opens it,     *)
(* which empties it, and then fills it, so the file is empty between the   *)
(* two and stays so when the second fails or the power does.  Two settings *)
(* also have a running side: the kernel's host name and the servers chrony *)
(* has loaded.  Nothing orders two requests.  Reading the sources may      *)
(* write them: a location that has moved is replaced, and the list stored. *)
(*                                                                         *)
(* Nothing is synced: what a write leaves reaches the flash when the       *)
(* kernel gets to it, and a power cut finds any of the contents the file   *)
(* has had since the board started.  On a board whose settings volume did  *)
(* not mount, all files are on a layer in RAM and a power cut finds those  *)
(* of the image.                                                           *)
(***************************************************************************)
EXTENDS Integers, Sequences

CONSTANTS Person,        \* the requests that may be under way at once
          Text,          \* what a field of a source or a server may say
          HostName,      \* the names a request may give
          BadName,       \* one that is not a DNS label
          ServerList,    \* the server lists a request may give
          SourceList,    \* the source lists a request may give
          FirstSources,  \* what an earlier firmware may have left in the file
          Document,      \* the documents a request may import
          MAX_SERVERS,   \* the most time servers that are accepted
          MaxWork,       \* bound: requests
          MaxTrouble     \* bound: writes that fail and power cuts

ASSUME BoardSettingsAssumption ==
    /\ BadName \in HostName
    /\ {MAX_SERVERS, MaxWork, MaxTrouble} \subseteq Nat

Setting == {"hostname", "ntp", "sources", "nodes"}

NoFile == [absent |-> TRUE]         \* no such file
Empty == [empty |-> TRUE]           \* opened for writing and not filled
Holds(value) == [holds |-> value]
IsFilled(file) == "holds" \in DOMAIN file
Unreported == [no |-> TRUE]

VARIABLES
    on_disk,      \* "hostname", "ntp", "sources" -> the file
    live_name,    \* /proc/sys/kernel/hostname
    chrony_loaded,       \* the servers chrony has loaded from its sourcedir
    node_names,   \* the names in the daemon's own store
    flash,        \* setting -> the contents of which a power cut finds one
    overlay,      \* /mnt/overlay: the volume "mounted", a "directory" in RAM, or "missing"
    jobs,         \* person -> the steps its request has still to make
    sole,         \* person -> the settings nobody else touches meanwhile
    reported,     \* setting -> the value the last request to end reported
                  \* applied, while nobody else has touched the setting since
                  \* and no power cut has found something else in its place
    answered,     \* person -> the source list it was shown last
    requested,    \* requests so far
    trouble       \* failures and power cuts so far

settings_vars == <<on_disk, live_name, chrony_loaded, node_names, flash, overlay, jobs, sole,
                   reported, answered, requested, trouble>>

-----------------------------------------------------------------------------
(* Firmware sources.                                                       *)

FORK_LOCATION == "fork"
FORK_LABEL == "fork label"
RETIRED_LOCATION == "retired"
RETIRED_FORK_LABEL == "retired label"

Default == <<[id |-> "fork", kind |-> "Github", label |-> FORK_LABEL,
              location |-> FORK_LOCATION, shape |-> "owner/repo"],
             [id |-> "local", kind |-> "Local", label |-> "SD card",
              location |-> "card", shape |-> "absolute"]>>

(* A moved location is replaced; its label only if it is the one that      *)
(* shipped with it.                                                        *)
migrate(sources) ==
    [i \in DOMAIN sources |->
       IF sources[i].location # RETIRED_LOCATION THEN sources[i]
       ELSE [sources[i] EXCEPT
               !.location = FORK_LOCATION,
               !.label = IF @ = RETIRED_FORK_LABEL THEN FORK_LABEL ELSE @]]

(* What is wrong with a list is found before it is stored: ids that are    *)
(* there and differ, and a location of the shape its kind needs.           *)
ShapeFor == [Github |-> {"owner/repo"}, Http |-> {"http"}, Local |-> {"absolute"}]

validate_sources(sources) ==
    /\ \A i \in DOMAIN sources :
         /\ sources[i].id # ""
         /\ sources[i].shape \in ShapeFor[sources[i].kind]
    /\ \A i, j \in DOMAIN sources : sources[i].id = sources[j].id => i = j

(* A missing file and one that does not parse are the default list.        *)
parse_sources(file) == IF IsFilled(file) THEN file.holds ELSE Default

(* Time servers: a line each, the first one preferred; what is read back   *)
(* is the second word of every line.                                       *)
render(servers) ==
    [i \in DOMAIN servers |-> [server |-> servers[i], prefer |-> i = 1]]

parse(file) ==
    IF IsFilled(file) THEN [i \in DOMAIN file.holds |-> file.holds[i].server]
    ELSE << >>

validate_all(servers) ==
    /\ Len(servers) <= MAX_SERVERS
    /\ \A i \in DOMAIN servers : servers[i] # "not a host"

validate_name(name) == name # BadName

(* What the daemon is given: lists of the types that serde reads, and in   *)
(* the file nothing that was not valid when it was stored.                 *)
SourceRecord == [id : Text, kind : {"Github", "Http", "Local"}, label : Text, location : Text, shape : Text]

ASSUME GivenAssumption ==
    /\ {FORK_LOCATION, FORK_LABEL, "fork", "owner/repo", "local", "SD card", "card", "absolute"} \subseteq Text
    /\ ServerList \subseteq Seq(Text) /\ SourceList \subseteq Seq(SourceRecord)
    /\ \A d \in Document :
         /\ "ntp_servers" \in DOMAIN d => d.ntp_servers \in Seq(Text)
         /\ "firmware_sources" \in DOMAIN d => d.firmware_sources \in Seq(SourceRecord)
    /\ \A first \in FirstSources :
         IsFilled(first) => first.holds \in Seq(SourceRecord) /\ validate_sources(first.holds)

-----------------------------------------------------------------------------
(* A request is the steps it makes; a failed step ends its setting's.      *)

SettingStep(setting, do, value) ==
    [setting |-> setting, do |-> do, value |-> [s \in {setting} |-> value]]

Given(step) == step.value[step.setting]

Steps(setting, doing, value) ==
    [i \in DOMAIN doing |-> SettingStep(setting, doing[i], value)]

\* Seeded bug: the running name first, the file if there is time.
set_live(name) ==
    IF ~validate_name(name) THEN << >>
    ELSE Steps("hostname", <<"live", "report", "open", "fill">>, name)

(* hostname::set: the file, then the running name; mdnsd is restarted      *)
(* whatever comes of it.                                                   *)
set(name) ==
    IF ~validate_name(name) THEN << >>
    ELSE Steps("hostname", <<"open", "fill", "live", "report">>, name)

(* ntp::store: the directory is made; an empty list removes the file.      *)
store_servers(servers) ==
    IF ~validate_all(servers) THEN << >>
    ELSE Steps("ntp", IF servers = << >> THEN <<"mkdir", "remove", "reload", "report">>
                      ELSE <<"mkdir", "open", "fill", "reload", "report">>, servers)

store(sources) == Steps("sources", <<"open", "fill">>, sources)

store_sources(sources) ==
    IF ~validate_sources(sources) THEN << >>
    ELSE Steps("sources", <<"open", "fill", "report">>, sources)

(* node_id: a document's nodes beyond the fourth are reported failed; the  *)
(* others are put in the store, where a name that is absent leaves what is *)
(* there.                                                                  *)
KnownNodes(nodes) == [n \in DOMAIN nodes \cap 1..4 |-> nodes[n]]

set_nodes(nodes) ==
    IF DOMAIN KnownNodes(nodes) = {} THEN << >>
    ELSE Steps("nodes", <<"names", "report">>, KnownNodes(nodes))

(* import: every field of the document by itself, in this order.           *)
import(d) ==
    IF ~d.format_version THEN << >>
    ELSE (IF "hostname" \in DOMAIN d THEN set(d.hostname) ELSE << >>)
         \o (IF "ntp_servers" \in DOMAIN d THEN store_servers(d.ntp_servers) ELSE << >>)
         \o (IF "firmware_sources" \in DOMAIN d
             THEN store_sources(d.firmware_sources) ELSE << >>)
         \o (IF "nodes" \in DOMAIN d THEN set_nodes(d.nodes) ELSE << >>)

(* load: the list is read in one step, which adds the storing if needed.   *)
load == Steps("sources", <<"read">>, << >>)
OnlyReads(steps) == Head(steps).do = "read"

-----------------------------------------------------------------------------

\* What is stored of a setting, as the daemon sees it.
Stored(s) == IF s = "nodes" THEN node_names ELSE on_disk[s]

settings_Init ==
    /\ overlay \in {"mounted", "directory", "missing"}
    /\ \E first \in IF overlay = "mounted" THEN FirstSources ELSE {NoFile} :
         on_disk = [hostname |-> Holds("turingpi"), ntp |-> NoFile, sources |-> first]
    /\ live_name = "turingpi"
    /\ chrony_loaded = << >>
    /\ node_names = [n \in 1..4 |-> ""]
    /\ flash = [s \in Setting |-> {Stored(s)}]
    /\ jobs = [p \in Person |-> << >>] /\ sole = [p \in Person |-> {}]
    /\ reported = [s \in Setting |-> Unreported]
    /\ answered = [p \in Person |-> Default]
    /\ requested = 0
    /\ trouble = 0

Touches(steps) == {steps[i].setting : i \in DOMAIN steps}

(* A request arrives.  What it will touch is no longer what an earlier one *)
(* reported; and what another request is in the middle of is not this      *)
(* one's to report.                                                        *)
Accept(p, steps) ==
    /\ jobs[p] = << >>
    /\ requested < MaxWork
    /\ requested' = requested + 1
    /\ steps # << >>
    /\ LET crossed == (UNION {Touches(jobs[q]) : q \in Person}) \cap Touches(steps)
       IN  sole' = [q \in Person |-> (IF q = p THEN Touches(steps) ELSE sole[q]) \ crossed]
    /\ jobs' = [jobs EXCEPT ![p] = steps]
    /\ reported' = [s \in Setting |->
                      IF s \in Touches(steps) /\ ~OnlyReads(steps)
                      THEN Unreported ELSE reported[s]]
    /\ UNCHANGED <<on_disk, live_name, chrony_loaded, node_names, flash, overlay, answered, trouble>>

set_hostname(p) == \E name \in HostName : Accept(p, set(name))

set_ntp(p) == \E servers \in ServerList : Accept(p, store_servers(servers))

(* storage_available: the directory is there, mounted or not.              *)
storage_available == overlay # "missing"

set_firmware_sources(p) ==
    /\ storage_available
    /\ \E sources \in SourceList : Accept(p, store_sources(sources))

get_firmware_sources(p) == Accept(p, load)

(* export: the sources by way of load; everything else is only read.       *)
get_config(p) == Accept(p, load)

set_config(p) == \E d \in Document : Accept(p, import(d))

-----------------------------------------------------------------------------

Todo(p, do) == jobs[p] # << >> /\ Head(jobs[p]).do = do

Step_done(p) == jobs' = [jobs EXCEPT ![p] = Tail(@)]

(* The step fails, as it must where there is no directory to write in: the *)
(* rest of its setting's steps are not made, and it is reported failed.    *)
Step_failed(p) ==
    /\ \/ trouble < MaxTrouble /\ trouble' = trouble + 1
       \/ Head(jobs[p]).setting = "sources" /\ ~storage_available /\ UNCHANGED trouble
    /\ \E k \in 2 .. Len(jobs[p]) + 1 :
          /\ \A i \in 1 .. k - 1 : jobs[p][i].setting = Head(jobs[p]).setting
          /\ k <= Len(jobs[p]) => jobs[p][k].setting # Head(jobs[p]).setting
          /\ jobs' = [jobs EXCEPT ![p] = SubSeq(@, k, Len(@))]

(* What is stored of a setting is written back some time, if it is on the  *)
(* flash at all: until then the earlier contents may be what is there.     *)
Leaves(s, content) ==
    flash' = IF overlay = "mounted" THEN [flash EXCEPT ![s] = @ \cup {content}] ELSE flash

(* create_dir_all: the file's directory, and /mnt/overlay with it.         *)
MakeSourceDir(p) ==
    /\ Todo(p, "mkdir")
    /\ \/ /\ overlay' = IF overlay = "missing" THEN "directory" ELSE overlay
          /\ Step_done(p)
          /\ UNCHANGED trouble
       \/ Step_failed(p) /\ UNCHANGED overlay
    /\ UNCHANGED <<on_disk, live_name, chrony_loaded, node_names, flash, sole, reported, answered, requested>>

OpenSetting(p) ==
    /\ Todo(p, "open")
    /\ LET s == Head(jobs[p]) IN
         \/ /\ s.setting = "sources" => storage_available
            /\ on_disk' = [on_disk EXCEPT ![s.setting] = Empty]
            /\ Leaves(s.setting, Empty)
            /\ Step_done(p)
            /\ UNCHANGED trouble
         \/ Step_failed(p) /\ UNCHANGED <<on_disk, flash>>
    /\ UNCHANGED <<live_name, chrony_loaded, node_names, overlay, sole, reported, answered, requested>>

(* Filling fails on a full disk; the file stays empty.                     *)
FillSetting(p) ==
    /\ Todo(p, "fill")
    /\ LET s       == Head(jobs[p])
           content == Holds(IF s.setting = "ntp" THEN render(Given(s)) ELSE Given(s))
       IN  \/ /\ on_disk' = [on_disk EXCEPT ![s.setting] = content]
              /\ Leaves(s.setting, content)
              /\ Step_done(p)
              /\ UNCHANGED trouble
           \/ Step_failed(p) /\ UNCHANGED <<on_disk, flash>>
    /\ UNCHANGED <<live_name, chrony_loaded, node_names, overlay, sole, reported, answered, requested>>

RemoveSetting(p) ==
    /\ Todo(p, "remove")
    /\ \/ /\ on_disk' = [on_disk EXCEPT !.ntp = NoFile]
          /\ Leaves("ntp", NoFile)
          /\ Step_done(p)
          /\ UNCHANGED trouble
       \/ Step_failed(p) /\ UNCHANGED <<on_disk, flash>>
    /\ UNCHANGED <<live_name, chrony_loaded, node_names, overlay, sole, reported, answered, requested>>

(* sethostname(2), by way of its sysctl.                                   *)
SetLive(p) ==
    /\ Todo(p, "live")
    /\ \/ /\ live_name' = Given(Head(jobs[p]))
          /\ Step_done(p)
          /\ UNCHANGED trouble
       \/ Step_failed(p) /\ UNCHANGED live_name
    /\ UNCHANGED <<on_disk, chrony_loaded, node_names, flash, overlay, sole, reported, answered, requested>>

(* chronyc reload sources: chrony reads the files of its sourcedir.        *)
reload(p) ==
    /\ Todo(p, "reload")
    /\ \/ /\ chrony_loaded' = parse(on_disk.ntp)
          /\ Step_done(p)
          /\ UNCHANGED trouble
       \/ Step_failed(p) /\ UNCHANGED chrony_loaded
    /\ UNCHANGED <<on_disk, live_name, node_names, flash, overlay, sole, reported, answered, requested>>

(* set_node_info: names that are given replace the ones in the store.      *)
set_node_info(p) ==
    /\ Todo(p, "names")
    /\ LET given == Given(Head(jobs[p])) IN
         node_names' = [n \in 1..4 |->
                          IF n \in DOMAIN given /\ given[n] # "" THEN given[n]
                          ELSE node_names[n]]
    /\ Leaves("nodes", node_names')
    /\ Step_done(p)
    /\ UNCHANGED <<on_disk, live_name, chrony_loaded, overlay, sole, reported, answered, requested, trouble>>

\* Seeded bug: only the default list is brought up to date.
read_sources_as_kept(p) ==
    /\ Todo(p, "read")
    /\ answered' = [answered EXCEPT ![p] = parse_sources(on_disk.sources)]
    /\ Step_done(p)
    /\ UNCHANGED <<on_disk, live_name, chrony_loaded, node_names, flash, overlay, sole, reported, requested, trouble>>

(* load: read, rewrite what has moved, and store the list if it changed.   *)
read_sources(p) ==
    /\ Todo(p, "read")
    /\ LET read     == parse_sources(on_disk.sources)
           migrated == migrate(read)
       IN  /\ answered' = [answered EXCEPT ![p] = migrated]
           /\ jobs' = [jobs EXCEPT ![p] =
                         IF migrated # read THEN store(migrated) ELSE << >>]
           /\ reported' = IF migrated # read
                          THEN [reported EXCEPT !.sources = Unreported]
                          ELSE reported
    /\ UNCHANGED <<on_disk, live_name, chrony_loaded, node_names, flash, overlay, sole, requested, trouble>>

ReportApplied(p) ==
    /\ Todo(p, "report")
    /\ reported' = [reported EXCEPT ![Head(jobs[p]).setting] =
                       IF Head(jobs[p]).setting \in sole[p] THEN Holds(Given(Head(jobs[p]))) ELSE @]
    /\ Step_done(p)
    /\ UNCHANGED <<sole, on_disk, live_name, chrony_loaded, node_names, flash, overlay, answered, requested, trouble>>

(* The power goes and comes back: what was under way is lost; the name and *)
(* the servers are read from the files that are left.  (An orderly reboot  *)
(* is the case in which everything has been written back.)                 *)
PowerCut ==
    /\ trouble < MaxTrouble
    /\ trouble' = trouble + 1
    /\ jobs' = [p \in Person |-> << >>] /\ sole' = [p \in Person |-> {}]
    /\ \E name \in flash["hostname"], servers \in flash["ntp"], sources \in flash["sources"] :
           on_disk' = [hostname |-> name, ntp |-> servers, sources |-> sources]
    /\ node_names' \in flash["nodes"]
    /\ flash' = [s \in Setting |-> {Stored(s)'}]
    /\ live_name' = IF IsFilled(on_disk'.hostname) THEN on_disk'.hostname.holds ELSE ""
    /\ chrony_loaded' = parse(on_disk'.ntp)
    /\ reported' = [s \in Setting |-> IF Stored(s)' = Stored(s) THEN reported[s] ELSE Unreported]
    /\ \/ overlay = "mounted" /\ UNCHANGED overlay
       \/ overlay # "mounted" /\ overlay' \in {"directory", "missing"}
    /\ UNCHANGED <<answered, requested>>

settings_Next ==
    \/ \E p \in Person :
         \/ set_hostname(p) \/ set_ntp(p) \/ set_firmware_sources(p)
         \/ get_firmware_sources(p) \/ get_config(p) \/ set_config(p)
         \/ MakeSourceDir(p) \/ OpenSetting(p) \/ FillSetting(p) \/ RemoveSetting(p) \/ SetLive(p)
         \/ reload(p) \/ set_node_info(p) \/ read_sources(p) \/ ReportApplied(p)
    \/ PowerCut

settings_Spec == settings_Init /\ [][settings_Next]_settings_vars

-----------------------------------------------------------------------------

(* A setting that was reported applied is in effect, on the running side   *)
(* and in the file, until another request comes to write it (a page that   *)
(* reads the sources writes them when a location has moved) or a power cut *)
(* finds something else stored: an earlier or an empty file if it had not  *)
(* been written back, the image's if the settings volume is not mounted.   *)
(* What the cut does find stored is in effect after it.  A document's      *)
(* fields each keep this by themselves, whatever became of the others      *)
(* (hostname::set, ntp::store, firmware_sources::store,                    *)
(* config_export::import).                                                 *)
AppliedIsInEffect ==
    \A s \in Setting : reported[s] # Unreported =>
      LET value == reported[s].holds
      IN  CASE s = "hostname" -> live_name = value /\ on_disk.hostname = Holds(value)
            [] s = "ntp"      -> chrony_loaded = value /\ parse(on_disk.ntp) = value
            [] s = "sources"  -> on_disk.sources = Holds(value)
            [] s = "nodes"    ->
                 \A n \in DOMAIN value : value[n] # "" => node_names[n] = value[n]

(* Every list a page or an install is given can be acted on: it passes     *)
(* validate, it names no location that has moved, and it is the default or *)
(* a list that was accepted, its labels the ones the operator gave         *)
(* (firmware_sources::load, migrate, validate; config_export::import).     *)
SourcesAreUsable ==
    \A p \in Person :
      /\ validate_sources(answered[p])
      /\ \A i \in DOMAIN answered[p] : answered[p][i].location # RETIRED_LOCATION
      /\ \E given \in {Default} \cup SourceList
                      \cup {f.holds : f \in {g \in FirstSources : IsFilled(g)}}
                      \cup {d.firmware_sources : d \in
                              {e \in Document : "firmware_sources" \in DOMAIN e}} :
           /\ Len(given) = Len(answered[p])
           /\ \A i \in DOMAIN given :
                \/ answered[p][i].label = given[i].label
                \/ given[i].label = RETIRED_FORK_LABEL

=============================================================================
