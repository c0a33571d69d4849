# A verification project for bmcd

`bmcd` is the daemon of a board management controller: four compute modules, an
Ethernet switch, a USB switch, two uplinks, and a small Linux system that runs
the daemon. This directory holds TLA+ models of the parts of it that are hard
to test, configurations that check them with TLC, and theorems about them with
proofs TLAPS checks. The code is the reference; every definition names the
lines it stands for in `PROJECT.json` (`map`), and paths below are relative to
`src/bmcd/src`.

## 1. Inventory

| Component | State it keeps | Operations | What makes it correct |
|---|---|---|---|
| Switch documents (`app/switch_document.rs`) | none; a document is a value | presets, `refusal`, `warnings` | an accepted document leaves the operator a way to the BMC and makes no loop |
| Switch plan (`app/switch_applier.rs`) | none; a plan is a list of commands | `plan` | the commands take the bridge from one document to the other, in an order with no bad moment |
| Switch change and service (`app/switch_change.rs`, `app/switch_service.rs`, `api/network.rs`) | `confirmed`, `pending`, `last_revert`, `running`; `/etc/bmcd/switch.json`; the bridge | `load`, `boot_apply`, `apply`, `confirm`, `revert`, `tick` | a change nobody confirmed is put back; only a confirmed one outlives a power cut |
| Address change, service, applier (`app/address_change.rs`, `app/address_service.rs`, `app/address_applier.rs`, `api/address.rs`) | the same, and what it last read of `/etc/network/interfaces`, its stamp, the last copy; the file, br0, `resolv.conf` | `load_with`, `repair`, `refresh`, `apply`, `confirm`, `revert`, `tick` | the same promise; nobody's hand-written file is lost |
| Address documents (`app/address_document.rs`) | none; the interfaces file and `resolv.conf` | `refusal`, `render_interfaces`, `parse_interfaces`, the boot hook | what is rendered is read back, and the next boot is on it |
| Streaming data service (`streaming_data_service.rs`, `streaming_data_service/*`) | one `StreamingState`; per transfer a token, a channel, a worker, a timer | `request_transfer`, `take_sender`, `cancel_all`, the timer, `execute_worker` | one writer at a time; an outcome belongs to its transfer; a cancel aborts |
| Upgrade worker, firmware slots (`app/upgrade_worker.rs`, `app/transfer_action.rs`, `app/firmware_info.rs`) | a node in flash mode, staged and parked images, two firmware volumes, the boot environment, the note of what was staged | `flash_node`, `os_park`, `os_update`, `pick_slots` | a listed image is whole; an install keeps a way back; a failure puts node, USB and files back |
| BmcApplication (`app/bmc_application.rs`, `hal/*`) | power bit-field, node information, USB configuration, in the store and in hardware | `activate_slot`, `configure_usb`, `usb_boot`, `reset_node`, `node_in_flash`, start-up | store and hardware agree; concurrent requests for different nodes both happen |
| USB boot (`usb_boot.rs`, `usb_boot/*`, `utils.rs`) | none; the bus and the block devices | look, wait, boot driver, find the storage | the module that is flashed is the one that was asked for |
| Serial service (`serial_service/*`) | worker, ring buffer, two bounded channels per node, sessions | `run`, `write`, `open_channel`, `read_whole_buffer`, `handle_ws` | no chunk reordered or shown twice; a slow reader does not stop the worker; a dead client is let go |
| Persistency (`persistency/*`) | cache, dirty flag, watcher, file and its `.new` | `try_set`, the debounced writer, `sync_all` | what was set reaches the file, a crash leaves the old or the new |
| Authentication (`authentication/*`) | tokens, penalties per peer, password cache; one lock | bearer, basic, WebSocket, login, reload | a ban holds and ends; a token lives as long as it is used; a new password is noticed |
| Factory gate (`authentication/factory_password.rs`) | one cached answer with a time stamp | `still_set`, the change of the password | a board on its factory password serves nothing but what is open |
| TLS store and trust (`tls_store.rs`, `api/tls.rs`, `api/access.rs`) | the served pair, two files, a client authority, a header | put, delete, restart | certificate and key belong together, and a restart serves what is served |
| Cooling (`app/cooling_device.rs`) | the kernel's governors and steps, stored steps | override, resume, ceiling | a held fan is as asked, and a hot board gets its governor back |
| Firmware catalogue, tags, sources (`app/firmware_catalog.rs`, `app/version.rs`, `app/firmware_sources.rs`) | one cached listing, a claim, a count of invalidations, calls under way | read, refresh, fan-out, invalidate, park | a listing that is behind says so; the refresh comes back; releases are ordered as published |
| Update check (`app/update_check.rs`) | one cached answer behind a lock | `get` | the updater is not run again for every page |
| Settings (`app/hostname.rs`, `app/ntp.rs`, `app/firmware_sources.rs`, `app/config_export.rs`) | three files, the live name, the loaded time servers | set, store, load with migration, import | what was reported applied is in effect; a list that is given out can be used |
| SD card (`app/sdcard_files.rs`) | the mounted card | `resolve`, `list`, `resolve_sdcard_file` | what is flashed from the card is on the card |
| Storage status and repair (`app/storage_status.rs`, `api/storage.rs`) | a guard; the settings volume | `assess`, `repair`, `repair_and_reboot` | a volume in use is never removed, a repair ends in a reboot |
| Metrics, health, thermal, interfaces, board information, USB gadget, OpenAPI, web interface, stub hardware | none they share | reads and formatting | (no state to get wrong) |

How they interact. Two HTTP worker threads run the handlers; each of the switch,
the address and the streaming services is behind one fair asynchronous mutex
that an operation holds from its first read to its last write. Two one-second
timers call the services' `tick`. The streaming service spawns a worker and a
timer per transfer, which share its state with the handlers; the worker ends
in `BmcApplication` (power and USB of a node) or in files. `BmcApplication`
reads and writes the persistency store, which a task of its own writes to the
filesystem. Every request that is not from loopback or from a verified proxy
takes the authentication context's lock, and a session's request keeps it until
its handler returns; the watcher of `/etc/shadow` takes the same lock to reload.
Parking an image invalidates the catalogue; the catalogue's fan-out runs every
source on a blocking thread of its own. Settings, certificates and access are
plain files that handlers write without a common lock.

What is hard here: state machines whose second half arrives on another
connection, or never; deadlines on a wall clock that steps; commands that fail
half-way; a daemon that restarts on a board that does not; people editing the
same files; a cancellation that races the end of a stream; workers and blocking
threads that outlive whoever asked for them; a cached answer whose reason has
changed; locks held across a request body. `PROJECT.json` lists each of these as
a hazard at its line, with the properties that would catch it.

## 2. Plan

Done, in the order it was written:

1. `SwitchDocument`, `SwitchTable`, `SwitchPlan` - documents, rules, presets and
   the commands between two of them; `BoardProofs`;
2. `ConfirmOrRevert` - the abstract promise both confirm windows make; `BoardProofs`;
3. `SwitchHardware`, `SwitchService` - the switch's window, with everything
   around it failing, shown to implement the promise; `SwitchServiceProofs`;
4. `AddressService`, `HandWrittenCopies` - the address's window and its file, shown
   to implement the same promise; `AddressServiceProofs`;
5. `StreamingTransfer` - transfers, workers, cancellation; `TaskProofs`;
6. `DurableStore` - what a restart may lose of the key/value store; `Persistency` -
   the store and the task that writes it, shown to implement it (`TaskProofs`);
7. `BmcApplication` - the power of the nodes, their times, the USB switch, the
   way of a node into flash mode and out of it, the start on a running board;
   `NodeProofs`;
8. `FirmwareImages` - parking, staging, arming and the two volumes;
   `FirmwareCatalog` and `ReleaseTags` - what is listed of them, and in which order;
   `UpdateCheck`; `FirmwareProofs`;
9. `Sessions`, `ShadowWatcher`, `FactoryPassword`, `TlsAndTrust` - who may ask;
   `AccessProofs`;
10. `AddressDocument` - the subnet arithmetic, and the way of a document through
    its file and a boot;
11. `SerialConsole`, `UsbBoot`, `Cooling` - the hardware beside the nodes;
    `BoardProofs`;
12. `BoardSettings`, `SdCardFiles`, `StorageRepair` - what people set and store
    (their proofs are in `AccessProofs` and `TaskProofs`);
13. `MCBoard`, `MCKeeping`, `MCTasks` - the runs that go through them (section 4);
14. `Recursion` - induction over the natural numbers and functions defined along
    them, which the proofs about plans, bans and copies rest on (section 5).

Next, in order of importance:

15. that the notes and volumes of `FirmwareImages` implement an abstract pair of
    slots, as the two windows implement `ConfirmOrRevert`;
16. a DHCP client that outlives `stop_udhcpc` and answers late, in `AddressService`;
17. the switch's and the address's windows together: a confirmation of one that
    arrives over the other's trial. The code promises nothing about it, so there is
    a hazard and no property.

## 3. The modules and the code

### Configuration with a confirm window

**`SwitchDocument`, `SwitchTable`, `SwitchPlan`.** A document is a record with the
two bridge options and a `PortConfig` per port; `refusal` has one operator per
group of rules. `TableOf` is what the kernel's bridge holds when a document is
on it; the BMC's own port has no interface and so no entry. `WayIn` is what such a
table has to keep: an uplink in the BMC's untagged VLAN, and no loop. `plan` is the
commands of the two loops, as sets that `InOrder` puts in the order the code makes
them in (ports in `PortOrder`, then the tagged VLANs before the untagged one, then by
number), between the two switches of filtering; and `RunNext` runs one command a step on a model
of the kernel: `bridge vlan add` with `pvid` moves the port's one PVID. Every run
starts from a pair of accepted documents, presets and hand-made ones.

**`ConfirmOrRevert`.** Four variables: what is live, what is kept, the trial that
is open, and what was proved. `Try`, `Keep`, `PutBack`, `PowerCycle`, `Resume`. The
two services refine it: `live` is the document on the switch or on br0, `kept` the
document in the file, `trial` the pending change.

**`SwitchService`.** One action per operation: `load` and `boot_apply` (safe mode
included), `Apply`, `Confirm`, `Revert`, `Tick`. An operation is one step because
it holds the mutex throughout and its commands run without yielding. The switch
is a table of settings (`SwitchHardware`): a plan writes the settings where
`running` and the new document differ, and one that fails writes some of them.
`SwitchPlan` checks, command by command, that this is what the commands do. A
window's time is its age, the only thing the code compares; the world can advance
it (`Second`), step it (`ClockStep`), change the uplinks, end the daemon (`Exit`,
possibly between two commands) or cut the power. `Fault` says which of these a
run allows.

**`AddressService`.** The same shape. The file is who wrote it - the image, this
daemon (the marker), a person - and the document `parse` reads in it. `seen` and
`changed` are what the daemon last read and whether the stamp has moved. `Confirm`
has the three outcomes of the code: written and committed; copy or write
failed, still pending; written, and then refused because the window passed
between the two readings of the clock. `Edit` is a person with an editor.
`Start` is the boot path, `load_with` and `repair`.

**`AddressDocument`.** An address is a number of `BITS` bits and the masks are the
code's arithmetic on it. A file is a sequence of lines, a line a sequence of
words: `render_interfaces` writes the marker, the stanza and the hook, in which a
newline and a `#` are encoded for `printf` to decode,
`parse_interfaces` reads a file line by line, `BootFromFile` is what `ifup` and the
hook make of it.

**`HandWrittenCopies`.** The names of the copies (seconds and a suffix),
`free_suffix`, the order by which they are pruned, and a confirm that may fail
after it has pruned. The clock may say anything; `steady` observes whether each
change came in a later second than the one before, `failed` whether the last one
could not be written.

### Transfers, images, catalogue

**`StreamingTransfer`.** The status, and per transfer the worker, its token, its
channel, its handler and its timer. `Replace` is an assignment to the status: it
drops the `TransferContext` that was there, which cancels its token and drops its
sender. `request_transfer` is one step, although it spawns the worker before it
waits for the status: each HTTP worker thread has a single-threaded executor, so
the worker is not polled before the request waits; the mutex is fair, so whatever
the worker then reports comes after the request; and nobody else has the context
until it is in the status. `ReadsToEnd` and `Interrupted` are the two
branches of the unbiased `select!`. `gate` is the authentication lock: a session's
upload holds it, a request from loopback or from a verified proxy does not ask
for it. What a worker does after its copy is `finishing`: it succeeds or fails.

**`FirmwareImages`.** What that worker does to files. A file's content is who
wrote it since it was last emptied and whether the last of them got to the end,
so two writers of one `.partial` are visible. `work` is how far each worker is
in `os_park` (open, copy and check the sum, rename) or `os_update` (choose a
staging directory and empty it, copy and check, `osupdate`, note); `volumes`, `attached` and
`nextboot` are the two firmware volumes and U-Boot's variable, `proven` the
images a boot was promoted with. A reboot may happen between any two steps.
`osupdate`, `tpi-selfupdate`, U-Boot and the promoting gate are external.

**`FirmwareCatalog`.** The cached listing, the claim on a refresh and its age, the
count of invalidations, the fan-outs and the blocking calls that have not
returned. A call that is past its deadline runs on and keeps its source busy.
A listing is how many images it saw of the card, and -1 where a source failed;
that is what tells a stale listing from a fresh one. Time is counted as ages, so
the behaviours have no end and liveness can be asked.

**`ReleaseTags`.** A tag is its parts and identifiers as the parser sees them (`Tag`).
`compare` of `app/version.rs` is the first difference of two of them, and the local
listing is an insertion sort with the comparator it is given, one element after the
other. `Key` is the order it is compared with.

**`UpdateCheck`.** The cached answer with its two lifetimes; `viewing` is where each
request is; a client that goes away turns its updater run into a stray.

### The nodes and the hardware beside them

**`BmcApplication`.** No lock is held across a request here, so a request is the
sequence of its steps - `activate_slot`, `configure_usb`, `reboot_into_usb`, `restore`,
`flash_node` are such sequences, and `set_power_node` has two for each node of its
mask, in the order of the nodes (`bit_iterator`) - and `Step` takes the first one of
any task. A step is a read or a write of the store, or a write of one line (`PowerOf`
and `UsbOf` say what it does to the power and to the USB switch); between any two
another request runs. `task` also holds what a request has read: the bit-field
and the node infos are written back from there, stale or not. `Start` loads the
file and runs `initialize`; requests come after it. `Fails` gives up a request, or
turns a flash to its `restore`, or ends a starting daemon; a start that cannot read
the enable lines takes them for off, and `misread` observes the nodes which that
costs their power. Three more ghost variables
name every way in which the store and the hardware may part (`apart`, `torn`,
`usb_apart`); the properties say that there is no other. `disk` may become `store` at
any moment: that a restart finds some such moment whole is what
`DurableStore` promises and `Persistency` implements.

**`UsbBoot`.** `load` is a request that looks for its node's boot device, waits,
starts a driver, and looks for the storage that appears. On a hub every module is
on the bus, and told by its port if the device tree gives that of the node
(`described`: all, some or none of them); a node it does not give takes the first
match. On a multiplexer only the routed one is, and
another request may move it (`moved`). Rockchip and Raspberry Pi drivers differ in
whether they take a device by its place or by its kind.

**`SerialConsole`.** The worker with its ring buffer, the broadcast channel (a
reader that lags loses chunks, and is told so), the bounded queue to the UART, and
sessions: a loop that can be blocked in sending a frame or in queueing a line, and
then looks at neither its heartbeat nor the UART. A session in its loop has heard
from its client within `CLIENT_TIMEOUT` of its last heartbeat (`SilentIsClosed`).

**`Cooling`.** One fan and its zone. A hold is two writes - pause the governor,
write the step - and an undo when the second fails; a request, a hand-back and the
poll interleave between them. The governor's mode and the step are the
kernel's and outlive the daemon.

### The store

**`DurableStore`, `Persistency`.** The file holds every key, so a store is one
number: how many changes it has seen. `DurableStore` says that a restart brings
back every change up to some moment and none after it. `Persistency` has the
cache, the dirty flag, the watch channel, the writer task's place in its loop,
`bmcd.new` and `bmcd.bin`. The writer's steps end at its awaits: `open`, `write`
(under the cache's lock) and `rename`. `StoreChange` is the branch of the `select!`
that drops the write in progress; `late` is the filesystem operation that write
had already asked for, which happens all the same. `Stop` is the end of the
daemon, with `sync_all` run or not and a rename in progress done or not.

### Who may ask

**`Sessions`.** The context behind its one lock: `token_store` (a `TokenEntry` a token, or
none), `penalties`, the
cached hashes, and who holds the lock - a handler, or a login that is still
reading its body. A request's credentials are records, and `credential_line` takes
the header or the offered WebSocket protocol as the code does. `guesses` and
`accepted` are observations the properties need. Ticks are shorter
than a second, so that the rounding of `Retry-After` matters.

**`ShadowWatcher`.** `/etc/shadow` as an inode and a hash, the inotify watch with
the inode it sits on, the queue of events, the watcher task's place in its loop and
the cache. `missed` observes the changes for which inotify raises nothing the
task will see: those are excluded from the properties and named in section 6.

**`FactoryPassword`.** A request at the gate reads the file's stamp, then the
file, then stores the answer; the file changes in between. The answer is stored
with the stamp that was read before it. Both readings may fail: without a stamp
nothing is stored, and a file that cannot be read answers "not factory", which is
stored like any other answer. A change may leave the file with a stamp it has had.
`doubtful` observes the stamps for which either happened.

**`TlsAndTrust`.** The two files, the pair served, the client authority and the
header, and each request's place in its writes. An upload is a record of what
`validate` looks at. `torn` observes that two halves of a pair came from two
requests or that one half failed.

### What people set and store

**`BoardSettings`.** A file is absent, empty or holds a value, since
`tokio::fs::write` empties before it fills. Nothing is synced: `flash` holds, for
each file, what a power cut may find of it, which is any of its contents since the
start; `overlay` is the settings volume, "mounted", a "directory" in RAM (every
reboot finds the image's files) or "missing". A request is a list of steps in
`jobs`; an import is the steps of its fields, in the code's order. `reported`
holds what was reported applied and nobody has touched since, `sole` the settings
a request has had to itself from its first step. A record of a source keeps its
location and label apart (`SourceRecord`), so that a migration that loses a label is
seen.

**`SdCardFiles`.** A file system is a function from paths; `look_up` takes one name, `along`
the names of a path up to a link, `canonicalize` goes on at the link's target, as
the system does, for as many links as the system follows; and `resolve` compares its result with the
card's canonical root.

**`StorageRepair`.** The assessment from mounts (the last of several on one mount
point counts, `Last_of`), command line, reason file and volumes; `thread` is the
blocking call that removes the volume and `waiter` the request that waits for it
under a timeout and reboots. Each can outlive the other. `/sbin/preinit` is external: it recreates a missing volume.

## 4. Runs

**Sums.** Most components share no variable with each other, and a product of
their state spaces would only repeat each one's behaviours in every state of the
others. `MCBoard`, `MCKeeping` and `MCTasks` therefore join them as a sum: the
variable `part` says from the initial state on which component moves, `Rest` keeps
all the others at their first state, and every behaviour of every component is
explored once. A property of a component is checked over all the behaviours of
the sum: in the part it is about it is the component's own, elsewhere it is
about a component at rest. Where components do interact the interaction is inside
one module: the authentication lock in `StreamingTransfer` and `ShadowWatcher`, the park
and the listing in `FirmwareCatalog`, the store's file in `BmcApplication`, the requests
for one node in `BmcApplication`, and so on. `MCSwitchService` and `MCAddressService`
have runs of their own, since they need several.

Passing runs:

| Run | Properties | Shows |
|---|---|---|
| `switch_promise` | `BeliefIsTheSwitch`, `SwitchIsProved`, `KeepsThePromise`, `StartedWindowEnds` | with the power cut at any moment, over the real presets and their tables, the service implements the promise, its belief is the switch, the switch is on something proved; a window that has started ends, and flapping uplinks do not restart it |
| `switch_faults` | `OnlyProvedIsKept` | with everything failing, only a confirmed document is in the file or reported confirmed |
| `address_faults` | `ConfiguredIsTheFile`, `HandWorkIsCopied` | with failing commands and writes, restarts, power cuts, clock steps, confirmations overtaken by their deadline, and edits: the daemon knows what the file says, and no hand-written file goes without a copy |
| `address_promise` | `OnlyConfirmedIsWritten`, `StaticHasItsResolvers`, `KeepsThePromise`, `EveryChangeIsSettled` | with failed writes, failed boot hooks and power cuts the address service implements the promise, only what was confirmed is written, every change is settled, and a board on a static address it believes in has that address's resolvers |
| `board` | `PlanReachesTheDocument`, `AcceptedLeavesAWayIn` | for every pair of accepted documents the plan writes exactly the difference, no port is ever untagged in two VLANs, no VLAN is touched between switching filtering and the end of the VLAN work; every accepted document keeps a way in |
| | `NodesAreAsStored`, `PowerIsAsPromised` | two requests of any kind at once on two nodes, with lines that fail, restarts, power cuts: stored and actual power, power-on times and USB routing part only in the named ways; a start that can read the enable lines switches off no running node; a flash leaves its node off and USB as stored |
| | `BootsTheModuleAskedFor` | two requests look at once: the storage that is opened for flashing is the asked node's whatever modules come and go, if the device tree gives that node a port on the hub, or if nobody moved the multiplexer; a search goes on for as long as it says |
| | `ConsoleIsFaithful` | a console shows what the node printed in order and with nothing left out: one that cannot keep up is closed; what is typed reaches the node once and in order; a silent client is closed within the timeout and one interval |
| `keeping` | `SessionsAreKept`, `GateHolds` | a peer that goes on guessing waits exponentially longer, and no longer than `Retry-After` tells it; an expired token stays expired, a session in use is not ended by another login; the factory gate holds through any interleaving of its readings with changes of the file, for a request that could read the file and met no stamp the file had twice or could not be read at |
| | `ServesWhatItKeeps` | what is served is one pair and the pair on disk, through failed writes, restarts and other requests, unless two requests or a failure wrote halves |
| | `AppliedIsInEffect`, `SourcesAreUsable` | a setting reported applied is in effect, live and in the file, until another request writes it or a power cut finds something else stored, and then what it finds is in effect; every source list given out is valid, migrated and somebody's |
| | `CopiesAreKept`, `DocumentSurvivesTheFile` | the file just replaced has its copy, no copy is overwritten, and one goes only to make room; the last `KEEP_COPIES` have theirs as long as each change comes in a later second than the one before; a confirmed address comes back from its file and from the next boot, resolvers included |
| | `ListedIsWhole`, `InstallKeepsAWayBack` | an image sent with its sum is listed whole or not at all; an armed image is not installed over, the note names the image that was staged, and the rollback the board names was promoted - as long as no second install was admitted during the first |
| | `CatalogIsHonest`, `AnswersAreKept` | a listing that misses a parked image is marked stale, and a source has one call out; a fan-out is given up while it still asks only if it began so late in its claim that a source's deadline did not fit any more |
| | `TagsAreOrdered`, `UpdaterIsSpared` | the comparison of tags is an order and a listing of version-shaped tags follows it; the updater runs once for those who stay |
| | `CardImagesAreOnTheCard`, `RepairIsSafe` | whatever links and `..` a path has, what is chosen from the card is on it and not in the staging directory; the settings volume is only removed in a boot that could not mount it, by one repair at a time, and the reboot follows - unless the removal outlived its timeout |
| `tasks` | `CleanIsInTheFile`, `KeepsAPrefix`, `ChangesReachTheFile` | with changes that drop a write half-way, a filesystem that refuses, a read-only file and an end at any moment: a restart loses at most the last changes, a store that calls itself clean is in the file, and a change reaches the file |
| | `NobodyRunsUnseen`, `TransfersEnd` | an uncancelled worker is always the one the status speaks of; an upload nobody starts is given up; cancelled and local workers end; a waiting cancel is served unless an upload holds the authentication lock for ever |
| | `CatalogComesBack` | whatever source hangs and whatever refresh is lost, the claim can be taken again and a source is asked again |
| | `ChangesAreRead` | a cache that differs from `/etc/shadow` has a reading on its way, and catches up, unless the kernel raised nothing or a handler keeps the lock |
| | `HoldsAreHonoured` | a paused governor leaves the fan on a step somebody asked for, through crossing requests, failed writes and a crash; a board above its hottest active trip gets its governor back |

Runs that are expected to find a violation, each a disagreement between the code
and a sentence of the repository that the finding in `PROJECT.json` quotes:

| Run | What TLC shows |
|---|---|
| `address_late` | a refused confirmation has written the file |
| `address_repair` | a start of the daemon writes the resolvers of a static address that a person wrote by hand |
| `transfer_stale` | a replaced worker's success ends and cancels the transfer that replaced it |
| `parked_cut` | two parks of one name at once: an image that is not whole is listed. `keeping` gives each park a name of its own, and there the property holds |
| `catalogue_order` | a name that is not version-shaped between two releases: the older is listed above the newer. `keeping` has directories of releases and candidates, where the listing is in order, and pairs of names of any kind |

**Bounds.** Two tokens: a change, its end, and one more change on what it left;
no property relates three changes. Windows of two or three seconds against a
request range that also asks for one too few and one too many. Three or four
documents: the one on the board, the one in a window, one to go wrong. For the
plan, one module port (module ports are treated alike) and two VLANs (a move
needs two). Two copies kept, four readings of the clock and five files: the
pruning happens several times, with equal and with decreasing times. Two
transfers: one is replaced while its worker, timer, upload and cancel are under
way; `OneWriterAtATime` is proved for any number. Three changes of the store: one
being written, one that drops that write, one that comes while the dropped rename
is still to happen; the theorems of `TaskProofs` hold for any number. Two
nodes, two requests and two starts: a lost update needs two writers, a wrong bit
two nodes, and a restart a second start. Two requests look for a module at once, for one
interval of the wait, on a multiplexer and on hubs that give the port of each
subset of the nodes; otherwise the board is the one with a hub, whose
refusal of a host mode comes half-way.

For the rest: two requests (editors, callers, persons, repairers, viewers,
upgrades, requesters) at a time, since every race named in a hazard is between two;
starts, boots and reboots enough for one before, one during and one after a
request. A peer with two attempts and one doubling of a ban, a clock of seven
half-seconds: the ban comes, doubles, ends inside a second and is over. Three
changes of `/etc/shadow`: one being read, one while the watch is on the old inode,
one after it is bound again. Two stamps of it, so that
one can come back. In `keeping` the persons who set
something, the callers at the gate and the fan-outs are named by the same two values,
which are taken for alike (symmetry; no part has more than one of these sets, and that
run has no liveness). A ring buffer and channels of one or two slots
against three chunks, so that every one of them overflows; a heartbeat's clock of
five intervals against a timeout of two. Two fan-outs, the second of which a lost
claim lets in; a deadline shorter than the claim, as in the code (`CatalogAssumption`).
In `tasks` one fan-out at a time is enough: there the question is whether it ends.
Addresses of four bits with every prefix: networks, hosts, broadcast addresses and
gateways of all kinds. Four cards: none, plain, with links (to a directory outside,
into the staging directory, to itself), reached through a link; every path of up
to two names and some longer ones with `..`. Two steps of one fan, two temperatures.

`switch_faults` uses a coarse table of two settings, since a plan that fails
half-way has as many outcomes as the difference has subsets. `switch_promise` has no
steps of the clock: one that sets the clock back to the moment the window started
looks the same as a window started again, which is what `StartedWindowEnds`
excludes; the theorem `ImplementsPromise` covers them. The sums, `parked_cut`,
`catalogue_order` and `transfer_stale` may stop: when every transfer is
over, when every command has run, when the starts are used up. Everywhere else a
deadlock would be an error.

**Fairness.** `SwitchService` and `AddressService`: weak fairness of `Tick`, a
one-second `tokio::time::interval` in a loop that never ends, and of `Second`,
the clock. Nothing is assumed of people, uplinks, power or commands.
`StreamingTransfer`: weak fairness of the ten-second timer, of the worker's own
steps (its copy sees an end of stream or a cancelled token; its reports take
the lock), of a handler whose receiver is gone, and of a waiting cancel. Clients
are not fair: an upload may stall for ever, which is why `TransfersEnd` speaks of
cancelled and of local transfers. `Persistency`: weak fairness of the writer task's
steps, of the timer and of the filesystem's operations; nobody has to change the
store, and the daemon may end or its writer fail at any moment, which
`ChangesReachTheFile` allows for. `ShadowWatcher`: weak fairness of the task's steps, of
the kernel's eviction of an inode without a name and of a writer's close; strong
fairness of `OpenFile`, which needs the authentication lock, a fair queue: a
handler may keep it for ever, and `ChangesAreRead` allows for that. `FirmwareCatalog`:
the clock advances, a call whose process was killed at its deadline returns, and a
fan-out's own timeouts and its store are taken; no source is assumed to answer,
no task that was spawned to run, no reader to come. `Cooling`: strong fairness of the poll, an
interval of the runtime, and of its write to sysfs, which is tried again at every
poll and is assumed not to be refused for ever. In `MCTasks` each of these is asked
of a component only in the part where it moves.

## 5. Proofs

Forty-one results, listed in `PROJECT.json` (`theorems`), are proved for every value of
the constants - every number of nodes, requests, transfers, peers, copies, sources,
ports - from the named assumptions in the modules. For a property that some run
checks, the run shows it on a small instance, temporal parts included:

- `Recursion` is what the others build on where data is counted: a set of numbers that
  is not empty has a least one (from the library's facts on well-founded relations),
  hence induction over the numbers, stated for a set and so without an operator as a
  parameter, and hence the existence of a function given by a first value and a step.
- `BoardProofs`, the promise: `LiveAlwaysProved`, `KeptAlwaysLive`, from `SoundConfig` (the
  boot configuration is a configuration, `None` is not). The invariant adds that
  what is kept and what a trial goes back to were proved, without which `PutBack`
  and `Resume` could bring something else to life. Both services implement this
  specification, so both inherit these two.
- `SwitchServiceProofs`: `KeepsTypes` and `KeepsOnlyProved` hold under every fault. The
  invariant `KeptInv` adds that the pending change is the document its token was
  issued for, which is what makes a confirmation speak of that document.
  `BeliefStaysTrue` and `SwitchStaysProved` assume that commands do not fail and that
  the daemon does not restart on a running board; `ImplementsPromise`, that writes
  do not fail either: a confirm whose write fails has already replaced
  `confirmed` (section 6). Their invariant
  `SwitchInv` adds that the switch is on `running`'s table and that the snapshot is
  proved; the lemma `PutFromTheTruth` (a plan from the right document ends on the
  wanted table) carries it through an apply.
- `AddressServiceProofs`: `KeepsTypes` under every fault. `WritesOnlyConfirmed` assumes
  that no deadline passes in the middle of a confirmation (`address_late` shows it is
  needed) and that nobody leaves the marker on an unreadable file; its invariant
  adds that the token names the change. `HandWorkStaysCopied` assumes that an edit
  moves the file's stamp; its invariant is that the daemon knows who wrote the
  file unless it knows the file has changed. `ReportsTheFile` (nothing is called configured
  that a reboot would not come back to) assumes the same and that nobody leaves the
  marker on an unreadable file; its invariant `SeenInv` is that what the daemon last
  read is the file, unless the stamp has moved. `StaticKeepsItsResolvers` assumes that
  commands and the write of `resolv.conf` at the start succeed; the property is itself
  inductive. `LiveStaysProved` and `ImplementsPromise`
  assume `Sound`: no failing commands, no edits, no bare restart, no deadline passing
  in a confirmation - but writes, hooks and the clock may fail, since this
  service commits only what it has written. Their invariant `LiveInv` adds that br0
  is on `running`, that the pending change is what runs, and that its snapshot is
  proved.
- `TaskProofs`, the store: `CleanIsWritten` and `LosesOnlyTheLast` (the refinement of
  `DurableStore`), under every fault. The invariant `StoreInv` adds that what is
  about to be renamed lies between the file and the cache and is the cache if
  nothing changed since, and that the task waits while a dropped write's operation
  is still under way - without which an old rename could pass a newer one.
  `NothingIsForgotten` (a dirty store has a write on its way) assumes that nothing
  changes the store before the writer's first step (`Early`, section 6).
- `TaskProofs`, the transfers: `OneWriterAtATime`, a worker that is neither cancelled
  nor over is the one the status speaks of. The invariant adds that a transfer that
  was not requested has no worker, and that the status names a requested one.
- `TaskProofs`, the repair: `RepairStaysSafe`. The lemma `OffersWhatCannotBeUsed` is the
  argument about `assess`: on a board where it offers the repair the overlay could not be
  mounted and the root is a UBI block device - every way in which the code reads
  mounts, command line and device numbers is followed. `RepairInv` adds that whoever
  passed the assessment is on such a board, that a running removal has a waiter or
  one that timed out, and that, as long as none timed out, one repair holds the guard.
- `TaskProofs`, the copies: `HandWorkIsKept`. For what one confirm does the invariant is
  only that the copies are finitely many: of more suffixes than copies one is
  free and `free_suffix` takes the least (a pigeonhole), so nothing is overwritten;
  and pruning removes only what exceeds `KEEP_COPIES`. That the last ones are kept
  needs `SteadyInv`: as long as each change came in a later second than the one before,
  the order of the names is the order of the files they are copies of.
- `NodeProofs`: `NodesStayAsStored` and `PowerStaysAsPromised`, from `BoardAssumption` and
  `RequestsAssumption`. A request is what is left of its steps, so the invariant
  `NodeInv` is about what those steps will do. `Settles`: what is left of a request
  brings the stored bit, the mode and the enable line of each node it works on to
  one value, whatever they are now, and to "off" if it flashes that node. A node
  nobody works on then has all three alike (`PowerInv`). The other parts are what
  makes this inductive: two requests on one node are noted in `apart` (`CrossInv`); the
  steps of a request stand in an order, reads before times before bits, and a
  step that makes others is the last (`OrderInv`); a flash that can fail has its
  restore left (`UndoInv`); nothing is under way in a daemon that is down, and
  nothing else in one that starts (`RestInv`). `TimesInv` and `UsbInv` are the same for
  the power-on times and the USB switch; `StartInv` says that the lines a start has
  still to set include all that are on, but for those in `misread`.
- `FirmwareProofs`: `UpdaterRunsOnce` needs `OneResolves`: whoever runs the
  updater holds the lock. `ListedImagesAreWhole`, under `ParksOfOwnNames` (`parked_cut` shows it is
  needed), needs `ParkInv`: a file of a name has one writer, and one that is about to
  be renamed has passed its sum. `InstallsLeaveAWayBack` needs `SlotsInv` (one volume at
  most is on trial, `nextboot` points to it, and every other holds a promoted image),
  `InstallInv` (two installs at once are noted in `overlapped`, and one that is not
  excused found nothing armed) and `NoteInv` (who stages wrote what is staged).
  `CatalogStaysHonest` needs `CatalogInv`: no more parks are told of than images are in
  place, what a fan-out has listed of the card is no less than the invalidations it
  counted at its start, a source is in flight just when it has a call out, and a call
  is either given up or waited for by the fan-out that made it. `AnswersStayKept` needs
  that timers are punctual: no call that is waited for is older than its deadline, and
  a fan-out that still asks has such a call.
  `ChosenImagesAreOnTheCard`, from `TreeAssumption`, `SdCardAssumption` and
  `RootIsADirectory`, which say what a file system and a mount point are: `CanonicalWalks`
  follows the names of a path and its links by induction, so that a path that is
  resolved is one of something that is no link; `TheWayDown` walks from the card's root
  to a listed file by its own names, which is why a path from the listing, sent
  back, is taken.
  `ListingsAreOrdered` needs no invariant but that what is listed is listed in order. The
  argument is the lemma `OrderTells`: the first difference two tags are told by is the
  first difference of their keys, whatever their lengths; `KeysAreRanked` then makes the
  comparison a ranking, and `InsertedInPlace` keeps the listing in order through every
  insertion. Its hypothesis, that the tags of a directory are all versions or two at most,
  is needed: `catalogue_order` is the counterexample without it.
- `AccessProofs`: `SessionsStayKept` is the whole of `SessionsAreKept`. `SessionInv`: a
  token's entry holds the moment it was last accepted, however logins prune the store.
  `PeerInv`: the penalties count the guesses, and the guesses beyond the first level have
  taken the time of the bans before them, each the double of the last up to the highest;
  that this doubling is a function of the numbers comes from `Recursion`. `StaleIsReloaded`
  is the safety half of `ChangesAreRead`: its invariant `WatcherInv` says which of an event
  in the queue, a reading under way and a watch about to be bound again will bring
  a change to the cache, in each place of the task's loop. `GateStaysShut`: the cached answer is the right one for the
  stamp it carries, if that stamp is still the file's and nobody has doubts about it
  (`doubtful`), and each request under way is honest about what it has read. `ServesOnePair`: unless `torn`, at most one request
  is midway and what it has written and left is known. `ReportsAreTrue` and
  `ListsAreUsable` share `settings_Inv`: the steps of a request stand in order, a setting
  that somebody is about to touch is not reported, two that touch one setting do
  not have it to themselves, and a request that has is prepared for its next step;
  `FlashInv` adds that what a power cut may find of the sources is a list that was accepted.
  `GivenAssumption` says that the lists people send are what a page can send.
- `BoardProofs`: `OpensTheModule` (`usb_Inv`: a request whose node can be told apart, by its
  port or by the multiplexer, has found what belongs to that node, and none has looked
  longer than it says); `HoldsAreAskedFor`, the safety half of
  `HoldsAreHonoured` (`cool_Inv`: while a governor is paused and the step is nobody's, a
  request is there that will write or undo it); `WatchersMissNothing` (`serial_Inv`:
  what waits in a session's frames, in the broadcast channel and in the ring is all
  the client has not seen, without a gap); `AcceptedTablesLeaveAWayIn`, over every
  document that filters and is not refused, with nothing but `VidAssumption`.
- `BoardProofs`, the plan: `PlansReachTheDocument` and `PlansLeaveAWayIn`, for every finite
  set of VLANs, every port and every pair of documents that are not refused. The
  invariant `PlanInv`: what is left to run lists its commands in the plan's order,
  whatever must come after one of them is left too, and the bridge is the old one with
  the settings written that nothing left writes. That no port strips the tags
  of two VLANs in between, and that no VLAN is touched while a filtering bridge is being
  switched, then follow from which command precedes which; a bridge whose plan has ended
  holds the document's table, of which `AcceptedTablesLeaveAWayIn` speaks.

Only model-checked:

- the liveness properties `StartedWindowEnds`, `EveryChangeIsSettled`, `ChangesReachTheFile`,
  `TransfersEnd` and `CatalogComesBack`, and the liveness halves of `ChangesAreRead` and
  `HoldsAreHonoured`: `ENABLED` and fairness are out of the proof system's reach here;
- `DocumentSurvivesTheFile`: arithmetic on the bits of an address, and a reader that
  goes through the words of lines;
- that `NewestFirst` fails for a directory of mixed names, and the other four violations.

## 6. Not modelled

`PROJECT.json` lists every component with its status. Left out: formatting and
reading of system state (metrics, health, thermal, interfaces, board information,
export's own fields, OpenAPI and the tables behind it), which two operations cannot
disturb; the vendors' USB boot protocols, which succeed or fail; the USB gadget, a
sequence of writes whose failure is logged; stub hardware, option parsing and
static files. Within the modelled parts: VLAN names, audit lines and GET handlers
that change nothing; what a filesystem keeps of an unsynced rename; a DHCP client
that survives `stop_udhcpc` and answers late; byte counts of an upload; the refusal
of an address change on a board without br0; whether a catalogue's listing is
written to disk or found the same; when a cached listing comes due by itself, since a
reader may force a refresh at any time; the history in the promotion log; the power LED
and node 1's USB route on a hub; the time a front-panel key is held.

Seen while modelling, and stated by no run: places where the code and one of its
comments part, or where a property needs a condition, with the assumption of a
theorem or the ghost variable of a module that keeps them apart from the rest.

Confirm windows and address:

- `app/switch_applier.rs:32` says filtering goes on before the VLANs are written;
  `plan` (and its test) switches it on last and off first.
- A confirm of the switch is committed in memory before `switch.json` is written
  (`app/switch_service.rs:302`); when the write fails `confirmed` is not "what is
  persisted and what a reboot comes back to" (`app/switch_change.rs:126`). Hence
  "write" in the assumption of the switch's `ImplementsPromise`.
- A way back whose commands fail is not tried again, `running` stays on the
  unconfirmed document, and the next change takes it as its snapshot
  (`app/switch_service.rs:338`); hence "command" in `Sound`.
- A daemon restarted without a reboot takes the switch to be on Flat
  (`app/switch_service.rs:149`); hence "exit" in `Sound`.
- The window waits for a forwarding uplink with or without spanning tree, while
  `app/switch_change.rs:40` says that without it the window starts at once; with an
  uplink that never forwards it never starts (`app/switch_change.rs:118`). Hence
  `StartedWindowEnds`, which speaks of a window that has started.
- A hand-written file that cannot be read makes DHCP the way back of a change
  (`app/address_service.rs:234`), and one that still carries the marker is rewritten
  as DHCP at the next start (`app/address_service.rs:292`); hence `NoBrokenMarker`.
- An edit that changes neither the file's time nor its length, or that lands
  between `refresh` and the write of the same confirmation, is overwritten
  without a copy (`app/address_service.rs:251`); hence the fault "stamp".
- A confirmation that fails to write has already pruned the older copies, and
  `file_backup` may name one of them (`app/address_service.rs:439`).
- A start writes the resolvers of a static address into `/etc/resolv.conf` whoever wrote
  the file that address is in (`app/address_service.rs:311`); `address_repair` shows it
  against the comment at line 268, and `StaticHasItsResolvers` speaks of every such board.
- Copies are pruned by the second in their name. On a clock that went back the copy made
  last is the oldest by name: it is kept while it is made and is the next one's to prune,
  while older files stay (`app/address_service.rs:565`). Hence `steady`, without which
  only the file just replaced is sure of its copy.
- A change whose command fails tries once to go back; when that fails too the bridge is
  left half set and the error is logged (`app/address_service.rs`, `apply` and `tick`).
  `ConfiguredIsTheFile` holds through it, but no property says what address such a board
  has.
- A stanza `iface br0 inet6 dhcp` that follows a static one makes the reader take
  the file for DHCP: only the words `br0` and the method are looked at
  (`app/address_document.rs`, `parse_interfaces`).

Transfers, images and the catalogue:

- A session's request holds the authentication context's lock until its handler
  returns (`authentication/authentication_service.rs:203`), so a session's cancel
  waits for the upload it wants to abort, while the repository's README.md:95 says
  that the cancel "aborts it". Hence the condition in `TransfersEnd`.
- A cancelled copy whose stream has also ended may return Ok
  (`app/upgrade_worker.rs:513`): the `select!` is not biased. Both branches are in the
  model.
- An upload whose form is invalid drops its sender and tells the service nothing
  (`api/legacy.rs:1369`): the worker sees the end of its image and, when the request named
  no checksum, ends in Done. The case is in the model (`BadForm`); the code states no
  rule that it breaks.
- A second install is admitted while the first one's `osupdate` is still running, and
  overwrites the image the first has armed; an install from a source runs beside an
  upload, and neither cancels the other (`api/legacy.rs`). Hence `overlapped`. Such
  installs also share the staging directory, which each empties before it writes.
- A boot environment that cannot be read counts as "nothing staged"; a cancelled
  `os_update` leaves its staged file until the next one; an image whose local path is in
  the staging directory is emptied before it is read; a crash between arming and the
  note leaves the note of an earlier image. During a tentative boot the rollback
  version shown is the previous promotion's, hence `~Tentative`
  (`app/upgrade_worker.rs`, `app/firmware_info.rs`).
- A listing restored from disk is stored as not stale even when an invalidation came
  before it (`restored` in `ParkedIsListedOrStale`), and a fan-out that ends releases
  the claim whoever holds it by then (`app/firmware_catalog.rs`).
- The comparator of the local listing is not transitive; Rust's `sort_by` is allowed
  to panic on such a one (`app/firmware_catalog.rs:497`). `catalogue_order` shows the
  wrong order that an insertion sort makes of it.
- A client that leaves drops the update check's lock while its updater runs on
  (`app/update_check.rs`): the next one starts another. Hence the condition of
  `UpdaterIsSpared`, which counts the runs of those who stayed.

The store:

- `BmcApplication::initialize` may change the store before the writer task has
  asked for its channel: on the one thread there is at that time, the task runs
  at the first await that waits. Such a change is dirty and has no write on its
  way until the next change or the end of the daemon
  (`persistency/app_persistency.rs:200`); hence `Early`, which `NothingIsForgotten`
  and the run `tasks` assume away.
- A write that fails ends the writer for good (`persistency/app_persistency.rs:211`);
  hence `writer # "ended"` in the store's properties.
- `write_timeout(None)` is said to disable the write on timeout
  (`persistency/app_persistency.rs:61`); the code writes after 100 ms (`:181`).
- A change that comes within the write timeout of the last one, for ever, keeps
  the writer from ever writing (`persistency/app_persistency.rs:218`). The bound on
  changes rules this out in the run.
- A filesystem operation that outlives the write timeout, and a `sync_all` at the
  end of the daemon that overlaps the writer's own rename, would share `bmcd.new`;
  both are assumed not to happen.

Nodes and hardware:

- `activate_slot` reads the bit-field and writes it back with other requests in
  between (`app/bmc_application.rs:340`): of two requests for two nodes the store may
  keep one, while both nodes are switched. `update_power_on_times` and
  `set_node_info` do the same with the node infos. Hence `apart` and `torn`.
- A start that cannot read the enable lines takes them for off ("assuming cold boot",
  `app/bmc_application.rs:238`) and restores what is stored, which switches off a node that
  runs and is stored as off, although `initialize_power` is there to avoid that (line
  226). Hence `misread`.
- A reset powers a node on that is stored as off, and leaves it stored as off
  (`hal/power_controller.rs:127`).
- On a hub a request for host mode is refused after the route has been changed
  (`app/bmc_application.rs:413`); a `restore` whose power line fails does not put USB
  back, although `flash_node` says it always does. Hence `usb_apart`.
- The metric `bmcd_node_usb_boot_armed` says "1 when a module's USB-boot pin is
  asserted" (`api/metrics.rs:682`) and is computed from `USB_CONFIG`, which neither
  `usb_boot`, `clear_usb_boot` nor a flash changes.
- The prose above the table of `toggle_power_states` says that a long press with
  some nodes on turns them off (`app/bmc_application.rs:193`); the table, and the
  code, turn all on.
- The Raspberry Pi driver boots whichever such module is waiting. On a hub whose device
  tree does not give a node's port, that node takes the first match
  (`usb_boot.rs:154`), which may be another node's module, the case line 96 warns of; hence
  `ToldApart`. On a multiplexer a request for another node moves the route during a wait; and the name
  of a block device is resolved first and opened later (`usb_boot.rs`, `usb_boot/*`).
  Hence `moved`.
- A second `run` of a serial handler drops the context of the worker that is running
  before it refuses (`serial_service/serial_handler.rs:159`). The daemon runs each once,
  and the model does.
- A WebSocket loop that is blocked in sending a frame, or in queueing a line, does
  not look at its heartbeat (`serial_service/serial_websocket.rs:30`); hence "in its
  loop" in `SilentIsClosed`. After the worker has stopped, sessions stay open and
  silent, and `write` fails with a send error, never with the `Stopped` its
  documentation names.
- A stored step that cannot be replayed fails the whole start; an undo that fails
  is ignored (hence `stuck` in `HoldsAreHonoured`); the system fan is taken to be `cooling_device0`; a full map of
  stored steps refuses even a device that is in it (`app/cooling_device.rs`).

Who may ask:

- An empty credential among the offered WebSocket protocols hides a token that is
  offered after it, where `bearer_token`'s comment says that it "is treated as if it
  were not there" (`authentication/websocket_subprotocol.rs:98`).
- A login takes the authentication lock before it reads its body, so a client that
  sends none keeps everybody waiting; an expired token is refused without a penalty.
- The factory gate answers "not factory" for a shadow file it cannot read, as it says it
  must (`authentication/factory_password.rs:183`), and remembers that answer under a good
  stamp (line 175), so that it outlasts the failure. A second change that leaves the file
  its time is not seen either, though the test at line 255 counts on the time to move.
  Hence `doubtful`.
- The shadow file is read before the watch is added; a tool that keeps the old file
  under another name raises no event that re-binds the watch; a watch that cannot be
  added again ends the task with a panic (`authentication/linux_authenticator.rs`).
  Hence `missed`.
- A certificate installed with its chain is served without it after a restart; what
  the access page shows of the identity header is the file's, what is believed is what
  was read at the start; a failed write leaves the old certificate beside the new key,
  and a restart reads that; `put_client_ca` stores the authority before it refuses an
  empty header; two uploads at once can leave the halves of two pairs; a delete whose generator fails
  leaves no files (`api/tls.rs`, `api/access.rs`). Hence `torn`.

Settings and storage:

- Settings are written in place: a reader that comes in between, or a power cut, finds
  an empty file and takes the defaults. A GET of the sources may write them (a moved
  location), and so can overwrite a PUT, or turn an accepted list into the defaults
  when the power goes. Two renames of the board that cross can leave the live name
  of one and the file of the other (`app/hostname.rs`, `app/firmware_sources.rs`).
  Hence "until another request comes to write it" in `AppliedIsInEffect`.
- No setting is synced to the flash (`app/hostname.rs:95`, `app/ntp.rs:164`,
  `app/firmware_sources.rs:212`), so a power cut soon after a change that was reported
  applied may find the earlier one or an empty file, and on a board whose settings volume
  did not mount every reboot finds the image's: the overlay that a rename survives on
  (`app/hostname.rs:35`) is then a layer in RAM (`authentication/factory_password.rs:29`).
  `storage_available` is there to tell "whether the overlay is mounted"
  (`app/firmware_sources.rs:215`) and only looks for the directory, which `ntp::store` may make.
  Hence "or a power cut finds something else stored".
- A file on the card is checked by its path and opened later; a card that is changed in
  between is not in `SdCardFiles`, which speaks of what is chosen.
- A removal of the settings volume that outlives its timeout is followed by no reboot,
  and when it fails late it gives back the guard that a newer repair holds
  (`app/storage_status.rs`). Hence "timed_out" in `RepairIsSafe`.
