----------------------------- MODULE TemuPlugin -----------------------------
(***************************************************************************)
(* The analysis plugin: its loader (plugin.c, vl.c), the monitor commands  *)
(* that configure it (monitor.c), the hooks in the e1000 card and the DMA  *)
(* helpers that call it, and the plugin itself (plugins/main.c).  All of   *)
(* it runs under the big QEMU lock, one call after the other.  Text output *)
(* is left out; the capture file and the block I/O reports are kept.  Of   *)
(* the toggles, enable_traceblk and enable_print_blkio are left out: the   *)
(* code never reads them.                                                  *)
(***************************************************************************)
EXTENDS Integers, Sequences, FiniteSets, SequencesExt

CONSTANTS Fields,       \* what packets are filtered by: ports, addresses,
                        \* protocol
          Values, Unset,
          Sizes,        \* sizes of packets
          PduValues,    \* what PDU_bytes is set to, by atoi: any int
          Files,        \* names that fit into a node
          Answers,      \* numbers that the two lookup programs print
          NoOutput,     \* a lookup program prints nothing
          Leftovers,    \* ints that atoi finds in a buffer nobody has written
          IoSectors,    \* sectors of the guest's block I/O
          IntLimit,     \* 2^31: an int is below it
          U64Mod,       \* 2^64
          MaxRecords,   \* bound on the length of the capture file
          MaxFiles      \* bound on the length of the file list

ASSUME PluginAssumption ==
  /\ Unset \notin Values
  /\ Sizes \subseteq Nat /\ PduValues \subseteq Int
  /\ Answers \subseteq Int /\ NoOutput \notin Int
  /\ IntLimit \in Nat \ {0} /\ U64Mod \in Nat /\ 2 * IntLimit <= U64Mod
  /\ Leftovers \subseteq -IntLimit .. IntLimit - 1
  /\ IoSectors \subseteq 0 .. U64Mod - 1
  /\ MaxRecords \in Nat /\ MaxFiles \in Nat

Outputs == {"enable_print_packet", "enable_log", "enable_pcap_log"}

VARIABLES
  state,          \* "boot", "running", "crashed" after a NULL dereference,
                  \* "wild" after following an uninitialised pointer, "exited"
  loaded,         \* plugin # NULL
  target,         \* the filters
  PDU_bytes,
  enabled,        \* the toggles that are on
  first_file,
  list,           \* the nodes; none of them is initialised before first_file is
                  \* cleared, although the head is allocated
  pcap,           \* records of packet_log.pcap
  answered,       \* history: <<file, number that its lookup printed>>
  silent,         \* history: the files with a lookup that printed nothing
  last            \* the block I/O of this step and what was reported for it

cfgVars == <<target, PDU_bytes, enabled>>
fileVars == <<first_file, list, answered, silent>>
pluginVars == <<state, loaded, cfgVars, fileVars, pcap, last>>

CInt == -IntLimit .. IntLimit - 1

NoIo == [sector |-> 0, reported |-> {}]

PluginTypeOK ==
  /\ state \in {"boot", "running", "crashed", "wild", "exited"}
  /\ loaded \in BOOLEAN
  /\ target \in [Fields -> Values \cup {Unset}]
  /\ PDU_bytes \in PduValues \cup {128}
  /\ enabled \in SUBSET Outputs
  /\ first_file \in BOOLEAN
  /\ list \in Seq([fname : Files, data : CInt])
  /\ Len(pcap) <= MaxRecords

PluginInit ==
  /\ state = "boot" /\ loaded = FALSE
  /\ target = [f \in Fields |-> Unset] /\ PDU_bytes = 128
  /\ enabled = {}
  /\ first_file = TRUE /\ list = <<>>
  /\ pcap = <<>> /\ answered = {} /\ silent = {} /\ last = NoIo

\* vl.c: the plugin is loaded if the option is given and no snapshot is; dlopen,
\* dlsym and init_plugin may fail.  The machine starts in any case.
Start(load_plugin, loadvm, ok) ==
  /\ state = "boot"
  /\ state' = "running"
  /\ loaded' = (load_plugin /\ ~loadvm /\ ok)
  /\ last' = NoIo
  /\ UNCHANGED <<cfgVars, fileVars, pcap>>

\* Every monitor command and every hook goes through the pointer.
NullDereference ==
  /\ state = "running" /\ ~loaded
  /\ state' = "crashed"
  /\ last' = NoIo
  /\ UNCHANGED <<loaded, cfgVars, fileVars, pcap>>

Calls == state = "running" /\ loaded

-----------------------------------------------------------------------------
(* The monitor commands plugin_set, plugin_reset and plugin_toggle.        *)

set_target(f, v) ==
  /\ Calls
  /\ target' = [target EXCEPT ![f] = v]
  /\ last' = NoIo
  /\ UNCHANGED <<state, loaded, PDU_bytes, enabled, fileVars, pcap>>

set_PDU_bytes(v) ==
  /\ Calls
  /\ PDU_bytes' = v
  /\ last' = NoIo
  /\ UNCHANGED <<state, loaded, target, enabled, fileVars, pcap>>

reset_plugin_PDU_bytes ==
  /\ Calls
  /\ PDU_bytes' = 128
  /\ last' = NoIo
  /\ UNCHANGED <<state, loaded, target, enabled, fileVars, pcap>>

toggle_plugin(x) ==
  /\ Calls
  /\ enabled' = IF x \in enabled THEN enabled \ {x} ELSE enabled \cup {x}
  /\ last' = NoIo
  /\ UNCHANGED <<state, loaded, target, PDU_bytes, fileVars, pcap>>

\* The conversions to int, which keeps the low 32 bits, and to uint64_t.
ToInt(n) == ((n + IntLimit) % (2 * IntLimit)) - IntLimit
ToU64(n) == n % U64Mod

\* MUTANT: insertNode does not link the new node to the rest of the list.
SaveCutsList(fname, sector_number) ==
  LET node == [fname |-> fname, data |-> ToInt(sector_number)] IN
  \/ /\ first_file /\ node.data # 0
     /\ list' = <<node>> /\ first_file' = FALSE
  \/ first_file /\ node.data = 0 /\ UNCHANGED <<list, first_file>>
  \/ /\ ~first_file
     /\ list' = <<Head(list), node>> /\ UNCHANGED first_file

\* The first lookup that gives anything but 0 initialises the head of the list;
\* every later file is inserted behind the head, whatever its lookup gave.
saveFile(fname, sector_number) ==
  LET node == [fname |-> fname, data |-> ToInt(sector_number)] IN
  \/ /\ first_file /\ node.data # 0
     /\ list' = <<node>> /\ first_file' = FALSE
  \/ first_file /\ node.data = 0 /\ UNCHANGED <<list, first_file>>
  \/ /\ ~first_file
     /\ list' = InsertAt(list, 2, node) /\ UNCHANGED first_file

\* What atoi makes of the buffer after an fgets whose result nobody looks at.
Atoi(out) == IF out = NoOutput THEN Leftovers ELSE {ToInt(out)}

\* The program that was asked last has answered, and its answer is n.
Found(fname, out, n) ==
  /\ saveFile(fname, ToU64(n))
  /\ IF out = NoOutput
     THEN silent' = silent \cup {fname} /\ UNCHANGED answered
     ELSE answered' = answered \cup {<<fname, out>>} /\ UNCHANGED silent

\* set_plugin("target_file_name"): get_sectornum asks a script for the sector,
\* and, if the answer is -1000, a program that knows about resident files.
set_target_file_name(fname, script, resident) ==
  /\ Calls
  /\ Len(list) < MaxFiles
  /\ \E n \in Atoi(script) :
       \/ n # -1000 /\ Found(fname, script, n)
       \/ n = -1000 /\ \E m \in Atoi(resident) : Found(fname, resident, m)
  /\ last' = NoIo
  /\ UNCHANGED <<state, loaded, cfgVars, pcap>>

\* One of the two popen fails in get_sectornum, which ends the program.
LookupExits ==
  /\ Calls
  /\ state' = "exited"
  /\ last' = NoIo
  /\ UNCHANGED <<loaded, cfgVars, fileVars, pcap>>

-----------------------------------------------------------------------------
(* The hooks.                                                              *)

\* MUTANT: PDU_bytes is compared as a signed number.
CaplenSigned(size) == IF size <= PDU_bytes THEN size ELSE PDU_bytes

\* `size <= PDU_bytes' compares a size_t with an int: a negative PDU_bytes is
\* larger than every size.
Caplen(size) == IF PDU_bytes < 0 \/ size <= PDU_bytes THEN size ELSE PDU_bytes

\* The loop that writes the packet.
Written(caplen) == IF caplen > 0 THEN caplen ELSE 0

log_packet_pcap(size) ==
  pcap' = Append(pcap, [caplen |-> Caplen(size), len |-> size,
                        size |-> size, bytes |-> Written(Caplen(size))])

\* The condition for the early return of get_packet.
Filtered(pkt) == \E f \in Fields : target[f] # Unset /\ target[f] # pkt[f]

\* e1000_send_packet and e1000_receive call nic_send and nic_recv, and both
\* call get_packet.
get_packet(pkt, size) ==
  /\ Calls /\ Len(pcap) < MaxRecords
  /\ IF "enable_pcap_log" \in enabled /\ ~Filtered(pkt)
     THEN log_packet_pcap(size)
     ELSE UNCHANGED pcap
  /\ last' = NoIo
  /\ UNCHANGED <<state, loaded, cfgVars, fileVars>>

\* dma_blk_io calls blk_write or blk_read, and both call get_blockio; the int
\* of a node is converted for the comparison, a negative one to 2^64 and less.
get_blockio(sector_num) ==
  /\ Calls
  /\ last' = [sector |-> sector_num,
              reported |-> {n.fname : n \in {m \in ToSet(list) :
                                 sector_num # 0 /\ ToU64(m.data) = sector_num}}]
  /\ UNCHANGED <<state, loaded, cfgVars, fileVars, pcap>>

\* Before a file was saved get_blockio reads a node that nobody initialised: it
\* may find a match in it, and it follows its next pointer (so does print_lists,
\* which only prints).
WalkUninitialised(sector_num) ==
  /\ Calls /\ first_file /\ sector_num # 0
  /\ \/ state' = "wild" /\ last' = NoIo
     \/ UNCHANGED state /\ last' = [sector |-> sector_num, reported |-> {"garbage"}]
  /\ UNCHANGED <<loaded, cfgVars, fileVars, pcap>>

Terminated == state \in {"crashed", "wild", "exited"} /\ UNCHANGED pluginVars

PluginNext ==
  \/ \E load_plugin, loadvm, ok \in BOOLEAN : Start(load_plugin, loadvm, ok)
  \/ NullDereference
  \/ \E f \in Fields, v \in Values \cup {Unset} : set_target(f, v)
  \/ \E v \in PduValues : set_PDU_bytes(v)
  \/ reset_plugin_PDU_bytes
  \/ \E x \in Outputs : toggle_plugin(x)
  \/ \E fname \in Files, script, resident \in Answers \cup {NoOutput} :
       set_target_file_name(fname, script, resident)
  \/ LookupExits
  \/ \E pkt \in [Fields -> Values], size \in Sizes : get_packet(pkt, size)
  \/ \E sector \in IoSectors : get_blockio(sector) \/ WalkUninitialised(sector)
  \/ Terminated

PluginSpec == PluginInit /\ [][PluginNext]_pluginVars

-----------------------------------------------------------------------------
(* Properties.                                                             *)

\* Every record of the capture file can be read back (plugins/main.c:250-269):
\* its header says how many bytes follow, no more than the packet has,
\* whatever PDU_bytes was set to.
PcapWellFormed ==
  \A i \in DOMAIN pcap :
    /\ pcap[i].bytes = pcap[i].caplen
    /\ pcap[i].caplen <= pcap[i].len
    /\ pcap[i].len = pcap[i].size

\* A block I/O is reported for the files whose lookup printed its sector, if
\* that fits into the int of a node, whatever other lookups gave, and for no
\* other file, unless a lookup of that file printed nothing or a number that
\* does not fit (plugins/main.c:402-454, 507-529, 554-562 and 589-607), once the
\* list has been initialised.
ReportsExact ==
  last.sector # 0 /\ ~first_file => \A f \in Files :
    /\ last.sector < IntLimit /\ <<f, last.sector>> \in answered => f \in last.reported
    /\ f \in last.reported =>
         \/ <<f, last.sector>> \in answered
         \/ f \in silent
         \/ \E a \in Answers : a \notin 0 .. IntLimit - 1 /\ <<f, a>> \in answered

\* What the lookup is for: no file is reported that does not start at the
\* sector.  It does not hold: see the exceptions of ReportsExact.
NoFalseReport ==
  last.sector # 0 /\ ~first_file =>
    \A f \in last.reported : <<f, last.sector>> \in answered

\* vl.c:4331-4333 lets a machine run without a plugin ("No plugin loaded").
RunsWithoutPlugin == state # "crashed"
=============================================================================
