------------------------------ MODULE MCServices ------------------------------
(***************************************************************************)
(* The kernel's services for TLC: the in-memory file system, the module    *)
(* registry, the network tables, the log, the random number generator, the *)
(* console and the desktop.  They share no state; a behaviour exercises    *)
(* one of them.                                                            *)
(***************************************************************************)
EXTENDS RamFs

CONSTANTS
  Names, MODULE_LIMIT, Callers, MaxUsers,
  NET_ARP_CACHE_SIZE, Addresses, Macs, Lifetimes, MaxTime, NET_ROUTE_MAX, Bits, Metrics,
  KLOG_CAPACITY, Bytes, MaxWritten,
  RANDOM_OUTPUT_BYTES, ReadyBits, HardwareBits, Estimates, Requests, Readings, MaxBlocks,
  CommandSize, VGA_WIDTH, SerialBytes

Path(absolute, segments) == [absolute |-> absolute, segments |-> segments, long |-> FALSE]
LongPath(segments) == [absolute |-> FALSE, segments |-> segments, long |-> TRUE]
MCPaths ==
  {Path(FALSE, <<>>), Path(TRUE, <<>>), Path(FALSE, <<"a">>), Path(FALSE, <<"b">>),
   Path(TRUE, <<"b">>), Path(TRUE, <<"a", "b">>), Path(FALSE, <<"b", "a">>),
   Path(FALSE, <<"..">>), Path(FALSE, <<"..", "b">>), Path(TRUE, <<"a", "">>),
   Path(FALSE, <<"a", ".", "a">>), Path(FALSE, <<"long">>),
   LongPath(<<".", "b">>)}
MCTexts == {<<1>>}
MCLayout == << << <<"a">>, <<>> >>, << <<"a", "b">>, <<1>> >> >>

(* b needs a and, in a cycle, c.                                           *)
Builtin == <<"core">>
Dependencies ==
  [n \in Names |-> CASE n = "a" -> <<"core">>
                     [] n = "b" -> <<"a", "c">>
                     [] n = "c" -> <<"b">>
                     [] n = "core" -> <<>>]

VARIABLES
  part,                                                     \* the one in use
  modules, calls, answer, users, raced,
  arp_cache, now, learnt, routes,
  log_buffer, log_start, log_length, written,
  entropy_bits, random_available, block, mixed, output, given, credited,
  shift, caps_lock, control, command, cells, column, held, overlapped,
  setup_mode, page, about, shown, step, volume

module_vars == <<modules, calls, answer, users, raced>>
net_vars == <<arp_cache, now, learnt, routes>>
log_vars == <<log_buffer, log_start, log_length, written>>
random_vars == <<entropy_bits, random_available, block, mixed, output, given, credited>>
console_vars == <<shift, caps_lock, control, command, cells, column, held, overlapped>>
desktop_vars == <<setup_mode, page, about, shown, step, volume>>
service_vars ==
  <<part, fs_vars, module_vars, net_vars, log_vars, random_vars, console_vars, desktop_vars>>

Registry == INSTANCE ModuleRegistry
Net == INSTANCE NetTables
Log == INSTANCE Klog
Generator == INSTANCE Random
Terminal == INSTANCE Console
Graphical == INSTANCE Desktop

ASSUME ServiceConstants == Log!KlogConstants

(* What the generator and the desktop may start with varies only where     *)
(* they are the part in use.                                               *)
ServiceInit ==
  /\ part \in {"files", "modules", "arp", "routes", "log", "random", "console", "desktop"}
  /\ FsInit /\ Registry!module_init /\ Net!NetInit /\ Log!klog_init
  /\ Terminal!ConsoleInit
  /\ Generator!RandomInit /\ (part = "random" \/ Generator!random_init(<<0, 0, 0, 0>>))
  /\ Graphical!DesktopInit /\ (part = "desktop" \/ setup_mode)

ServiceNext ==
  /\ UNCHANGED part
  /\ \/ /\ part = "files" /\ FsNext
        /\ UNCHANGED <<module_vars, net_vars, log_vars, random_vars, console_vars, desktop_vars>>
     \/ /\ part = "modules" /\ Registry!ModuleNext
        /\ UNCHANGED <<fs_vars, net_vars, log_vars, random_vars, console_vars, desktop_vars>>
     \/ /\ \/ part = "arp" /\ Net!ArpNext
           \/ part = "routes" /\ Net!RouteNext
        /\ UNCHANGED <<fs_vars, module_vars, log_vars, random_vars, console_vars, desktop_vars>>
     \/ /\ part = "log" /\ Log!LogNext
        /\ UNCHANGED <<fs_vars, module_vars, net_vars, random_vars, console_vars, desktop_vars>>
     \/ /\ part = "random" /\ Generator!RandomNext
        /\ UNCHANGED <<fs_vars, module_vars, net_vars, log_vars, console_vars, desktop_vars>>
     \/ /\ part = "console" /\ Terminal!ConsoleNext
        /\ UNCHANGED <<fs_vars, module_vars, net_vars, log_vars, random_vars, desktop_vars>>
     \/ /\ part = "desktop" /\ Graphical!DesktopNext
        /\ UNCHANGED <<fs_vars, module_vars, net_vars, log_vars, random_vars, console_vars>>

ServiceSpec == ServiceInit /\ [][ServiceNext]_service_vars
------------------------------------------------------------------------------
(* In-memory files: until the current directory is removed the table is a  *)
(* tree, every call of ramfs.c does to it what the named operation does to *)
(* a tree, and a slot reused after fs_remove brings nothing of its past    *)
(* back.                                                                   *)
FilesImplementTree ==
  Promise!TreeInit /\ [][part = "files" => Promise!TreeNext]_(Promise!tree_vars)

(* In-memory files: every call answers what the tree says.                 *)
FilesAgree == part = "files" => AnswersAgree

(* Reference counts are exact and no live module loses a dependency, until *)
(* a slot moves under another caller.                                      *)
ModulesSound == part = "modules" => Registry!ReferencesExact /\ Registry!DependenciesLive

(* The ARP cache answers the latest knowledge, the routing table the most  *)
(* specific and then cheapest route.                                       *)
NetTablesSound == (part = "arp" => Net!ArpSound) /\ (part = "routes" => Net!RouteBest)

(* The log holds the latest bytes; the generator is ready exactly when     *)
(* enough was credited, hands out no byte twice, and none that was made    *)
(* before the latest entropy.                                              *)
StreamsExact ==
  /\ [](part = "log" => Log!HoldsLatest /\ Log!CopiesOldest)
  /\ [](part = "random" => Generator!ReadyExact /\ Generator!BitsCapped /\ Generator!OutputFresh)
  /\ Generator!OutputMixed

(* The screen shows what Enter would run, the modifiers are tracked, and a *)
(* volume is announced as installed only when it is.                       *)
ScreenHonest ==
  /\ part = "console" => Terminal!EchoAgrees /\ Terminal!ModifiersTracked
  /\ part = "desktop" => Graphical!ReadyIsInstalled

=============================================================================
