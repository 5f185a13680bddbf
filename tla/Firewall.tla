------------------------------- MODULE Firewall ------------------------------
(***************************************************************************)
(* The Netfilter module of module5/06 (firewall.c): a table of blocked     *)
(* addresses that commands written to /proc/firewall_ips change and the    *)
(* packet hook walks, with no lock between them.                           *)
(*                                                                         *)
(* Commands come one at a time; what a hook does at the same time is       *)
(* interleaved with every store.  strcpy is not atomic: while an entry is  *)
(* being copied it is Torn and a comparison with it may come out either    *)
(* way.  Stores are seen in program order, as on x86.  The hooks of        *)
(* several processors change nothing, so one stands for them all.          *)
(* Every address fits its entry (IP_STR_LEN); what the strcpy of a longer  *)
(* one writes past it is undefined and left out.                           *)
(***************************************************************************)
EXTENDS Integers, FiniteSets

CONSTANTS IPs,       \* addresses
          Torn,      \* the contents of an entry strcpy is writing
          MAX_IPS    \* size of the table

ASSUME FirewallAssumption == {"", Torn} \intersect IPs = {} /\ MAX_IPS \in Nat \ {0}

VARIABLES loaded,       \* "loaded", "closing" without its proc file, "unloaded"
          blocked_ips,  \* the table, entries past ip_count included
          ip_count,
          w,            \* the write in progress: its step, address and index
          hook,         \* the walk in progress: its step, address and index
          listed,       \* the addresses the completed commands have blocked
          wasListed,    \* the hook's address was one of them when it began
          shrunk        \* entries were removed or moved during the walk

firewallVars == <<loaded, blocked_ips, ip_count, w, hook, listed, wasListed, shrunk>>

Entries == 0 .. MAX_IPS - 1
Idle == [at |-> "idle", ip |-> "", i |-> 0]

\* firewall_init
FirewallInit ==
    /\ loaded = "loaded"
    /\ blocked_ips = [i \in Entries |-> ""] /\ ip_count = 0
    /\ w = Idle /\ hook = Idle
    /\ listed = {} /\ wasListed = FALSE /\ shrunk = FALSE

-----------------------------------------------------------------------------
(***************************************************************************)
(* firewall_write.  Only one runs, so its searches see a table at rest.    *)
(***************************************************************************)

Find(ip) == {i \in Entries : i < ip_count /\ blocked_ips[i] = ip}
Writing == loaded = "loaded" /\ w.at = "idle"

\* Mutant of Add: the address is not looked for first.
AddAnyway(ip) ==
    /\ Writing /\ ip_count < MAX_IPS
    /\ blocked_ips' = [blocked_ips EXCEPT ![ip_count] = Torn]
    /\ w' = [at |-> "added", ip |-> ip, i |-> ip_count]
    /\ UNCHANGED <<loaded, ip_count, hook, listed, wasListed, shrunk>>

\* "add": refused when the table is full, ignored when the address is there.
Add(ip) ==
    /\ Writing /\ ip_count < MAX_IPS /\ Find(ip) = {}
    /\ blocked_ips' = [blocked_ips EXCEPT ![ip_count] = Torn]
    /\ w' = [at |-> "added", ip |-> ip, i |-> ip_count]
    /\ UNCHANGED <<loaded, ip_count, hook, listed, wasListed, shrunk>>

\* strcpy completes, then ip_count++.
AddCopies ==
    /\ w.at = "added"
    /\ blocked_ips' = [blocked_ips EXCEPT ![w.i] = w.ip]
    /\ w' = [w EXCEPT !.at = "copied"]
    /\ UNCHANGED <<loaded, ip_count, hook, listed, wasListed, shrunk>>
AddCounts ==
    /\ w.at = "copied"
    /\ ip_count' = ip_count + 1
    /\ listed' = listed \union {w.ip}
    /\ w' = Idle
    /\ UNCHANGED <<loaded, blocked_ips, hook, wasListed, shrunk>>

\* "del": the entries after the address move down one by one, each a strcpy,
\* then ip_count--.
Del(ip) ==
    /\ Writing
    /\ \E i \in Find(ip) : /\ \A j \in Find(ip) : i <= j
                           /\ w' = [at |-> "del", ip |-> ip, i |-> i]
    /\ shrunk' = TRUE
    /\ UNCHANGED <<loaded, blocked_ips, ip_count, hook, listed, wasListed>>
DelTears ==
    /\ w.at = "del" /\ w.i < ip_count - 1
    /\ blocked_ips' = [blocked_ips EXCEPT ![w.i] = Torn]
    /\ w' = [w EXCEPT !.at = "move"]
    /\ shrunk' = TRUE
    /\ UNCHANGED <<loaded, ip_count, hook, listed, wasListed>>
DelMoves ==
    /\ w.at = "move"
    /\ blocked_ips' = [blocked_ips EXCEPT ![w.i] = blocked_ips[w.i + 1]]
    /\ w' = [w EXCEPT !.at = "del", !.i = @ + 1]
    /\ shrunk' = TRUE
    /\ UNCHANGED <<loaded, ip_count, hook, listed, wasListed>>
DelCounts ==
    /\ w.at = "del" /\ w.i >= ip_count - 1
    /\ ip_count' = ip_count - 1
    /\ listed' = listed \ {w.ip}
    /\ w' = Idle
    /\ shrunk' = TRUE
    /\ UNCHANGED <<loaded, blocked_ips, hook, wasListed>>

\* "clear"
Clear ==
    /\ Writing
    /\ ip_count' = 0 /\ listed' = {} /\ shrunk' = TRUE
    /\ UNCHANGED <<loaded, blocked_ips, w, hook, wasListed>>

\* firewall_exit: remove_proc_entry waits for a write in progress,
\* nf_unregister_net_hook for a hook in progress.
RemoveProcEntry ==
    /\ Writing
    /\ loaded' = "closing"
    /\ UNCHANGED <<blocked_ips, ip_count, w, hook, listed, wasListed, shrunk>>
Unregister ==
    /\ loaded = "closing" /\ hook.at = "idle"
    /\ loaded' = "unloaded" /\ ip_count' = 0
    /\ UNCHANGED <<blocked_ips, w, hook, listed, wasListed, shrunk>>

-----------------------------------------------------------------------------
(***************************************************************************)
(* firewall_hook, for a packet to ip.                                      *)
(***************************************************************************)

HookBegins(ip) ==
    /\ loaded # "unloaded" /\ hook.at = "idle"
    /\ hook' = [at |-> "test", ip |-> ip, i |-> 0]
    /\ wasListed' = (ip \in listed)
    /\ shrunk' = (w.at \in {"del", "move"})
    /\ UNCHANGED <<loaded, blocked_ips, ip_count, w, listed>>

\* Mutant of More: the last entry is not looked at.
MoreButLast == hook.i < ip_count - 1

\* i < ip_count
More == hook.i < ip_count
HookTests ==
    /\ hook.at = "test" /\ More
    /\ hook' = [hook EXCEPT !.at = "compare"]
    /\ UNCHANGED <<loaded, blocked_ips, ip_count, w, listed, wasListed, shrunk>>

\* strcmp: the next entry, or NF_DROP.
Matches == blocked_ips[hook.i] \in {hook.ip, Torn}
Differs == blocked_ips[hook.i] # hook.ip
HookCompares ==
    /\ hook.at = "compare" /\ Differs
    /\ hook' = [hook EXCEPT !.at = "test", !.i = @ + 1]
    /\ UNCHANGED <<loaded, blocked_ips, ip_count, w, listed, wasListed, shrunk>>
HookDrops ==
    /\ hook.at = "compare" /\ Matches
    /\ hook' = Idle
    /\ UNCHANGED <<loaded, blocked_ips, ip_count, w, listed, wasListed, shrunk>>

\* The end of the table: NF_ACCEPT.
HookAccepts ==
    /\ hook.at = "test" /\ ~ More
    /\ hook' = Idle
    /\ UNCHANGED <<loaded, blocked_ips, ip_count, w, listed, wasListed, shrunk>>

FirewallNext ==
    \/ \E ip \in IPs : Add(ip) \/ Del(ip) \/ HookBegins(ip)
    \/ AddCopies \/ AddCounts \/ DelTears \/ DelMoves \/ DelCounts \/ Clear
    \/ RemoveProcEntry \/ Unregister
    \/ HookTests \/ HookCompares \/ HookDrops \/ HookAccepts

FirewallSpec == FirewallInit /\ [][FirewallNext]_firewallVars

-----------------------------------------------------------------------------
(***************************************************************************)
(* Properties.                                                             *)
(***************************************************************************)

\* Between two commands the first ip_count entries are the addresses the
\* commands have left blocked, each once, however the table was shifted,
\* filled and cleared, and no stale entry has come back.
TableIsWhatWasCommanded ==
    (w.at = "idle" /\ loaded = "loaded") =>
        /\ ip_count = Cardinality(listed)
        /\ {blocked_ips[i] : i \in 0 .. ip_count - 1} = listed

\* The hook walks the table while commands change it.  A packet is accepted
\* only if its address was not blocked when the walk began, and dropped only
\* if it is blocked by now, unless a del or a clear was at work meanwhile: an
\* addition alone, finished or not, never misleads the hook.
HookIsRight ==
    [][(hook.at # "idle" /\ hook'.at = "idle" /\ ~ shrunk) =>
          IF hook.at = "test" THEN ~ wasListed ELSE hook.ip \in listed]_firewallVars
=============================================================================
