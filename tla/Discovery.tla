----------------------------- MODULE Discovery -----------------------------
(***************************************************************************)
(* Which adapter, address and subnet the redirector is given                *)
(* (src/src/hotspot.rs:191-367, 505-541, 812-820), and what the code makes  *)
(* of the subnet: the test on a packet's source (hotspot.rs:31-44) and the  *)
(* address range of the inbound WinDivert filter (redirector.rs:793-803).   *)
(* Addresses are the numbers below 2^Bits (32 in the code).                 *)
(*                                                                         *)
(* An adapter has its index, its interface type and state, which of its     *)
(* names say Wi-Fi Direct, and the sequence of its IPv4 addresses.  A       *)
(* Result is a set: {} for Err, {runtime} for Ok.                           *)
(***************************************************************************)
EXTENDS Integers, Sequences

CONSTANTS Bits,       \* the width of an address
          Loopback,   \* 127.0.0.0/8
          Localhost,  \* 127.0.0.1
          LinkLocal   \* 169.254.0.0/16

\* 2^n; a shift to the left by n multiplies with it.
Pow2[n \in 0..Bits] == IF n = 0 THEN 1 ELSE 2 * Pow2[n - 1]

Addresses == 0..(Pow2[Bits] - 1)

ASSUME BitsAssumption ==
    /\ Bits \in Nat \ {0}
    /\ Loopback \cup LinkLocal \subseteq Addresses
    /\ Localhost \in Loopback

\* The network mask: the code shifts all ones left, except for prefix 0, where
\* the shift would be by the whole width.  A prefix beyond the width is the width.
HostBits(prefix_len) == IF prefix_len > Bits THEN 0 ELSE Bits - prefix_len
Mask(prefix_len) ==
    IF HostBits(prefix_len) = Bits THEN 0
    ELSE ((Pow2[Bits] - 1) * Pow2[HostBits(prefix_len)]) % Pow2[Bits]

\* ip & mask, of a mask of leading ones
Masked(ip, mask) == ip - (ip % (Pow2[Bits] - mask))

\* Ipv4Cidr::contains, network_address and cidr_bounds
Contains(subnet, ip) ==
    Masked(subnet.address, Mask(subnet.prefix)) = Masked(ip, Mask(subnet.prefix))
NetworkAddress(ip, prefix) == Masked(ip, Mask(prefix))
Bounds(subnet) ==
    LET mask == Mask(subnet.prefix)
        low  == Masked(subnet.address, mask)
    IN [low |-> low, high |-> low + (Pow2[Bits] - 1 - mask)]

Runtime(c) == [index |-> c.index, gateway |-> c.ip,
               subnet |-> [address |-> NetworkAddress(c.ip, c.prefix), prefix |-> c.prefix]]

\* Those with the least value of a field.  A stable sort by that field puts them in
\* front; the first of the list is the one with the least position among them.
LeastBy(S, field) == {x \in S : \A y \in S : x[field] <= y[field]}
Foremost(S)       == LeastBy(LeastBy(S, "adapter"), "addr")

\* is_usable_hotspot_gateway
Usable(a) == a.prefix <= Bits /\ a.ip \notin Loopback \cup LinkLocal \cup {0}

\* The adapters the native discovery considers
IsHotspot(a) ==
    /\ a.ieee80211
    /\ a.status = "up"
    /\ {a.description, a.friendly} \cap {"Wi-Fi Direct", "WiFi Direct"} # {}

\* An address of the k-th adapter, with its position
AddressesOf(adapters, k) ==
    {[index |-> adapters[k].index, ip |-> adapters[k].addrs[i].ip,
      prefix |-> adapters[k].addrs[i].prefix, adapter |-> k, addr |-> i] :
        i \in DOMAIN adapters[k].addrs}

Candidates(adapters) ==
    {c \in UNION {AddressesOf(adapters, k) : k \in {n \in DOMAIN adapters : IsHotspot(adapters[n])}} :
        Usable(c)}

\* GetAdaptersAddresses answers within the three calls: an overflow is tried again.
Answered(calls) ==
    \E i \in DOMAIN calls :
        calls[i] = "success" /\ \A j \in 1..(i - 1) : calls[j] = "overflow"

\* Mutant of Native: the first address listed is taken, sorted or not.
NativeUnsorted(calls, adapters) ==
    {Runtime(c) : c \in {x \in Foremost(Candidates(adapters)) : Answered(calls)}}

\* discover_hotspot_private_interface_native.  calls has the results of its calls of
\* GetAdaptersAddresses.
Native(calls, adapters) ==
    IF ~Answered(calls) THEN {}
    ELSE {Runtime(c) : c \in Foremost(LeastBy(LeastBy(Candidates(adapters), "index"), "prefix"))}

\* HOTSPOT_INTERFACE_DISCOVERY_SCRIPT, whose line of three fields
\* parse_hotspot_runtime reads back; without an adapter or an address it
\* prints nothing.  The first adapter decides, whatever addresses it has.
Script(adapters) ==
    LET active == {k \in DOMAIN adapters : /\ adapters[k].description = "Wi-Fi Direct"
                                           /\ adapters[k].status \in {"up", "connected"}}
        first  == LeastBy(LeastBy({[index |-> adapters[k].index, adapter |-> k] : k \in active},
                                  "index"), "adapter")
        addrs  == {c \in UNION {AddressesOf(adapters, a.adapter) : a \in first} :
                      c.ip \notin LinkLocal \cup {Localhost}}
    IN {Runtime(c) : c \in Foremost(LeastBy(addrs, "prefix"))}

\* discover_hotspot_private_interface
Discovered(calls, adapters, powershell) ==
    IF Native(calls, adapters) # {} \/ ~powershell THEN Native(calls, adapters)
    ELSE Script(adapters)
=============================================================================
