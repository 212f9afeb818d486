---------------------------- MODULE DeviceValues ----------------------------
(***************************************************************************)
(* What drivers make of the values of a device (lib/ptolemy/poller/        *)
(* driver.py, the functions that drivers name).                            *)
(*                                                                         *)
(* A driver names functions that turn the values of a device (bytes, masks *)
(* of bits, indices) into addresses, lists of vlans and of ports, and that *)
(* join the rows of one table with those of another.  `given' is what one  *)
(* of them is called with and `made' what it returns or yields; a run goes *)
(* through the inputs.  Texts are sequences of digits, masks are sets.     *)
(***************************************************************************)
EXTENDS Integers, FiniteSetsExt, SequencesExt, Functions

CONSTANTS
    Base,           \* of the digits of a byte: 16
    Octets,         \* of an address: 6
    Bits,           \* of the mask of a bank of vlans: 1024
    Short,          \* the length of a mask that is not looked at for runs: 512
    Run, Nibble,    \* so many bits set, from a multiple of a nibble on, are a run: 96, 4
    Ignored,        \* IGNORE_VLANS
    Banks,          \* the number of banks: 4
    Modulus,        \* of the slot and number of a port: 128
    Slots,          \* the slots and numbers of ports, and members of a channel, to try
    Aps, Serials,   \* access points, and serial numbers
    MaxKeys,        \* bound: the rows of a table, and the members of a channel
    None

ValuesAssumption ==
    /\ {Base, Octets, Bits, Short, Run, Nibble, Banks, Modulus, MaxKeys} \subseteq Nat \ {0}
    /\ Ignored \subseteq Nat /\ Slots \subseteq 0 .. Modulus - 1
    /\ None \notin Aps /\ None # "trunk"

VARIABLES given, made
valueVars == <<given, made>>

-----------------------------------------------------------------------------
(* Addresses *)

Bytes == 0 .. Base * Base - 1
Digits(b) == <<b \div Base, b % Base>>
\* hex(i)
Unpadded(b) == IF b < Base THEN <<b>> ELSE Digits(b)

\* The parts of an address as it is written: binary_to_hex, integers_to_hex, text
\* in quotes (which become separators, so that there are empty parts) and in groups
\* of two bytes.
Parts(a, notation) ==
    CASE notation = "binary" -> [i \in DOMAIN a |-> Digits(a[i])]
      [] notation = "integers" -> [i \in DOMAIN a |-> Unpadded(a[i])]
      [] notation = "quoted" -> <<<<>>>> \o [i \in DOMAIN a |-> Digits(a[i])] \o <<<<>>>>
      [] notation = "groups" -> [i \in 1 .. Len(a) \div 2 |-> Digits(a[2 * i - 1]) \o Digits(a[2 * i])]

\* _normalise_mac_address: zfill(2)
Filled(part) == [i \in 1 .. Max({0, 2 - Len(part)}) |-> 0] \o part

\* normalise_mac_address, _pretty_print_mac_address
MacAddress(parts) ==
    IF Len(parts) = Octets THEN [i \in DOMAIN parts |-> Filled(parts[i])] ELSE None

-----------------------------------------------------------------------------
(* Vlans.  A mask is [len, bits], or None if the device does not have the column. *)

HasRun(mask) ==
    \E j \in 0 .. mask.len : j * Nibble + Run <= mask.len
                             /\ \A i \in j * Nibble .. j * Nibble + Run - 1 : i \in mask.bits

\* decode_vlanVlansOnPort
DecodeVlans(mask) ==
    IF HasRun(mask) /\ mask.len # Short THEN {} ELSE mask.bits \ Ignored

\* Mutated: only the columns that are there count.
OffsetPresent(masks, b) == Bits * Cardinality({c \in 1 .. b - 1 : masks[c] # None})

\* merge_trunking_vlans: where the vlans of a bank begin.
Offset(masks, b) == Bits * (b - 1)

TrunkedVlans(masks) ==
    UNION {{n + Offset(masks, b) : n \in DecodeVlans(masks[b])} : b \in {c \in DOMAIN masks : masks[c] # None}}

\* determine_port_function
PortFunction(trunked, native) ==
    CASE trunked # {} -> "trunk" [] trunked = {} /\ native # None -> "access" [] OTHER -> None

\* extract_l2vlan_trunking_vlans: of the subinterfaces [port, vlan].  And
\* extract_dot1qVlanStaticEgressPorts: of the indices of the ports of each vlan,
\* where an index that has no name is left out.
OfSubinterfaces(subs) == [p \in {s.port : s \in subs} |-> {s.vlan : s \in {x \in subs : x.port = p}}]
OfEgress(egress, name) ==
    [p \in {name[i] : i \in DOMAIN name \cap UNION Range(egress)} |->
        {v \in DOMAIN egress : \E i \in egress[v] \cap DOMAIN name : name[i] = p}]

-----------------------------------------------------------------------------
(* Channels and neighbours *)

\* decode_port_channels: of pairs of bytes; the first two are not ports.
DecodeChannel(bytes) ==
    LET pair(i) == (Base * Base) * bytes[2 * i - 1] + bytes[2 * i]
    IN  [i \in 1 .. Len(bytes) \div 2 - 2 |-> <<pair(i + 2) \div Modulus, pair(i + 2) % Modulus>>]

\* post_normalise_layer1_peer.  The address of an ip comes as a text where a list is
\* looked for, so that there is none.  A neighbour with no type of address is an
\* exception.
Neighbour(d) ==
    IF d.type = None THEN [raised |-> TRUE]
    ELSE [raised |-> FALSE,
          mac |-> IF d.type = "networkAddress" THEN MacAddress(Parts(d.port, "binary")) ELSE None,
          port |-> IF d.type = "networkAddress" THEN None ELSE d.port,
          ip |-> IF d.type = "ip" THEN d.address ELSE None,
          can |-> {x \in DOMAIN d.bits : d.bits[x] = 1}]

\* post_normalise_temperature: what is not in celsius is not yielded.
Temperature(d) ==
    IF d.sensor # "celsius" THEN <<>> ELSE <<IF d.scale = "milli" THEN d.value \div 1000 ELSE d.value>>

-----------------------------------------------------------------------------
(* Wireless *)

\* _bsn_data: a row for each serial number; the rows of one overwrite each other.
Bsn(rows) == [s \in {rows[i].serial : i \in DOMAIN rows} |->
                 rows[Max({i \in DOMAIN rows : rows[i].serial = s})].device]

\* post_merge_wireless_info_bsn: the controllers, and the access points.
InfoRows(info, rows) == info \cup {[name |-> Bsn(rows)[s]] : s \in DOMAIN Bsn(rows)}

\* post_merge_wireless_meta_bsn, with the index: 1 is the controller.
MetaRow(k, serial, rows) ==
    [device |-> IF serial \in DOMAIN Bsn(rows) THEN Bsn(rows)[serial] ELSE None,
     index |-> IF k = 1 THEN 1 ELSE 0]

\* Mutated: a key is looked up as it is.
KeyOnly(k, aps, x) == IF k.tail = "none" THEN k.ap ELSE None

\* post_merge_wireless_apname_on_radio: the access point that is looked up for a
\* key, which is that of an access point, that with one digit, or that with more:
\* then it is what was looked up last.
LookedUp(k, aps, x) == IF k.tail = "more" THEN x ELSE k.ap

\* The row of a key.  If nothing was looked up before it: an exception.
RadioRow(acc, k, aps) ==
    LET x == LookedUp(k, aps, acc.x) IN
    IF acc.raised \/ x = None THEN [acc EXCEPT !.raised = TRUE]
    ELSE [acc EXCEPT !.x = x,
                     !.rows = IF x \in aps THEN @ \cup {[key |-> k, device |-> x]} ELSE @]

\* All rows, in the order of the dictionary.
RadioRows(keys, aps) ==
    FoldLeft(LAMBDA acc, k : RadioRow(acc, k, aps),
             [x |-> None, rows |-> {}, raised |-> FALSE], keys)

\* post_merge_wireless_apname_on_mac_address: the last of the access points with
\* the address.
OnMac(names, mac) ==
    LET fit == {i \in DOMAIN names : names[i].mac = mac}
    IN  IF fit = {} THEN None ELSE names[Max(fit)].device

\* post_reindex_wireless_on_serial: the table is filed by serial number, but for the
\* controller.
Reindexed(rows) ==
    [k \in {IF i = 1 THEN 1 ELSE rows[i].serial : i \in DOMAIN rows} |->
        IF k = 1 THEN 1 ELSE Max({i \in DOMAIN rows : i # 1 /\ rows[i].serial = k})]

-----------------------------------------------------------------------------

Notations == {"binary", "integers", "quoted", "groups"}
Masks == {[len |-> n, bits |-> S] : n \in {Short, Bits}, S \in SUBSET (0 .. Bits - 1)}
Lawful(m) == m = None \/ m.bits \subseteq 0 .. m.len - 1
RadioKeys == [ap : Aps, tail : {"none", "digit", "more"}]
BsnRows == UNION {[1 .. n -> [serial : Serials, device : Aps, mac : Serials]] : n \in 0 .. MaxKeys}
Name == [i \in {1, 2} |-> IF i = 1 THEN "p" ELSE "q"]
Neighbours == [type : {None, "networkAddress", "macAddress", "ip"}, port : [1 .. Octets -> {0, Base}],
               address : {"address"}, bits : [1 .. 2 -> {0, 1}]]

Given ==
    \/ \E a \in [1 .. Octets -> Bytes], n \in Notations : given = [kind |-> "mac", a |-> a, notation |-> n]
    \/ \E m \in {f \in [1 .. Banks -> Masks \cup {None}] : \A b \in 1 .. Banks : Lawful(f[b])},
          n \in {None, 1} :
          given = [kind |-> "vlans", masks |-> m, native |-> n]
    \/ \E S \in SUBSET [port : {"p", "q"}, vlan : {1, 2}] : given = [kind |-> "subs", subs |-> S]
    \/ \E e \in [{1, 2} -> SUBSET {1, 2, 3}] : given = [kind |-> "egress", egress |-> e]
    \/ \E n \in 0 .. MaxKeys : \E c \in [1 .. n -> Slots \X Slots] : given = [kind |-> "channel", ports |-> c]
    \/ \E d \in Neighbours : given = [kind |-> "neighbour", d |-> d]
    \/ \E s \in {"celsius", "volts"}, c \in {"milli", "units"} :
          given = [kind |-> "temperature", d |-> [sensor |-> s, scale |-> c, value |-> 2000]]
    \/ \E r \in BsnRows, s \in Serials : given = [kind |-> "bsn", rows |-> r, serial |-> s]
    \/ \E n \in 0 .. MaxKeys : \E ks \in [1 .. n -> RadioKeys], A \in SUBSET Aps :
          IsInjective(ks) /\ given = [kind |-> "radio", keys |-> ks, aps |-> A]

GivenInit == made = None /\ Given

\* What the device sends for the ports of a channel: two pairs, and one for each.
Sent(ports) ==
    LET number(i) == ports[(i - 3) \div 2][1] * Modulus + ports[(i - 3) \div 2][2]
    IN  [i \in 1 .. 2 * Len(ports) + 4 |->
           CASE i <= 4 -> IF i = 2 THEN Len(ports) ELSE 0
             [] i > 4 /\ i % 2 = 1 -> number(i) \div (Base * Base)
             [] i > 4 /\ i % 2 = 0 -> number(i) % (Base * Base)]

Result ==
    CASE given.kind = "mac" -> [mac |-> MacAddress(Parts(given.a, given.notation))]
      [] given.kind = "vlans" ->
            [vlans |-> TrunkedVlans(given.masks),
             function |-> PortFunction(TrunkedVlans(given.masks), given.native)]
      [] given.kind = "subs" -> [vlans |-> OfSubinterfaces(given.subs)]
      [] given.kind = "egress" -> [vlans |-> OfEgress(given.egress, Name)]
      [] given.kind = "channel" -> [ports |-> DecodeChannel(Sent(given.ports))]
      [] given.kind = "neighbour" -> Neighbour(given.d)
      [] given.kind = "temperature" -> [rows |-> Temperature(given.d)]
      [] given.kind = "bsn" ->
            [info |-> InfoRows({}, given.rows), meta |-> MetaRow(2, given.serial, given.rows),
             mac |-> OnMac(given.rows, given.serial), table |-> Reindexed(given.rows)]
      [] given.kind = "radio" -> RadioRows(given.keys, given.aps)

Make == made = None /\ made' = Result /\ UNCHANGED given

ValueSpec == GivenInit /\ [][Make]_valueVars

-----------------------------------------------------------------------------
(* Properties *)

\* An address is the same however it is written, or is refused; the ports of a
\* channel are those the device sent; and a port has the vlans of its masks, those
\* that are ignored and those of a mask with a run apart: no vlan is made up or
\* moved because a device lacks a column.
ValuesReadBack ==
    made # None =>
        /\ given.kind = "mac" => made.mac =
              IF given.notation \in {"binary", "integers"} THEN [i \in 1 .. Octets |-> Digits(given.a[i])]
              ELSE None
        /\ given.kind = "channel" => made.ports = given.ports
        /\ given.kind = "vlans" =>
              /\ \A v \in 0 .. Bits * Banks - 1 :
                    LET m == given.masks[v \div Bits + 1] IN
                    v \in made.vlans <=>
                        /\ m # None /\ v % Bits \in m.bits \ Ignored
                        /\ HasRun(m) => m.len = Short
              /\ made.function = "trunk" <=> made.vlans # {}

\* A row of a radio has the name of its own access point if that is known, and is
\* not left out, unless a key with more than a digit came before; an access point
\* has the name that goes with its serial number.
RowsJoined ==
    made # None =>
        /\ given.kind = "radio" => \A i \in DOMAIN given.keys :
              (\A j \in 1 .. i : given.keys[j].tail # "more") =>
                  \A d \in Aps : ([key |-> given.keys[i], device |-> d] \in made.rows)
                                 <=> (d = given.keys[i].ap /\ d \in given.aps)
        /\ given.kind = "bsn" /\ made.meta.device # None =>
              \E i \in DOMAIN given.rows : given.rows[i].serial = given.serial
                                           /\ given.rows[i].device = made.meta.device

=============================================================================
