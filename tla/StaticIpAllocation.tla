------------------------- MODULE StaticIpAllocation -------------------------
(***************************************************************************)
(* allocate_static_ip of src/source-port/apis/openvpn_server_api.c: the   *)
(* first-fit scan of the server subnet that ovpn_server_create_client     *)
(* runs under clients_mutex.                                               *)
(*                                                                         *)
(* An address is its host offset i in the subnet (the code returns        *)
(* network + i; the network is taken as aligned, so offsets and          *)
(* addresses are in one-to-one correspondence).  The configured subnet    *)
(* string is abstracted to what the parse yields: whether it contains a  *)
(* '/', and the prefix length atoi reads after it.  The set of addresses  *)
(* in use is computed by the caller from the record table (the inner loop *)
(* over clients[j].has_static_ip and clients[j].static_ip).               *)
(***************************************************************************)
EXTENDS Naturals, FiniteSetsExt

(* The value 0 the function returns for "no available IP". *)
NoAddress == 0

(* The scan starts at .10 to keep clear of the gateway. *)
FirstHost == 10

(* The loop bound (1 << (32 - prefix)) - 1, an int compared with the    *)
(* uint32_t loop variable.  For prefix 2..32 the shift is exact and the  *)
(* bound is the subnet's broadcast offset; for prefix 1 the shift gives  *)
(* INT_MIN and the subtraction wraps to the same 2^31 - 1.  A prefix of  *)
(* 0 or above 32 shifts by an out-of-range count (undefined) and is kept *)
(* out of the inputs.                                                     *)
ScanBound(prefix) == 2^(32 - prefix) - 1

(* Fault variant: the loop condition written as i <= bound, which hands  *)
(* out the broadcast address once the hosts are used up.                 *)
RECURSIVE ScanPastBound(_, _, _)
ScanPastBound(i, bound, used) ==
    IF i > bound THEN NoAddress
    ELSE IF i \notin used THEN i
    ELSE ScanPastBound(i + 1, bound, used)

(* The outer loop: the first offset from i on, below the bound, that no *)
(* record holds.                                                          *)
RECURSIVE ScanFrom(_, _, _)
ScanFrom(i, bound, used) ==
    IF i >= bound THEN NoAddress
    ELSE IF i \notin used THEN i
    ELSE ScanFrom(i + 1, bound, used)

(* allocate_static_ip: no '/' in server_subnet gives 0; otherwise the    *)
(* scan from FirstHost.                                                   *)
AllocateStaticIp(subnet, used) ==
    IF ~subnet.slash THEN NoAddress
    ELSE ScanFrom(FirstHost, ScanBound(subnet.prefix), used)

(***************************************************************************)
(* Reference: section 4.4 of the specification, "linear scan of the      *)
(* subnet's host range starting at offset 10, skipping addresses already  *)
(* in use; allocation failure if the subnet is exhausted".  The host      *)
(* range excludes the network and broadcast offsets.                      *)
(***************************************************************************)
HostRange(prefix) == FirstHost..(2^(32 - prefix) - 2)

FirstFreeHost(subnet, used) ==
    LET free == IF subnet.slash THEN HostRange(subnet.prefix) \ used ELSE {}
    IN  IF free = {} THEN NoAddress ELSE Min(free)
=============================================================================
